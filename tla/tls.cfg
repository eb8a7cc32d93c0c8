SPECIFICATION FairSpec
CONSTANTS
  Threads = {t1, t2}
  NoThread = NoThread
  Combiners = {t1}
  BucketSize = 2
  MaxSlots = 4
  MaxNest = 2
  Ordered = TRUE
INVARIANTS
  SlotExclusive
  HandleLocked
  ScanInBounds
  FastPathComplete
  SlotsBounded
PROPERTIES
  LockReturns
  ImplementsThreadSlots
