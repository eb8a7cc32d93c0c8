SPECIFICATION Spec
CONSTANTS
  Threads = {t1, t2}
  NoThread = NoThread
  Combiners = {}
  BucketSize = 2
  MaxSlots = 4
  MaxNest = 2
  Ordered = FALSE
INVARIANT ScanInBounds
