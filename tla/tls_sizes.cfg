SPECIFICATION Spec
CONSTANTS
  Threads = {t1, t2}
  NoThread = NoThread
  Combiners = {}
  BucketSize = 2
  MaxSlots = 2
  MaxNest = 1
  Ordered = TRUE
INVARIANT SizeAsserts
