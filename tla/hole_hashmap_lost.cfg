SPECIFICATION AnySpec
CONSTANTS
  Sentinel = 3
  Maps = {a, b}
  Values = {x}
  OtherParts = {"hole_hashmap"}
  Sets = {a, b}
  Widths = {1, 2}
  SetKeys = {0, 1, 3}
  Batches <- MCBatches
  Vectors = {a, b}
  StackSize = 4
  Blank = "blank"
  Raw = "raw"
  Bad = "bad"
  HoleKeys = {0, 7, 14, 1}
  HoleValues = {0, 7, 14, 1}
  Items <- MCCollidingItems
  MaxLoads = {}
  Counts = {6}
  Lists = {a, b}
  BucketSize = 2
  MaxSize = 3
INVARIANT KeysFound
