SPECIFICATION MapsSpec
CONSTANTS
  Sentinel = 3
  Maps = {a, b}
  Values = {x, y}
  OtherParts = {"hole_hashmap", "radix_sort"}
  Sets = {a, b}
  Widths = {1, 2}
  SetKeys = {0, 1, 3}
  Batches <- MCBatches
  Vectors = {a, b}
  StackSize = 4
  Blank = "blank"
  Raw = "raw"
  Bad = "bad"
  HoleKeys <- MCKeys
  HoleValues <- MCValues
  Items <- MCItems
  MaxLoads <- MCMaxLoads
  Counts = {0, 6}
  Lists = {a, b}
  BucketSize = 2
  MaxSize = 3
SYMMETRY Symmetry
INVARIANTS
  LookupInverse
  SetsAsAsked
  VectorsAsAsked
  MapAsAsked
  BucketShape
  IterInBounds
  SortsStably
PROPERTIES
  ImplementsKeyedMaps
  ImplementsSeqLists
