SPECIFICATION SpecAssign
CONSTANTS
  Lists = {a, b}
  Values = {x}
  BucketSize = 1
  MaxSize = 3
INVARIANT PushHasRoom
