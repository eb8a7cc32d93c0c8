SPECIFICATION Spec
CONSTANTS
  Ids = {a, b, c}
  Writable = {}
  MaxVersion = 3
SYMMETRY Symmetry
INVARIANT EvalGraphsSound
