SPECIFICATION SpecSettled
CONSTANTS
  Ids = {a, b, c}
  Writable = {a, b, c}
  MaxVersion = 4
SYMMETRY Symmetry
INVARIANTS
  StructureOK
  NeverAhead
  EvalGraphsSound
PROPERTIES
  SubgraphOnly
  ImplementsLazyEval
