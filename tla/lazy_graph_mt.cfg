SPECIFICATION FairSpecMt
CONSTANTS
  Ids = {1, 2, 3, 4}
  Writable = {1}
  MaxVersion = 3
  Requests <- LeafRequests
  Shared = 0
INVARIANTS
  NoConflict
  MatchesInTurn
PROPERTY CleanMtReturns
