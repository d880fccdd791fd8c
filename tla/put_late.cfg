SPECIFICATION FairSpec
CONSTANTS
  p1 = p1
  p2 = p2
  d1 = d1
  Puts = {p1, p2}
  Deletes = {}
  Chunks <- MCChunks
  ChunksOf <- PartsChunksOf
  Operation <- PartsOperation
  None = None
  Routers = 1
  LateRequests = TRUE
  MaxTries = 2
  MaxConcurrency = 1
INVARIANTS
  TypeOK
  OkIsStored
PROPERTIES
  WorkShrinks
  Terminates
CHECK_DEADLOCK FALSE
