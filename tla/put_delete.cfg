SPECIFICATION Spec
CONSTANTS
  p1 = p1
  p2 = p2
  d1 = d1
  Puts = {p1, p2}
  Deletes = {d1}
  Chunks <- MCChunks
  ChunksOf <- MixedChunksOf
  Operation <- MixedOperation
  None = None
  Routers = 1
  LateRequests = FALSE
  MaxTries = 2
  MaxConcurrency = 1
INVARIANTS
  LeftoversAreUnconfirmed
  ErrOnlyAfterAllTries
PROPERTIES
  KeepsPromise
  WorkShrinks
CHECK_DEADLOCK FALSE
