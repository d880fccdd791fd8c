SPECIFICATION Spec
CONSTANTS
  p1 = p1
  p2 = p2
  d1 = d1
  Puts = {p1}
  Deletes = {d1}
  Chunks <- MCChunks
  ChunksOf <- MixedChunksOf
  Operation <- MixedOperation
  None = None
  Routers = 2
  LateRequests = FALSE
  MaxTries = 2
  MaxConcurrency = 2
INVARIANT DeleteOkMeansGone
CHECK_DEADLOCK FALSE
