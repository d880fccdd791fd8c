SPECIFICATION FairSpec
CONSTANTS
 p2 = p2  p3 = p3  a = a  b = b  x = x
 None = None
 Chunks <- MCChunks
 ProbeIndex = 0
 Puts = {p2, p3}  Deletes = {}
 ChunksOf <- MixedChunksOf  Content <- MixedContent
 Situations <- MCSituations  MaxParallelGets = 1
INVARIANTS TypeOK AnswerWasThere ReadsTheBall ErrOnlyAfterAllRetries
PROPERTY Returns
CHECK_DEADLOCK FALSE
