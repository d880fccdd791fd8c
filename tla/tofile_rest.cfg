SPECIFICATION FairSpec
CONSTANTS
 p1 = p1  p2 = p2  d1 = d1  a = a  b = b  x = x
 None = None  Absent = Absent
 ProbeIndex = 0 
 Situations <- Rest
 Puts = {p1}  Deletes = {}  Chunks <- MCChunks
 ChunksOf <- RestChunksOf  Content <- RestContent
 MaxParallelGets = 2  MaxCalls = 2
INVARIANTS TypeOK OkIsWholeFile WrittenInOrder
PROPERTIES ExistingFileKept Returns
CHECK_DEADLOCK FALSE
