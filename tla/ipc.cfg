SPECIFICATION FairSpec
CONSTANTS
  short = short
  long = long
  k1 = k1
  OnDisk <- MCOnDisk
  NoKey = NoKey
  None = None
  Paths = {f1}
  Contents = {short, long}
  Cells <- MCCells
  Cell = {"s1", "l1", "l2", "l3"}
  Keys = {k1}
  Processes = {p1, p2}
  Memory = 4
  ChunkSize = 2
  QueueSize = 2
  MailSize = 1
  ToDisk = 2
  ToCloud = 1
  Workers = 1
  MaxTasks = 2
  MaxRewrites = 1
INVARIANTS
  TypeOK
  SchemaIsStored
  ResultIsData
PROPERTIES
  KeepsMemoryPromise
  ReadsWhatWasPut
  CopiesAreStored
  DiskCatchesUp
CHECK_DEADLOCK FALSE
