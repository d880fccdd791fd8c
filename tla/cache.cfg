SPECIFICATION Spec
CONSTANTS
  Keys = {1, 2, 3}
  Sizes = {2, 3, 6, 10}
  Capacity = 5
  None = None
  MaxOps = 7
INVARIANTS
  TypeOK
  HeapReachesAll
  LruNeverUndercounts
PROPERTIES
  EvictsLeastRecent
  EvictsLeastFrequent
CHECK_DEADLOCK FALSE
