SPECIFICATION FairSpec
CONSTANTS
  Lengths = {0, 1, 2, 3, 5, 8, 12, 17}
  Sizes = {0, 1, 2, 3, 4, 7, 20}
  Counts = {0, 1, 2, 3, 5, 9}
  None = None
  MinFileChunk = 4
  MaxCuts = 20
INVARIANTS
  TypeOK
  Tiles
  SizesAsAsked
PROPERTIES
  NearsEnd
  Terminates
CHECK_DEADLOCK FALSE
