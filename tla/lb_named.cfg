SPECIFICATION Spec
CONSTANTS
  N = 3
  MaxOps = 4
INVARIANTS
  Balanced
CHECK_DEADLOCK FALSE
