\* a ball and its neighbour
SPECIFICATION Spec
CONSTANTS
  call1 = call1
  call2 = call2
  call3 = call3
  Calls = {call1, call2, call3}
  Programs <- MCPrograms
  Letters = {"a", "b", "c", "0", "1"}
  BallNames <- MCNames
  Indices = {"0", "1"}
  Routers = 2
CHECK_DEADLOCK FALSE
INVARIANT
  OkStays
