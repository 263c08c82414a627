\* one process
CONSTANTS
  Commit = {"c0", "c1", "c2", "cr", "cs"}
  File = {"a", "b", "r"}
  Func = {"f", "g"}
  None = "none"
  Tree <- TheTree
  Histories <- All
  MaxUnits = 1
  MaxCrashes = 0
  MaxFaults = 0
SPECIFICATION Spec
INVARIANT AllFunctionsCut
CHECK_DEADLOCK FALSE
