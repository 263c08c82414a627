\* stored files across a crash
CONSTANTS
  Commit = {"c0", "c1", "c2", "cr", "cs"}
  File = {"a", "b", "r"}
  Func = {"f", "g"}
  None = "none"
  Tree <- TheTree
  Histories <- All
  MaxUnits = 1
  MaxCrashes = 1
  MaxFaults = 1
SPECIFICATION Spec
INVARIANTS TypeOK WrongOnlyAstray OnePartPerCrash TwoReports AllPairsCounted CountsNested
PROPERTY Stops
CHECK_DEADLOCK FALSE
