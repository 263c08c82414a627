\* two runs of the script, one after the other, writing to one file
CONSTANTS
  Node = {1, 2, 3, 4}
  Line = {1, 2, 3, 4}
  NoLine = 0
  Name = {"x", "p", "i", ""}
  MaxEdges = 4
  CPGs <- Graphs
  Sources <- Ops
  MaxRuns = 2
SPECIFICATION Spec
INVARIANTS TypeOK SliceExact
PROPERTIES Terminates Implements
CHECK_DEADLOCK FALSE
