\* what the comment on the collected assignments says
CONSTANTS
  Node = {1, 2, 3, 4}
  Line = {1, 2, 3, 4}
  NoLine = 0
  Name = {"x", "p", "i", ""}
  MaxEdges = 0
  CPGs <- SomeGraphs
  Sources <- Ops
  MaxRuns = 1
SPECIFICATION Spec
INVARIANT LocalsNotReported
CHECK_DEADLOCK FALSE
