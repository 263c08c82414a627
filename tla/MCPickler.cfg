\* three runs, killed anywhere, over changing logs
CONSTANTS
  c1 = c1
  c2 = c2
  c3 = c3
  f1 = f1
  f2 = f2
  Chunk = {c1, c2, c3}
  Func = {f1, f2}
  Worker = {w1, w2}
  Logs <- ChangedLogs
  None = None
  Cut = Cut
  MaxRuns = 3
SPECIFICATION Spec
INVARIANTS TypeOK ExactlyOnce NoTempsLeft NeverNeither
PROPERTY RunEnds
CHECK_DEADLOCK FALSE
