SPECIFICATION FairSpec
CONSTANTS
  Runners = {r1}
  Posters = {p1, p2}
  Ops = {o1, o2, o3}
  TaskOp = TaskOp
  NoProc = NoProc
  NoOp = NoOp
  Modes = {}
  OneThread = FALSE
  Throws = TRUE
  OwnThread = {r1}
CHECK_DEADLOCK FALSE
INVARIANTS
  ShutdownLeavesNothing
PROPERTIES
  ShutdownEnds
