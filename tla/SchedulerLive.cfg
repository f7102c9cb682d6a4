SPECIFICATION FairSpec
CONSTANTS
  Runners = {r1, r2}
  Posters = {p1}
  Ops = {o1, o2}
  TaskOp = TaskOp
  NoProc = NoProc
  NoOp = NoOp
  Modes = {"run"}
  OneThread = FALSE
  Throws = FALSE
  OwnThread = {}
CHECK_DEADLOCK FALSE
INVARIANTS
  NoLostWakeup
PROPERTIES
  QueuedOpRuns
  StopReturns
  RunReturnsWithoutWork
