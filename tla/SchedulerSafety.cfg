SPECIFICATION Spec
CONSTANTS
  Runners = {r1, r2}
  Posters = {p1}
  Ops = {o1, o2}
  TaskOp = TaskOp
  NoProc = NoProc
  NoOp = NoOp
  Modes = {"run", "run_one", "wait_one", "poll", "poll_one"}
  OneThread = FALSE
  Throws = TRUE
  OwnThread = {}
SYMMETRY Symmetry
CHECK_DEADLOCK FALSE
INVARIANTS
  TaskInOnePlace
  WorkCount
PROPERTIES
  ImplementsExecutor
