SPECIFICATION Spec
CONSTANTS
  Sockets = {k1}
  States = {d1}
  NoState = NoState
  TaskOp = TaskOp
  Workers = {w1, w2}
  MaxOp = 3
  Programs <- MCPrograms
  MaxData = 2
  MaxRoom = 1
  WriteSize = 2
SYMMETRY Symmetry
CHECK_DEADLOCK FALSE
INVARIANTS
  LinkedOnce
  OpsOfOwner
  FreesOwnState
  WorkIsOps
  NoLostEvent
  ReadsInOrder
