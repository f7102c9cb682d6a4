SPECIFICATION FairSpec
CONSTANTS
  Users = {1, 2}
  PoolThreads = {3, 4}
  Owner = 0
  Keys = {"scheduler", "reactor", "sockets", "resolver"}
  Needs <- MCNeeds
  Lookups = {"l1", "l2"}
  Posts = {"o1", "o2"}
  NoOp = NoOp
  Programs <- MCPrograms
CHECK_DEADLOCK FALSE
INVARIANTS
  ServicesInOrder
  EndsCleanly
  JoinedMeansDone
PROPERTIES
  CallsEnd
  ImplementsExecutor
