SPECIFICATION FairSpec
CONSTANTS
  Timers = {1, 2, 3, 4, 5, 6, 7}
  NoTimer = NoTimer
  Queues = {"steady", "system"}
  QueueOf <- MCQueueOf
  Never = Never
  MaxWait = 1
  MaxTime = 2
  MaxWaits = 2
  Programs <- MCPrograms
CHECK_DEADLOCK FALSE
INVARIANTS
  HeapSound
  ListSound
  WaitsKept
  AlarmSet
PROPERTIES
  ImplementsTimers
  ExpiredCompletes
