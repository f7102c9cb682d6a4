SPECIFICATION FairSpec
CONSTANTS
  Services = {"A", "A2", "B"}
  KeptFor <- MCKeptFor
  Sets = {1, 2, 3}
  ServiceOf <- MCServiceOf
  SignalNumbers = {2, 15}
  NoSignal = NoSignal
  NoService = NoService
  PipeSize = 2
  MaxWaits = 2
  Programs <- MCPrograms
CHECK_DEADLOCK FALSE
INVARIANTS
  NoneMissed
  HandlersMatch
  PipeNotified
PROPERTIES
  ImplementsSignals
  SignalsArrive
  RemoveEnds
