SPECIFICATION Spec
CONSTANTS
  Channels = {c1}
  Senders = {s1, s2, s3}
  Receivers = {r1, r2, r3}
  NoMessage = NoMessage
  MaxBatch = 2
  Concurrent = FALSE
  MovesRace = FALSE
  Uses <- CancelUses
SYMMETRY Symmetry
CHECK_DEADLOCK FALSE
PROPERTIES
  CancelFailsSenders
