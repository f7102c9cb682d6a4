SPECIFICATION Spec
CONSTANTS
  Channels = {c1, c2}
  Senders = {s1, s2, s3}
  Receivers = {r1, r2}
  NoMessage = NoMessage
  MaxBatch = 2
  Concurrent = TRUE
  MovesRace = FALSE
  Uses <- AllUses
SYMMETRY Symmetry
CHECK_DEADLOCK FALSE
INVARIANTS
  MessageNotDuplicated
