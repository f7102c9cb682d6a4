SPECIFICATION Spec
CONSTANTS
  Channels = {c1}
  Senders = {s1, s2, s3, s4, s5}
  Receivers = {r1, r2, r3, r4}
  NoMessage = NoMessage
  MaxBatch = 3
  Concurrent = FALSE
  MovesRace = FALSE
  Uses <- MailboxUses
SYMMETRY Symmetry
CHECK_DEADLOCK FALSE
INVARIANTS
  StatesTellWaiters
PROPERTIES
  ImplementsMailbox
