------------------------------ MODULE Mailbox ------------------------------
(***************************************************************************)
(* What a channel promises: a mailbox of bounded capacity.  A message goes *)
(* to the receiver that waits longest, or is stored while there is room,   *)
(* or waits with its sender; it is received once, in the order of sending. *)
(* There are never receivers waiting while a message could be received,    *)
(* nor senders waiting while there is room.                                *)
(***************************************************************************)
EXTENDS Naturals, Sequences, SequencesExt, FiniteSetsExt

CONSTANTS Channels, Senders, Receivers, NoMessage

VARIABLES
  capacity,   \* per channel, how many messages it stores; never changes
  open,       \* channels that accept messages
  stored,     \* per channel, messages: a message is named by its sender
  sending,    \* per channel, the senders that wait
  receiving,  \* per channel, the receivers that wait
  result,     \* how each operation ended, "new" or "waiting" before that
  got         \* the message each receiver got

vars == <<capacity, open, stored, sending, receiving, result, got>>

Init ==
  /\ capacity \in [Channels -> Nat]
  /\ open = Channels
  /\ stored = [c \in Channels |-> <<>>]
  /\ sending = [c \in Channels |-> <<>>]
  /\ receiving = [c \in Channels |-> <<>>]
  /\ result = [o \in Senders \cup Receivers |-> "new"]
  /\ got = [r \in Receivers |-> NoMessage]

Ended(S, how) == [o \in DOMAIN result |-> IF o \in S THEN how ELSE result[o]]

HandOver(c, s) ==
  /\ result[s] = "new" /\ c \in open /\ receiving[c] # <<>>
  /\ LET r == Head(receiving[c])
     IN  /\ got' = [got EXCEPT ![r] = s]
         /\ result' = Ended({r, s}, "ok")
  /\ receiving' = [receiving EXCEPT ![c] = Tail(@)]
  /\ UNCHANGED <<open, stored, sending>>

Store(c, s) ==
  /\ result[s] = "new" /\ c \in open
  /\ receiving[c] = <<>> /\ Len(stored[c]) < capacity[c]
  /\ stored' = [stored EXCEPT ![c] = Append(@, s)]
  /\ result' = Ended({s}, "ok")
  /\ UNCHANGED <<open, sending, receiving, got>>

SendWaits(c, s) ==
  /\ result[s] = "new" /\ c \in open
  /\ receiving[c] = <<>> /\ Len(stored[c]) = capacity[c]
  /\ sending' = [sending EXCEPT ![c] = Append(@, s)]
  /\ result' = Ended({s}, "waiting")
  /\ UNCHANGED <<open, stored, receiving, got>>

\* A receiver takes the oldest message, and its room goes to a sender that
\* waits.
Receive(c, r) ==
  /\ result[r] = "new" /\ c \in open
  /\ stored[c] \o sending[c] # <<>>
  /\ got' = [got EXCEPT ![r] = Head(stored[c] \o sending[c])]
  /\ LET all == Tail(stored[c] \o sending[c])
     IN  stored' = [stored EXCEPT ![c] =
                      SubSeq(all, 1, Min({Len(all), capacity[c]}))]
  /\ sending' = [sending EXCEPT ![c] = IF @ = <<>> THEN @ ELSE Tail(@)]
  /\ result' = Ended({r} \cup (IF sending[c] = <<>> THEN {}
                                                    ELSE {Head(sending[c])}),
                     "ok")
  /\ UNCHANGED <<open, receiving>>

ReceiveWaits(c, r) ==
  /\ result[r] = "new" /\ c \in open
  /\ stored[c] = <<>> /\ sending[c] = <<>>
  /\ receiving' = [receiving EXCEPT ![c] = Append(@, r)]
  /\ result' = Ended({r}, "waiting")
  /\ UNCHANGED <<open, stored, sending, got>>

Refuse(c, o) ==
  /\ result[o] = "new" /\ c \notin open
  /\ result' = Ended({o}, "closed")
  /\ UNCHANGED <<open, stored, sending, receiving, got>>

\* All that wait are told so, or one of them.
CancelAll(c) ==
  /\ sending' = [sending EXCEPT ![c] = <<>>]
  /\ receiving' = [receiving EXCEPT ![c] = <<>>]
  /\ result' = Ended(ToSet(sending[c]) \cup ToSet(receiving[c]), "cancelled")
  /\ UNCHANGED <<open, stored, got>>

CancelSend(c, i) ==
  /\ sending' = [sending EXCEPT ![c] = RemoveAt(@, i)]
  /\ result' = Ended({sending[c][i]}, "cancelled")
  /\ UNCHANGED <<open, stored, receiving, got>>

CancelReceive(c, i) ==
  /\ receiving' = [receiving EXCEPT ![c] = RemoveAt(@, i)]
  /\ result' = Ended({receiving[c][i]}, "cancelled")
  /\ UNCHANGED <<open, stored, sending, got>>

\* The receivers that wait are told so; what is stored is discarded.
Close(c) ==
  /\ open' = open \ {c}
  /\ stored' = [stored EXCEPT ![c] = <<>>]
  /\ receiving' = [receiving EXCEPT ![c] = <<>>]
  /\ result' = Ended(ToSet(receiving[c]), "closed")
  /\ UNCHANGED <<sending, got>>

\* A channel without waiting operations is empty and open again.
Clear(c) ==
  /\ sending[c] = <<>> /\ receiving[c] = <<>>
  /\ open' = open \cup {c}
  /\ stored' = [stored EXCEPT ![c] = <<>>]
  /\ UNCHANGED <<sending, receiving, result, got>>

\* The end of all mailboxes.
Destroy ==
  /\ LET W == UNION {ToSet(sending[c]) \cup ToSet(receiving[c]) : c \in Channels}
     IN  result' = Ended(W, "destroyed")
  /\ sending' = [c \in Channels |-> <<>>]
  /\ receiving' = [c \in Channels |-> <<>>]
  /\ UNCHANGED <<open, stored, got>>

Next ==
  /\ \/ Destroy
     \/ \E c \in Channels :
          \/ \E s \in Senders : HandOver(c, s) \/ Store(c, s) \/ SendWaits(c, s)
          \/ \E r \in Receivers : Receive(c, r) \/ ReceiveWaits(c, r)
          \/ \E o \in Senders \cup Receivers : Refuse(c, o)
          \/ CancelAll(c)
          \/ \E i \in DOMAIN sending[c] : CancelSend(c, i)
          \/ \E i \in DOMAIN receiving[c] : CancelReceive(c, i)
          \/ Close(c) \/ Clear(c)
  /\ UNCHANGED capacity

Spec == Init /\ [][Next]_vars
============================================================================
