------------------------------ MODULE MCChannel ------------------------------
(* Instances of Channel for TLC. *)
EXTENDS Channel, TLC

\* Channels, and operations of a kind, are interchangeable.
Symmetry == Permutations(Channels) \cup Permutations(Senders)
              \cup Permutations(Receivers)

\* The uses a channel is made for: rendezvous with cancellation, one place and
\* closing at any time, a buffer that is reset.
MailboxUses ==
  0 :> {"try_send_n", "cancel", "cancel_by_key", "reset", "shutdown"}
    @@ 1 :> {"try_send_n", "close"}
    @@ 2 :> {"try_send_n", "reset", "shutdown"}

\* Every call on every channel.
AllUses == 0 :> AllCalls @@ 1 :> AllCalls

\* Cancelling on channels with and without buffer, closed or not.
CancelUses == 0 :> {"close", "cancel"} @@ 1 :> {"close", "cancel"}
============================================================================
