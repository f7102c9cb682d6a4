------------------------------- MODULE Timers -------------------------------
(***************************************************************************)
(* What waitable timers promise.  A wait on a timer completes when the     *)
(* timer's time has come and not before, or because it was cancelled; those*)
(* of a timer that come due complete together, and those that are cancelled*)
(* one at a time, in the order in which they began.                        *)
(***************************************************************************)
EXTENDS Naturals, Sequences, SequencesExt

CONSTANTS Timer, Wait

VARIABLES
  now,      \* the time
  expiry,   \* of each timer
  waiting,  \* the waits on each timer, in order
  status    \* of each wait: new, waiting, or how it ended

vars == <<now, expiry, waiting, status>>

Init ==
  /\ now = 0 /\ expiry \in [Timer -> Nat]
  /\ waiting = [t \in Timer |-> <<>>]
  /\ status = [o \in Wait |-> "new"]

\* The waits of S end.
End(S, how) == status' = [o \in Wait |-> IF o \in S THEN how ELSE status[o]]

\* All waits on the timers of T end.
EndAll(T, how) ==
  /\ End(UNION {ToSet(waiting[t]) : t \in T}, how)
  /\ waiting' = [t \in Timer |-> IF t \in T THEN <<>> ELSE waiting[t]]

Pass == now' = now + 1 /\ UNCHANGED <<expiry, waiting, status>>

Begin(t, o) ==
  /\ status[o] = "new"
  /\ status' = [status EXCEPT ![o] = "waiting"]
  /\ waiting' = [waiting EXCEPT ![t] = Append(@, o)]
  /\ UNCHANGED <<now, expiry>>

\* Nothing waits any longer once all is shut down.
Refuse(o) ==
  /\ status[o] = "new" /\ \A s \in Timer : waiting[s] = <<>>
  /\ status' = [status EXCEPT ![o] = "destroyed"]
  /\ UNCHANGED <<now, expiry, waiting>>

\* The timers that have waits and whose time has come.
Due == {t \in Timer : waiting[t] # <<>> /\ expiry[t] <= now}

Expire(S) ==
  /\ S # {}
  /\ EndAll(S, "expired")
  /\ UNCHANGED <<now, expiry>>

CancelAll(t) ==
  /\ waiting[t] # <<>>
  /\ EndAll({t}, "aborted")
  /\ UNCHANGED <<now, expiry>>

CancelFirst(t) ==
  /\ waiting[t] # <<>>
  /\ End({Head(waiting[t])}, "aborted")
  /\ waiting' = [waiting EXCEPT ![t] = Tail(@)]
  /\ UNCHANGED <<now, expiry>>

CancelWait(t, o) ==
  /\ o \in ToSet(waiting[t])
  /\ End({o}, "aborted")
  /\ waiting' = [waiting EXCEPT ![t] = RemoveFirst(@, o)]
  /\ UNCHANGED <<now, expiry>>

Reset(t) ==
  /\ EndAll({t}, "aborted")
  /\ expiry'[t] \in Nat /\ expiry' = [expiry EXCEPT ![t] = expiry'[t]]
  /\ UNCHANGED now

\* The target takes the waits of the source, and its time; the source is as
\* if it were new.
Move(target, source) ==
  /\ End(ToSet(waiting[target]), "aborted")
  /\ waiting' = [waiting EXCEPT ![target] = waiting[source], ![source] = <<>>]
  /\ expiry' = [expiry EXCEPT ![target] = expiry[source], ![source] = 0]
  /\ UNCHANGED now

Shutdown ==
  /\ EndAll(Timer, "destroyed")
  /\ UNCHANGED <<now, expiry>>

Next ==
  \/ Pass \/ Shutdown
  \/ \E S \in SUBSET Due : Expire(S)
  \/ \E t \in Timer :
       \/ CancelAll(t) \/ CancelFirst(t) \/ Reset(t)
       \/ \E o \in Wait : Begin(t, o) \/ CancelWait(t, o)
       \/ \E s \in Timer \ {t} : Move(t, s)
  \/ \E o \in Wait : Refuse(o)

Spec == Init /\ [][Next]_vars
============================================================================
