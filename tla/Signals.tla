------------------------------ MODULE Signals ------------------------------
(***************************************************************************)
(* What signal sets promise.  A signal that is raised is in flight until it*)
(* arrives, once, at every set that watches it then: at one or more of the *)
(* waits of the set, or, if it has none, the signal is counted and the next*)
(* wait takes it, lowest signal first.                                     *)
(* Signals are lost only where there is no room for them, or nobody to     *)
(* receive them.                                                           *)
(***************************************************************************)
EXTENDS Naturals, Sequences, SequencesExt, FiniteSetsExt

CONSTANTS Group, Set, GroupOf, Signal, Wait, Capacity

VARIABLES
  groups,   \* those whose sets receive signals
  raised,   \* the number of signals so far
  flying,   \* of each signal, the number in flight
  total,    \* the number of all that are in flight
  queued,   \* of each set: the signals it watches, and how many of each wait
  waiting,  \* the waits on each set, in order
  status    \* of each wait: new, waiting, a signal, or how it ended

vars == <<groups, raised, flying, total, queued, waiting, status>>

\* How a wait is: with a signal, or without.
Got(g) == [how |-> "signal", signal |-> g]
Plain(how) == [how |-> how, signal |-> 0]

None == [g \in Signal |-> 0]

Init ==
  /\ groups = {} /\ raised = 0 /\ flying = None /\ total = 0
  /\ queued = [s \in Set |-> <<>>] /\ waiting = [s \in Set |-> <<>>]
  /\ status = [w \in Wait |-> Plain("new")]

\* The waits of S end.
End(S, how) == status' = [w \in Wait |-> IF w \in S THEN how ELSE status[w]]

\* All waits on the sets of T end.
EndAll(T, how) ==
  /\ End(UNION {ToSet(waiting[s]) : s \in T}, how)
  /\ waiting' = [s \in Set |-> IF s \in T THEN <<>> ELSE waiting[s]]

Join(g) ==
  /\ groups' = groups \cup {g}
  /\ UNCHANGED <<raised, flying, total, queued, waiting, status>>

\* Nothing is in flight.
Nothing == flying' = None /\ total' = 0

\* The waits on sets that watch something are destroyed.
Leave(g) ==
  /\ groups' = groups \ {g}
  /\ IF groups' = {} THEN Nothing ELSE UNCHANGED <<flying, total>>
  /\ EndAll({s \in Set : GroupOf[s] = g /\ queued[s] # <<>>}, Plain("destroyed"))
  /\ UNCHANGED <<raised, queued>>

\* In the child of a fork nothing is in flight.
Forget ==
  /\ Nothing
  /\ UNCHANGED <<groups, raised, queued, waiting, status>>

Raise(g) ==
  /\ raised' = raised + 1
  /\ \/ flying' = [flying EXCEPT ![g] = @ + 1] /\ total' = total + 1
     \/ (groups = {} \/ total >= Capacity) /\ UNCHANGED <<flying, total>>
  /\ UNCHANGED <<groups, queued, waiting, status>>

Watches(s, g) == g \in DOMAIN queued[s]

\* What may be left of the waits of a set: at least the first ends.  The
\* documentation says that one does, in the code all do.
Rests(q) == {SubSeq(q, n + 1, Len(q)) : n \in 1 .. Len(q)}

Arrive(g) ==
  /\ flying[g] > 0
  /\ flying' = [flying EXCEPT ![g] = @ - 1] /\ total' = total - 1
  /\ LET receivers == {s \in Set : GroupOf[s] \in groups /\ Watches(s, g)}
         Left(s) == IF s \in receivers /\ waiting[s] # <<>>
                      THEN Rests(waiting[s]) ELSE {waiting[s]}
     IN  /\ queued' = [s \in Set |->
                         IF s \in receivers /\ waiting[s] = <<>>
                           THEN [queued[s] EXCEPT ![g] = @ + 1] ELSE queued[s]]
         /\ \E left \in [Set -> UNION {Left(s) : s \in Set}] :
              /\ \A s \in Set : left[s] \in Left(s)
              /\ waiting' = left
              /\ End(UNION {ToSet(waiting[s]) \ ToSet(left[s]) : s \in Set},
                     Got(g))
  /\ UNCHANGED <<groups, raised>>

WatchMore(s, g) ==
  /\ ~Watches(s, g)
  /\ queued' = [queued EXCEPT ![s] = [h \in DOMAIN @ \cup {g} |->
                                        IF h = g THEN 0 ELSE @[h]]]
  /\ UNCHANGED <<groups, raised, flying, total, waiting, status>>

\* What was counted of the signals is discarded.
WatchOnly(s, S) ==
  /\ queued' = [queued EXCEPT ![s] = [h \in DOMAIN @ \cap S |-> @[h]]]
  /\ UNCHANGED <<groups, raised, flying, total, waiting, status>>

Counted(s) == {g \in DOMAIN queued[s] : queued[s][g] > 0}

Take(s, w) ==
  /\ status[w] = Plain("new") /\ Counted(s) # {}
  /\ LET g == Min(Counted(s))
     IN  /\ queued' = [queued EXCEPT ![s][g] = @ - 1]
         /\ status' = [status EXCEPT ![w] = Got(g)]
  /\ UNCHANGED <<groups, raised, flying, total, waiting>>

Begin(s, w) ==
  /\ status[w] = Plain("new") /\ Counted(s) = {}
  /\ status' = [status EXCEPT ![w] = Plain("waiting")]
  /\ waiting' = [waiting EXCEPT ![s] = Append(@, w)]
  /\ UNCHANGED <<groups, raised, flying, total, queued>>

\* All waits of a set, or one of them.
CancelAll(s) ==
  /\ \E how \in {"aborted", "destroyed"} : EndAll({s}, Plain(how))
  /\ UNCHANGED <<groups, raised, flying, total, queued>>

CancelOne(s, i) ==
  /\ End({waiting[s][i]}, Plain("aborted"))
  /\ waiting' = [waiting EXCEPT ![s] = RemoveAt(@, i)]
  /\ UNCHANGED <<groups, raised, flying, total, queued>>

Next ==
  \/ Forget
  \/ \E g \in Group : Join(g) \/ Leave(g)
  \/ \E g \in Signal : Raise(g) \/ Arrive(g)
  \/ \E s \in Set :
       \/ \E g \in Signal : WatchMore(s, g) \/ WatchOnly(s, Signal \ {g})
       \/ WatchOnly(s, {}) \/ CancelAll(s)
       \/ \E w \in Wait : Take(s, w) \/ Begin(s, w)
       \/ \E i \in DOMAIN waiting[s] : CancelOne(s, i)

Spec == Init /\ [][Next]_vars
============================================================================
