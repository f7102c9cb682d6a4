------------------------------- MODULE Strand -------------------------------
(***************************************************************************)
(* What a strand promises: functions given to one strand never run         *)
(* concurrently, each runs once, and those that are queued start in the    *)
(* order in which they were queued.  A function that a member of the       *)
(* strand dispatches runs at once, nested in it.                           *)
(***************************************************************************)
EXTENDS Sequences, FiniteSets

CONSTANTS Threads, Strands, Funcs, NoThread

VARIABLES
  pending,  \* per strand, the functions that wait, in order
  running,  \* per strand, the functions that have started and not ended
  holder,   \* per strand, the thread that runs them
  over      \* the functions that ended or were destroyed

vars == <<pending, running, holder, over>>

Init ==
  /\ pending = [s \in Strands |-> <<>>]
  /\ running = [s \in Strands |-> {}]
  /\ holder = [s \in Strands |-> NoThread]
  /\ over = {}

Known(f) == \/ f \in over
            \/ \E s \in Strands : \/ f \in running[s]
                                  \/ \E i \in DOMAIN pending[s] : pending[s][i] = f

Queue(s, f) ==
  /\ ~Known(f)
  /\ pending' = [pending EXCEPT ![s] = Append(@, f)]
  /\ UNCHANGED <<running, holder, over>>

Start(t, s) ==
  /\ running[s] = {} /\ pending[s] # <<>>
  /\ running' = [running EXCEPT ![s] = {Head(pending[s])}]
  /\ pending' = [pending EXCEPT ![s] = Tail(@)]
  /\ holder' = [holder EXCEPT ![s] = t]
  /\ UNCHANGED over

Nest(t, s, f) ==
  /\ ~Known(f)
  /\ holder[s] = t
  /\ running' = [running EXCEPT ![s] = @ \cup {f}]
  /\ UNCHANGED <<pending, holder, over>>

End(t, s, f) ==
  /\ holder[s] = t /\ f \in running[s]
  /\ running' = [running EXCEPT ![s] = @ \ {f}]
  /\ holder' = [holder EXCEPT ![s] = IF running'[s] = {} THEN NoThread ELSE t]
  /\ over' = over \cup {f}
  /\ UNCHANGED pending

\* The end of the context: everything that waits is destroyed, as is whatever
\* is queued after it.
Shutdown ==
  /\ over' = over \cup UNION {{pending[s][i] : i \in DOMAIN pending[s]} : s \in Strands}
  /\ pending' = [s \in Strands |-> <<>>]
  /\ UNCHANGED <<running, holder>>

Refuse(f) ==
  /\ ~Known(f)
  /\ over' = over \cup {f}
  /\ UNCHANGED <<pending, running, holder>>

Next ==
  \/ \E s \in Strands, f \in Funcs : Queue(s, f)
  \/ \E t \in Threads, s \in Strands :
       Start(t, s) \/ \E f \in Funcs : Nest(t, s, f) \/ End(t, s, f)
  \/ Shutdown \/ \E f \in Funcs : Refuse(f)

Spec == Init /\ [][Next]_vars
============================================================================
