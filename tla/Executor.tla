------------------------------ MODULE Executor ------------------------------
(***************************************************************************)
(* What an io_context promises about the handlers given to it, with no     *)
(* queue, lock, reactor or counter: each submitted operation is run once,  *)
(* by one thread inside run(), or is destroyed unrun after the end; and    *)
(* the context stops by itself only on a decision that some thread took    *)
(* while nothing was left to do.  Scheduler implements this.               *)
(***************************************************************************)
EXTENDS FiniteSets

CONSTANTS Runners, Procs, Ops, NoOp

VARIABLES
  status,    \* of each operation
  running,   \* the operation each runner executes
  held,      \* something else counts as work (guards, an own thread)
  deciding,  \* threads that saw no work and are about to stop the context
  stopped

vars == <<status, running, held, deciding, stopped>>

TypeOK ==
  /\ status \in [Ops -> {"new", "pending", "running", "done", "destroyed"}]
  /\ running \in [Runners -> Ops \cup {NoOp}]
  /\ held \in BOOLEAN /\ stopped \in BOOLEAN
  /\ deciding \in SUBSET Procs

Init ==
  /\ status = [o \in Ops |-> "new"]
  /\ running = [t \in Runners |-> NoOp]
  /\ held \in BOOLEAN
  /\ deciding = {}
  /\ stopped = FALSE

Idle == ~held /\ \A o \in Ops : status[o] \notin {"pending", "running"}

Submit(o) ==
  /\ status[o] = "new"
  /\ status' = [status EXCEPT ![o] = "pending"]
  /\ UNCHANGED <<running, held, deciding, stopped>>

Start(t, o) ==
  /\ running[t] = NoOp
  /\ status[o] = "pending"
  /\ status' = [status EXCEPT ![o] = "running"]
  /\ running' = [running EXCEPT ![t] = o]
  /\ UNCHANGED <<held, deciding, stopped>>

\* The thread that ends the last operation decides to stop.
Finish(t) ==
  /\ running[t] # NoOp
  /\ status' = [status EXCEPT ![running[t]] = "done"]
  /\ running' = [running EXCEPT ![t] = NoOp]
  /\ deciding' = IF Idle' THEN deciding \cup {t} ELSE deciding
  /\ UNCHANGED <<held, stopped>>

Hold == /\ held' = TRUE
        /\ UNCHANGED <<status, running, deciding, stopped>>

\* The last other unit of work goes away.
Release(p) ==
  /\ held' = FALSE
  /\ deciding' = IF Idle' THEN deciding \cup {p} ELSE deciding
  /\ UNCHANGED <<status, running, stopped>>

\* A thread that comes to run an idle context.
FindIdle(p) ==
  /\ Idle
  /\ deciding' = deciding \cup {p}
  /\ UNCHANGED <<status, running, held, stopped>>

StopIdle(p) ==
  /\ p \in deciding
  /\ deciding' = deciding \ {p}
  /\ stopped' = TRUE
  /\ UNCHANGED <<status, running, held>>

\* stop() and restart() are the caller's.
StopCall == stopped' = TRUE /\ UNCHANGED <<status, running, held, deciding>>

Restart ==
  /\ \A t \in Runners : running[t] = NoOp
  /\ stopped' = FALSE
  /\ UNCHANGED <<status, running, held, deciding>>

\* The context is destroyed, with what is still pending.
Destroy(S) ==
  /\ \A t \in Runners : running[t] = NoOp
  /\ \A o \in S : status[o] = "pending"
  /\ status' = [o \in Ops |-> IF o \in S THEN "destroyed" ELSE status[o]]
  /\ UNCHANGED <<running, held, deciding, stopped>>

Next ==
  \/ \E o \in Ops : Submit(o)
  \/ \E t \in Runners : Finish(t) \/ \E o \in Ops : Start(t, o)
  \/ Hold \/ StopCall \/ Restart
  \/ \E p \in Procs : Release(p) \/ FindIdle(p) \/ StopIdle(p)
  \/ \E S \in SUBSET Ops : Destroy(S)

Spec == Init /\ [][Next]_vars
============================================================================
