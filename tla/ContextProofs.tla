--------------------------- MODULE ContextProofs ---------------------------
(***************************************************************************)
(* That an execution context makes each service once, ends its services in *)
(* the order of their needs and leaves no operation behind, and that it is *)
(* one Executor: for any threads, services, needs, operations and programs.*)
(*                                                                         *)
(* The invariant has four parts.  Control says where a thread may be while *)
(* the owner is in a call: nobody is in the context once its services end. *)
(* Services says what the registry and the constructors under way owe each *)
(* other.  Work says that an operation is in one place and that the count  *)
(* is that of the operations under way.  Rest says that a pool that stops  *)
(* by itself has done what it was given before it was joined, and what the *)
(* handlers of that began.                                                 *)
(***************************************************************************)
EXTENDS Context, FiniteSetTheorems, TLAPS

USE DEF progVars

OwnerPlaces ==
  {"out", "join", "stop", "release", "fork", "shutdown", "joinWorker", "gone"}
RunnerPlaces == {"out", "enter", "loop", "stop", "handler"}
Statuses == {"new", "queued", "lookup", "ready", "running", "done", "destroyed"}
Frames == [key : Keys, todo : SUBSET Keys]

TypeOK ==
  /\ program \in Programs
  /\ registry \in Seq(Keys) /\ ended \in SUBSET Keys
  /\ building \in [Runners -> Seq(Frames)]
  /\ count \in Int /\ workCount \in Int
  /\ stopped \in BOOLEAN /\ stopCalled \in BOOLEAN /\ unit \in BOOLEAN
  /\ workStopped \in BOOLEAN /\ ending \in BOOLEAN /\ forked \in BOOLEAN
  /\ threads \in SUBSET program.threads
  /\ pc \in [Procs -> OwnerPlaces \cup RunnerPlaces]
  /\ pc[Owner] \in OwnerPlaces /\ \A t \in Runners : pc[t] \in RunnerPlaces
  /\ running \in [Runners -> Ops \cup {NoOp}]
  /\ status \in [Ops -> Statuses] /\ promised \in SUBSET Ops
  /\ worker \in {"none", "enter", "loop", "lookup", "exited"}
  /\ lookingUp \in Ops \cup {NoOp}

\* The services are ending, or gone.
Late == pc[Owner] \in {"shutdown", "joinWorker", "gone"}

\* Who may be where.  A service is made by a handler, or by a thread of the
\* program while the owner is in no call that forbids it.
Control ==
  /\ \A t \in Runners : building[t] # <<>> =>
       \/ pc[t] = "handler"
       \/ /\ t \in program.users /\ pc[t] = "out"
          /\ pc[Owner] \in {"out", "join", "stop"} /\ ~ending
  /\ \A t \in PoolThreads \ threads : pc[t] = "out"
  /\ \A t \in program.threads : pc[t] = "out" => stopped
  /\ ending => \A t \in Users : pc[t] = "out"
  /\ ending => pc[Owner] \notin {"out", "fork"}
  /\ ending /\ program.pool => stopCalled
  /\ pc[Owner] = "fork" => \A t \in Users : pc[t] = "out"
  /\ pc[Owner] = "fork" => threads = {}
  /\ pc[Owner] = "release" => ending /\ threads # {}
  /\ Late => ending /\ threads = {}
  /\ unit => program.pool
  /\ threads # {} /\ pc[Owner] \notin {"join", "stop"} => unit

\* The services that a constructor has been given are in the registry, but for
\* the one that is being made for it.
Given ==
  \A t \in Runners : \A i \in 1 .. Len(building[t]) :
    LET fr == building[t][i]
    IN  /\ fr.todo \subseteq Needs[fr.key]
        /\ \A k \in Needs[fr.key] \ fr.todo :
             Has(k) \/ (i > 1 /\ building[t][i - 1].key = k)

InOrder ==
  \A i \in 1 .. Len(registry) :
    /\ \A j \in 1 .. Len(registry) : registry[j] = registry[i] => j = i
    /\ \A k \in Needs[registry[i]] :
         \E j \in 1 .. Len(registry) : j > i /\ registry[j] = k

\* The scheduler is the oldest service, and the last to be destroyed.
SchedulerLast ==
  IF pc[Owner] = "gone"
    THEN registry = <<>>
    ELSE registry # <<>> /\ registry[Len(registry)] = "scheduler"

Working(k) == k \in ToSet(registry) \ ended

Ending ==
  /\ ended # {} => Late
  /\ \A k \in Keys : Working(k) => Needs[k] \cap ended = {}
  /\ pc[Owner] = "joinWorker" => Working("resolver") /\ IsNext("resolver")
  /\ worker # "none" => Working("resolver")
  /\ \A o \in Ops : status[o] \in {"queued", "lookup"} => Working("resolver")

Services == Given /\ InOrder /\ SchedulerLast /\ Ending

\* The operations that are under way.
Active == {o \in Ops : status[o] \in {"queued", "lookup", "ready", "running"}}

Work ==
  /\ \A t \in Runners : pc[t] = "handler" <=> running[t] # NoOp
  /\ \A t, u \in Runners : running[t] # NoOp /\ running[t] = running[u] => t = u
  /\ \A o \in Ops : status[o] = "running" <=> \E t \in Runners : running[t] = o
  /\ \A o \in Ops : status[o] = "lookup" <=> worker = "lookup" /\ lookingUp = o
  /\ worker = "lookup" => lookingUp # NoOp
  /\ \A o \in promised : status[o] # "new"
  /\ \A o \in Ops : status[o] = "destroyed" => Late
  /\ pc[Owner] = "gone" => \A o \in Ops : status[o] # "ready"

Counts ==
  /\ IsFiniteSet(Active)
  /\ ~Late => count = Cardinality(Active) + (IF unit THEN 1 ELSE 0)

Quiet == ~unit /\ Active = {}

\* What was promised is done; others may still submit, but nothing is promised
\* any more.
Settled == ~unit /\ \A o \in promised : status[o] = "done"

Rest ==
  program.pool =>
    /\ \A p \in Procs : pc[p] = "stop" => Settled
    /\ stopped /\ ~stopCalled => Settled

Inv == TypeOK /\ Control /\ Services /\ Work /\ Counts /\ Rest

----------------------------------------------------------------------------
(* Types: where each thread may be, and what the variables hold *)

LEMMA NextType == Inv /\ [Next]_vars => TypeOK'
<1> SUFFICES ASSUME Inv, [Next]_vars PROVE TypeOK'
  OBVIOUS
<1> USE ContextAssumption DEF ContextAssumption, TypeOK, Procs, Runners, Ops,
      OwnerPlaces, RunnerPlaces, Statuses
<1>1. ASSUME NEW t \in Runners, Enter(t) PROVE TypeOK'
  BY <1>1 DEF Enter, Goto, lifeVars, registryVars, mainVars, workVars, Inv
<1>2. ASSUME NEW t \in Runners, Finish(t) PROVE TypeOK'
  <2>1. /\ count' = count - 1 /\ running' = [running EXCEPT ![t] = NoOp]
        /\ \E next \in {"stop", "loop"} : pc' = [pc EXCEPT ![t] = next]
        /\ UNCHANGED <<progVars, registryVars, stopped, unit, threads,
             stopCalled, workVars, lifeVars>>
    BY <1>2 DEF Finish, Goto
  <2>2. status' \in [Ops -> Statuses]
    BY <1>2 DEF Finish, Inv
  <2>3. QED
    BY <2>1, <2>2 DEF lifeVars, registryVars, workVars, Inv
<1>3. ASSUME NEW t \in Runners, Leave(t) PROVE TypeOK'
  BY <1>3 DEF Leave, Goto, lifeVars, registryVars, mainVars, workVars, Inv
<1>4. ASSUME NEW t \in Runners, Insert(t) PROVE TypeOK'
  <2>1. building[t] \in Seq(Frames) /\ building[t] # <<>>
    BY <1>4 DEF Insert, Inv
  <2> DEFINE k == Head(building[t]).key
  <2>2. Tail(building[t]) \in Seq(Frames) /\ Head(building[t]) \in Frames
    BY <2>1
  <2>7. k \in Keys
    BY <2>2 DEF Frames
  <2>3. building' \in [Runners -> Seq(Frames)]
    BY <1>4, <2>2 DEF Insert, Inv
  <2>4. /\ registry' = registry \/ registry' = <<k>> \o registry
        /\ workCount' = workCount \/ workCount' = 1
        /\ UNCHANGED <<progVars, ended, mainVars, runVars, status, worker,
             lookingUp, workStopped, lifeVars>>
    BY <1>4 DEF Insert
  <2> HIDE DEF k
  <2>8. <<k>> \in Seq(Keys) /\ registry \in Seq(Keys)
    BY <2>7 DEF Inv
  <2>9. <<k>> \o registry \in Seq(Keys)
    BY <2>8
  <2>5. registry' \in Seq(Keys)
    BY <2>4, <2>8, <2>9, Zenon
  <2>6. QED
    BY <2>3, <2>4, <2>5 DEF mainVars, runVars, lifeVars, Inv
<1>5. ASSUME NEW t \in Runners, Run(t) PROVE TypeOK'
  BY <1>5 DEF Run, Goto, Makes, lifeVars, registryVars, mainVars, workVars, Inv
<1>6. ASSUME NEW t \in Runners, NEW o \in Ops, Start(t, o) PROVE TypeOK'
  BY <1>6 DEF Start, Goto, Makes, lifeVars, registryVars, mainVars, runVars,
       workVars, Inv
<1>7. ASSUME NEW t \in Runners, NEW o \in Ops, Post(t, o) PROVE TypeOK'
  BY <1>7
     DEF Post, Submits, CanCall,
         lifeVars, registryVars, runVars, workVars, Inv
<1>8. ASSUME NEW t \in Runners, NEW o \in Ops, Resolve(t, o) PROVE TypeOK'
  BY <1>8 DEF Resolve, Submits, CanCall, LookupUnit, lifeVars, registryVars,
       runVars, Inv
<1>9. ASSUME NEW t \in Runners, NEW k \in Keys, UseService(t, k) PROVE TypeOK'
  <2>1. Needs[k] \subseteq Keys /\ [key |-> k, todo |-> Needs[k]] \in Frames
    BY DEF Frames
  <2>2. \/ building' = building
        \/ building' = [building EXCEPT
                          ![t] = <<[key |-> k, todo |-> Needs[k]]>> \o <<>>]
    BY <1>9 DEF UseService, Ask
  <2>3. <<[key |-> k, todo |-> Needs[k]]>> \o <<>> \in Seq(Frames)
    BY <2>1
  <2>4. building' \in [Runners -> Seq(Frames)]
    BY <2>2, <2>3 DEF Inv
  <2>5. QED
    BY <1>9, <2>4 DEF UseService, mainVars, runVars, workVars, lifeVars, Inv
<1>10. ASSUME NEW t \in Runners, NEW k \in Keys, UseServiceNested(t, k)
       PROVE TypeOK'
  <2>1. building[t] \in Seq(Frames) /\ building[t] # <<>>
    BY <1>10 DEF UseServiceNested, Inv
  <2>2. Tail(building[t]) \in Seq(Frames) /\ Head(building[t]) \in Frames
    BY <2>1
  <2> DEFINE rest == [Head(building[t]) EXCEPT !.todo = @ \ {k}]
             new == [key |-> k, todo |-> Needs[k]]
  <2>3. rest \in Frames /\ new \in Frames
    <3>1. \A fr \in Frames : [fr EXCEPT !.todo = @ \ {k}] \in Frames
      BY DEF Frames
    <3>2. QED
      BY <2>2, <3>1 DEF Frames
  <2> DEFINE outer == <<rest>> \o Tail(building[t])
  <2>4. building' = [building EXCEPT ![t] = outer] \/
          building' = [building EXCEPT ![t] = <<new>> \o outer]
    BY <1>10, Zenon DEF UseServiceNested, Ask
  <2> HIDE DEF rest, new
  <2>5. outer \in Seq(Frames)
    BY <2>2, <2>3
  <2> HIDE DEF outer
  <2>6. <<new>> \o outer \in Seq(Frames)
    BY <2>3, <2>5
  <2>7. building' \in [Runners -> Seq(Frames)]
    <3>1. building \in [Runners -> Seq(Frames)]
      BY DEF Inv
    <3>2. QED
      BY <2>4, <2>5, <2>6, <3>1
  <2>8. QED
    BY <1>10, <2>7
       DEF UseServiceNested, mainVars, runVars, workVars, lifeVars, Inv
<1>11. ASSUME NEW p \in Procs, StopIdle(p) PROVE TypeOK'
  BY <1>11 DEF StopIdle, Goto, Makes, lifeVars, registryVars, mainVars,
       runVars, workVars, Inv
<1>12. ASSUME WorkerEnter PROVE TypeOK'
  BY <1>12 DEF WorkerEnter, lifeVars, registryVars, mainVars, runVars, Inv
<1>13. ASSUME WorkerHandBack PROVE TypeOK'
  <2>1. status' \in [Ops -> Statuses]
    BY <1>13 DEF WorkerHandBack, Inv
  <2>2. QED
    BY <1>13, <2>1
       DEF WorkerHandBack, lifeVars, registryVars, mainVars, runVars, Inv
<1>14. ASSUME WorkerLeave PROVE TypeOK'
  BY <1>14 DEF WorkerLeave, lifeVars, registryVars, mainVars, runVars, Inv
<1>15. ASSUME NEW o \in Ops, WorkerTake(o) PROVE TypeOK'
  BY <1>15 DEF WorkerTake, lifeVars, registryVars, mainVars, runVars, Inv
<1>16. ASSUME DestroyJoins PROVE TypeOK'
  <2>1. count' = count - 1 /\ count' \in Int /\ unit' = FALSE
    BY <1>16 DEF DestroyJoins, ReleaseAndJoin, GiveUnit, Inv
  <2>2. pc' = [pc EXCEPT ![Owner] = "stop"] \/
          pc' = [pc EXCEPT ![Owner] = "join"]
    BY <1>16 DEF DestroyJoins, ReleaseAndJoin, Goto
  <2>3. UNCHANGED <<progVars, registryVars, stopped, stopCalled, threads,
          running, status, workVars, lifeVars>>
    BY <1>16 DEF DestroyJoins, ReleaseAndJoin
  <2>4. /\ pc' \in [Procs -> OwnerPlaces \cup RunnerPlaces]
        /\ pc'[Owner] \in OwnerPlaces
    BY <2>2 DEF Inv
  <2>5. \A t \in Runners : pc'[t] = pc[t]
    BY <2>2 DEF Inv
  <2>6. QED
    BY <2>1, <2>3, <2>4, <2>5 DEF lifeVars, registryVars, workVars, Inv
<1>17. ASSUME Joined PROVE TypeOK'
  BY <1>17 DEF Joined, Goto, lifeVars, registryVars, workVars, Inv
<1>18. ASSUME ForkDone PROVE TypeOK'
  BY <1>18 DEF ForkDone, WorkerGone, Goto, lifeVars, registryVars, mainVars, Inv
<1>19. ASSUME EndResolver PROVE TypeOK'
  BY <1>19 DEF EndResolver, Unended, Goto, lifeVars, registryVars, mainVars, Inv
<1>20. ASSUME EndResolverJoined PROVE TypeOK'
  BY <1>20
     DEF EndResolverJoined, DestroyAll, WorkerGone, Goto,
         lifeVars, mainVars, Inv
<1>21. ASSUME DestroyService PROVE TypeOK'
  <2>1. registry # <<>>
    BY <1>21 DEF DestroyService, Inv, Services, SchedulerLast
  <2>2. registry' \in Seq(Keys)
    BY <1>21, <2>1 DEF DestroyService, Inv
  <2>3. /\ \E next \in {"gone", "shutdown"} : pc' = [pc EXCEPT ![Owner] = next]
        /\ status' = status \/ DestroyAll("ready")
    BY <1>21 DEF DestroyService, Goto
  <2>4. status' \in [Ops -> Statuses]
    BY <2>3 DEF DestroyAll, Inv
  <2>5. QED
    BY <1>21, <2>2, <2>3, <2>4
       DEF DestroyService, mainVars, workVars, lifeVars, Inv
<1>22. ASSUME NEW k \in Keys, EndService(k) PROVE TypeOK'
  BY <1>22 DEF EndService, Unended, DestroyAll, lifeVars, mainVars, runVars,
       workVars, Inv
<1>23. ASSUME Stop PROVE TypeOK'
  BY <1>23
     DEF Stop, OwnerFree, Makes, lifeVars, registryVars, runVars, workVars, Inv
<1>24. ASSUME Join PROVE TypeOK'
  <2>1. count' = count - 1 /\ count' \in Int /\ unit' = FALSE
    BY <1>24 DEF Join, ReleaseAndJoin, GiveUnit, Inv
  <2>2. pc' = [pc EXCEPT ![Owner] = "stop"] \/
          pc' = [pc EXCEPT ![Owner] = "join"]
    BY <1>24 DEF Join, ReleaseAndJoin, Goto
  <2>3. UNCHANGED <<progVars, registryVars, stopped, stopCalled, threads,
          running, status, workVars, lifeVars>>
    BY <1>24 DEF Join, ReleaseAndJoin
  <2>4. /\ pc' \in [Procs -> OwnerPlaces \cup RunnerPlaces]
        /\ pc'[Owner] \in OwnerPlaces
    BY <2>2 DEF Inv
  <2>5. \A t \in Runners : pc'[t] = pc[t]
    BY <2>2 DEF Inv
  <2>6. QED
    BY <2>1, <2>3, <2>4, <2>5 DEF lifeVars, registryVars, workVars, Inv
<1>25. ASSUME Wait PROVE TypeOK'
  <2>1. count' = count - 1 /\ count' \in Int /\ unit' = FALSE
    BY <1>25 DEF Wait, ReleaseAndJoin, GiveUnit, Inv
  <2>2. pc' = [pc EXCEPT ![Owner] = "stop"] \/
          pc' = [pc EXCEPT ![Owner] = "join"]
    BY <1>25 DEF Wait, ReleaseAndJoin, Goto
  <2>3. UNCHANGED <<progVars, registryVars, stopped, stopCalled, threads,
          running, status, workVars, lifeVars>>
    BY <1>25 DEF Wait, ReleaseAndJoin
  <2>4. /\ pc' \in [Procs -> OwnerPlaces \cup RunnerPlaces]
        /\ pc'[Owner] \in OwnerPlaces
    BY <2>2 DEF Inv
  <2>5. \A t \in Runners : pc'[t] = pc[t]
    BY <2>2 DEF Inv
  <2>6. QED
    BY <2>1, <2>3, <2>4, <2>5 DEF lifeVars, registryVars, workVars, Inv
<1>26. ASSUME Destroy PROVE TypeOK'
  BY <1>26 DEF Destroy, OwnerFree, UsersOut, Goto, Makes, lifeVars,
       registryVars, mainVars, runVars, workVars, Inv
<1>27. ASSUME ForkPrepare PROVE TypeOK'
  BY <1>27 DEF ForkPrepare, OwnerFree, UsersOut, Goto, Makes, registryVars,
       mainVars, Inv
<1>28. CASE UNCHANGED vars
  BY <1>28 DEF vars, Goto, Makes, lifeVars, registryVars, mainVars, runVars,
       workVars, Inv
<1>29. QED
  BY <1>1, <1>2, <1>3, <1>4, <1>5, <1>6, <1>7, <1>8, <1>9, <1>10, <1>11,
       <1>12, <1>13, <1>14, <1>15, <1>16, <1>17, <1>18, <1>19, <1>20, <1>21,
       <1>22, <1>23, <1>24, <1>25, <1>26, <1>27, <1>28 DEF Next, ThreadStep,
       WorkerStep, OwnerStep

\* Nobody enters the context once the owner has begun to end its services.
LEMMA NextControl == Inv /\ [Next]_vars => Control'
<1> SUFFICES ASSUME Inv, [Next]_vars PROVE Control'
  OBVIOUS
<1> USE ContextAssumption DEF ContextAssumption, TypeOK, Control, Late, Procs,
      Runners
<1>1. ASSUME NEW t \in Runners, Enter(t) PROVE Control'
  BY <1>1 DEF Enter, Goto, lifeVars, registryVars, mainVars, workVars, Inv
<1>2. ASSUME NEW t \in Runners, Finish(t) PROVE Control'
  BY <1>2 DEF Finish, NoneLeft, Goto, Makes, lifeVars, registryVars, mainVars,
       runVars, workVars, Inv, OwnerPlaces
<1>3. ASSUME NEW t \in Runners, Leave(t) PROVE Control'
  BY <1>3 DEF Leave, Goto, lifeVars, registryVars, mainVars, workVars, Inv
<1>4. ASSUME NEW t \in Runners, Insert(t) PROVE Control'
  BY <1>4 DEF Insert, IsNew, lifeVars, mainVars, runVars, Inv
<1>5. ASSUME NEW t \in Runners, Run(t) PROVE Control'
  BY <1>5 DEF Run, Goto, Makes, lifeVars, registryVars, mainVars, workVars, Inv
<1>6. ASSUME NEW t \in Runners, NEW o \in Ops, Start(t, o) PROVE Control'
  BY <1>6 DEF Start, Goto, Makes, lifeVars, registryVars, mainVars, runVars,
       workVars, Inv, OwnerPlaces
<1>7. ASSUME NEW t \in Runners, NEW o \in Ops, Post(t, o) PROVE Control'
  BY <1>7
     DEF Post, Submits, CanCall,
         lifeVars, registryVars, runVars, workVars, Inv
<1>8. ASSUME NEW t \in Runners, NEW o \in Ops, Resolve(t, o) PROVE Control'
  BY <1>8 DEF Resolve, Submits, CanCall, LookupUnit, lifeVars, registryVars,
       runVars, Inv
<1>9. ASSUME NEW t \in Runners, NEW k \in Keys, UseService(t, k) PROVE Control'
  BY <1>9
     DEF UseService, Ask, CanCall, lifeVars, mainVars, runVars, workVars, Inv
<1>10. ASSUME NEW t \in Runners, NEW k \in Keys, UseServiceNested(t, k)
       PROVE Control'
  BY <1>10 DEF UseServiceNested, Ask, lifeVars, mainVars, runVars, workVars, Inv
<1>11. ASSUME NEW p \in Procs, StopIdle(p) PROVE Control'
  BY <1>11 DEF StopIdle, Goto, Makes, lifeVars, registryVars, mainVars,
       runVars, workVars, Inv, OwnerPlaces
<1>12. ASSUME WorkerEnter PROVE Control'
  BY <1>12 DEF WorkerEnter, lifeVars, registryVars, mainVars, runVars, Inv
<1>13. ASSUME WorkerHandBack PROVE Control'
  BY <1>13 DEF WorkerHandBack, lifeVars, registryVars, mainVars, runVars, Inv
<1>14. ASSUME WorkerLeave PROVE Control'
  BY <1>14 DEF WorkerLeave, lifeVars, registryVars, mainVars, runVars, Inv
<1>15. ASSUME NEW o \in Ops, WorkerTake(o) PROVE Control'
  BY <1>15 DEF WorkerTake, lifeVars, registryVars, mainVars, runVars, Inv
<1>16. ASSUME DestroyJoins PROVE Control'
  BY <1>16 DEF DestroyJoins, ReleaseAndJoin, GiveUnit, NoneLeft, Goto,
       lifeVars, registryVars, workVars, Inv
<1>17. ASSUME Joined PROVE Control'
  BY <1>17 DEF Joined, Goto, lifeVars, registryVars, workVars, Inv
<1>18. ASSUME ForkDone PROVE Control'
  BY <1>18 DEF ForkDone, WorkerGone, Goto, lifeVars, registryVars, mainVars, Inv
<1>19. ASSUME EndResolver PROVE Control'
  BY <1>19 DEF EndResolver, Unended, Goto, lifeVars, registryVars, mainVars, Inv
<1>20. ASSUME EndResolverJoined PROVE Control'
  BY <1>20
     DEF EndResolverJoined, DestroyAll, WorkerGone, Goto,
         lifeVars, mainVars, Inv
<1>21. ASSUME DestroyService PROVE Control'
  BY <1>21
     DEF DestroyService, DestroyAll, Goto, lifeVars, mainVars, workVars, Inv
<1>22. ASSUME NEW k \in Keys, EndService(k) PROVE Control'
  BY <1>22 DEF EndService, Unended, DestroyAll, lifeVars, mainVars, runVars,
       workVars, Inv
<1>23. ASSUME Stop PROVE Control'
  BY <1>23
     DEF Stop, OwnerFree, Makes, lifeVars, registryVars, runVars, workVars, Inv
<1>24. ASSUME Join PROVE Control'
  BY <1>24 DEF Join, ReleaseAndJoin, GiveUnit, NoneLeft, OwnerFree, Goto,
       Makes, lifeVars, registryVars, workVars, Inv
<1>25. ASSUME Wait PROVE Control'
  BY <1>25 DEF Wait, ReleaseAndJoin, GiveUnit, NoneLeft, OwnerFree, Goto,
       Makes, lifeVars, registryVars, workVars, Inv
<1>26. ASSUME Destroy PROVE Control'
  BY <1>26 DEF Destroy, OwnerFree, UsersOut, Goto, Makes, lifeVars,
       registryVars, mainVars, runVars, workVars, Inv, OwnerPlaces
<1>27. ASSUME ForkPrepare PROVE Control'
  BY <1>27 DEF ForkPrepare, OwnerFree, UsersOut, Goto, Makes, registryVars,
       mainVars, Inv
<1>28. CASE UNCHANGED vars
  BY <1>28 DEF vars, Goto, Makes, lifeVars, registryVars, mainVars, runVars,
       workVars, Inv, OwnerPlaces
<1>29. QED
  BY <1>1, <1>2, <1>3, <1>4, <1>5, <1>6, <1>7, <1>8, <1>9, <1>10, <1>11,
       <1>12, <1>13, <1>14, <1>15, <1>16, <1>17, <1>18, <1>19, <1>20, <1>21,
       <1>22, <1>23, <1>24, <1>25, <1>26, <1>27, <1>28 DEF Next, ThreadStep,
       WorkerStep, OwnerStep

\* An operation is with one thread, or in a queue, or with the resolver's.
LEMMA NextWork == Inv /\ [Next]_vars => Work'
<1> SUFFICES ASSUME Inv, [Next]_vars PROVE Work'
  OBVIOUS
<1> USE ContextAssumption DEF ContextAssumption, TypeOK, Procs, Runners, Ops,
      Late, Work
<1>1. ASSUME NEW t \in Runners, Enter(t) PROVE Work'
  BY <1>1 DEF Enter, Goto, lifeVars, registryVars, mainVars, workVars, Inv
<1>2. ASSUME NEW t \in Runners, Finish(t) PROVE Work'
  <2>1. /\ running[t] \in Ops /\ status[running[t]] = "running"
        /\ pc[t] = "handler"
        /\ \A u \in Runners : u # t => running[u] # running[t]
    BY <1>2 DEF Finish, Inv
  <2>2. /\ status' = [status EXCEPT ![running[t]] = "done"]
        /\ running' = [running EXCEPT ![t] = NoOp]
        /\ \E next \in {"stop", "loop"} : pc' = [pc EXCEPT ![t] = next]
        /\ UNCHANGED <<promised, worker, lookingUp>>
    BY <1>2 DEF Finish, Goto, workVars
  <2>3. pc'[Owner] = pc[Owner]
    BY <2>2
  <2>4. \A o \in Ops : status'[o] = IF o = running[t] THEN "done" ELSE status[o]
    BY <2>1, <2>2 DEF Inv
  <2>5. \A u \in Runners : running'[u] = IF u = t THEN NoOp ELSE running[u]
    BY <2>2 DEF Inv
  <2>7. \A u \in Runners : pc'[u] = "handler" <=> (u # t /\ pc[u] = "handler")
    BY <2>2 DEF Inv
  <2>6. QED
    BY <2>1, <2>2, <2>3, <2>4, <2>5, <2>7 DEF Inv
<1>3. ASSUME NEW t \in Runners, Leave(t) PROVE Work'
  BY <1>3 DEF Leave, Goto, lifeVars, registryVars, mainVars, workVars, Inv
<1>4. ASSUME NEW t \in Runners, Insert(t) PROVE Work'
  BY <1>4 DEF Insert, IsNew, lifeVars, mainVars, runVars, Inv
<1>5. ASSUME NEW t \in Runners, Run(t) PROVE Work'
  BY <1>5 DEF Run, Goto, Makes, lifeVars, registryVars, mainVars, workVars, Inv
<1>6. ASSUME NEW t \in Runners, NEW o \in Ops, Start(t, o) PROVE Work'
  BY <1>6 DEF Start, Goto, Makes, lifeVars, registryVars, mainVars, runVars,
       workVars, Inv, OwnerPlaces, RunnerPlaces, Statuses
<1>7. ASSUME NEW t \in Runners, NEW o \in Ops, Post(t, o) PROVE Work'
  BY <1>7 DEF Post, Submits, CanCall, lifeVars, registryVars, runVars,
       workVars, Inv, Control
<1>8. ASSUME NEW t \in Runners, NEW o \in Ops, Resolve(t, o) PROVE Work'
  BY <1>8 DEF Resolve, Submits, CanCall, LookupUnit, lifeVars, registryVars,
       runVars, Inv
<1>9. ASSUME NEW t \in Runners, NEW k \in Keys, UseService(t, k) PROVE Work'
  BY <1>9
     DEF UseService, Ask, CanCall, lifeVars, mainVars, runVars, workVars, Inv
<1>10. ASSUME NEW t \in Runners, NEW k \in Keys, UseServiceNested(t, k)
       PROVE Work'
  BY <1>10 DEF UseServiceNested, Ask, lifeVars, mainVars, runVars, workVars, Inv
<1>11. ASSUME NEW p \in Procs, StopIdle(p) PROVE Work'
  BY <1>11 DEF StopIdle, Goto, Makes, lifeVars, registryVars, mainVars,
       runVars, workVars, Inv, OwnerPlaces, RunnerPlaces, Statuses
<1>12. ASSUME WorkerEnter PROVE Work'
  BY <1>12 DEF WorkerEnter, lifeVars, registryVars, mainVars, runVars, Inv
<1>13. ASSUME WorkerHandBack PROVE Work'
  <2>1. /\ lookingUp \in Ops /\ status[lookingUp] = "lookup"
        /\ ~(pc[Owner] = "gone")
    <3>1. lookingUp \in Ops /\ status[lookingUp] = "lookup"
      BY <1>13 DEF WorkerHandBack, Inv
    <3>2. Working("resolver")
      BY <3>1 DEF Inv, Services, Ending
    <3>3. registry # <<>>
      BY <3>2 DEF Working, ToSet
    <3>4. QED
      BY <3>1, <3>3 DEF Inv, Services, SchedulerLast
  <2>2. \A o \in Ops : status'[o] = IF o = lookingUp THEN "ready" ELSE status[o]
    BY <1>13, <2>1 DEF WorkerHandBack, Inv
  <2>3. /\ worker' = "loop" /\ lookingUp' = NoOp
        /\ UNCHANGED <<promised, pc, running>>
    BY <1>13 DEF WorkerHandBack, runVars
  <2>4. \A o \in Ops : status'[o] # "lookup"
    BY <1>13, <2>2 DEF WorkerHandBack, Inv
  <2>5. \A o \in Ops : status'[o] = "running" <=> status[o] = "running"
    BY <2>1, <2>2
  <2>6. (\A o \in Ops : status'[o] = "destroyed" =>
          status[o] = "destroyed") /\ pc'[Owner] # "gone"
    BY <2>1, <2>2, <2>3
  <2>7. \A o \in promised : status'[o] # "new"
    BY <2>2 DEF Inv
  <2>8. QED
    BY <2>3, <2>4, <2>5, <2>6, <2>7 DEF Inv
<1>14. ASSUME WorkerLeave PROVE Work'
  BY <1>14 DEF WorkerLeave, lifeVars, registryVars, mainVars, runVars, Inv
<1>15. ASSUME NEW o \in Ops, WorkerTake(o) PROVE Work'
  BY <1>15 DEF WorkerTake, lifeVars, registryVars, mainVars, runVars, Inv
<1>16. ASSUME DestroyJoins PROVE Work'
  BY <1>16 DEF DestroyJoins, ReleaseAndJoin, GiveUnit, NoneLeft, Goto,
       lifeVars, registryVars, workVars, Inv
<1>17. ASSUME Joined PROVE Work'
  BY <1>17 DEF Joined, Goto, lifeVars, registryVars, workVars, Inv
<1>18. ASSUME ForkDone PROVE Work'
  BY <1>18 DEF ForkDone, WorkerGone, Goto, lifeVars, registryVars, mainVars, Inv
<1>19. ASSUME EndResolver PROVE Work'
  BY <1>19 DEF EndResolver, Unended, Goto, lifeVars, registryVars, mainVars, Inv
<1>20. ASSUME EndResolverJoined PROVE Work'
  BY <1>20
     DEF EndResolverJoined, DestroyAll, WorkerGone, Goto,
         lifeVars, mainVars, Inv
<1>21. ASSUME DestroyService PROVE Work'
  <2>1. /\ pc[Owner] = "shutdown" /\ registry # <<>>
        /\ registry[Len(registry)] = "scheduler"
        /\ registry' = Tail(registry)
        /\ IF Head(registry) = "scheduler"
               THEN DestroyAll("ready") ELSE UNCHANGED status
        /\ pc' = [pc EXCEPT ![Owner] =
                    IF registry' = <<>> THEN "gone" ELSE "shutdown"]
        /\ UNCHANGED <<promised, running, worker, lookingUp>>
    BY <1>21 DEF DestroyService, Goto, workVars, Inv, Services, SchedulerLast
  <2>2. registry' = <<>> => Head(registry) = "scheduler"
    <3>1. Len(Tail(registry)) = Len(registry) - 1 /\ Len(registry) \in Nat
      BY <2>1
    <3>2. registry' = <<>> => Len(registry) = 1
      <4>1. HAVE registry' = <<>>
      <4>2. registry' = Tail(registry) /\ Len(<<>>) = 0
        BY <2>1
      <4>3. Len(Tail(registry)) = 0
        BY <4>1, <4>2, Zenon
      <4>4. QED
        BY <3>1, <4>3
    <3>3. QED
      BY <2>1, <3>2
  <2>3. pc'[Owner] \in {"gone", "shutdown"} /\ \A t \in Runners : pc'[t] = pc[t]
    BY <2>1
  <2>4. /\ \A o \in Ops : status'[o] = IF Head(registry) = "scheduler" /\
             status[o] = "ready"
                                        THEN "destroyed" ELSE status[o]
        /\ pc'[Owner] = "gone" => registry' = <<>>
    BY <2>1 DEF DestroyAll
  <2>5. \A o \in Ops : /\ status'[o] = "running" <=> status[o] = "running"
                       /\ status'[o] = "lookup" <=> status[o] = "lookup"
                       /\ pc'[Owner] = "gone" => status'[o] # "ready"
    BY <2>2, <2>4
  <2>6. UNCHANGED <<promised, running, worker, lookingUp>>
    BY <2>1
  <2>7. \A o \in promised : status'[o] # "new"
    BY <2>4 DEF Inv
  <2>8. QED
    BY <2>3, <2>5, <2>6, <2>7 DEF Inv
<1>22. ASSUME NEW k \in Keys, EndService(k) PROVE Work'
  BY <1>22 DEF EndService, Unended, DestroyAll, lifeVars, mainVars, runVars,
       workVars, Inv
<1>23. ASSUME Stop PROVE Work'
  BY <1>23
     DEF Stop, OwnerFree, Makes, lifeVars, registryVars, runVars, workVars, Inv
<1>24. ASSUME Join PROVE Work'
  BY <1>24 DEF Join, ReleaseAndJoin, GiveUnit, NoneLeft, OwnerFree, Goto,
       Makes, lifeVars, registryVars, workVars, Inv
<1>25. ASSUME Wait PROVE Work'
  BY <1>25 DEF Wait, ReleaseAndJoin, GiveUnit, NoneLeft, OwnerFree, Goto,
       Makes, lifeVars, registryVars, workVars, Inv
<1>26. ASSUME Destroy PROVE Work'
  BY <1>26 DEF Destroy, OwnerFree, UsersOut, Goto, Makes, lifeVars,
       registryVars, mainVars, runVars, workVars, Inv, OwnerPlaces,
       RunnerPlaces, Statuses
<1>27. ASSUME ForkPrepare PROVE Work'
  BY <1>27 DEF ForkPrepare, OwnerFree, UsersOut, Goto, Makes, registryVars,
       mainVars, Inv
<1>28. CASE UNCHANGED vars
  BY <1>28 DEF vars, Goto, Makes, lifeVars, registryVars, mainVars, runVars,
       workVars, Inv, OwnerPlaces, RunnerPlaces, Statuses
<1>29. QED
  BY <1>1, <1>2, <1>3, <1>4, <1>5, <1>6, <1>7, <1>8, <1>9, <1>10, <1>11,
       <1>12, <1>13, <1>14, <1>15, <1>16, <1>17, <1>18, <1>19, <1>20, <1>21,
       <1>22, <1>23, <1>24, <1>25, <1>26, <1>27, <1>28 DEF Next, ThreadStep,
       WorkerStep, OwnerStep

----------------------------------------------------------------------------
(* The count is that of the operations under way, and the pool's unit *)

LEMMA SameActive ==
  ASSUME Counts, Active' = Active, UNCHANGED <<count, unit>>, Late => Late'
  PROVE  Counts'
BY DEF Counts

\* An operation starts and is counted.
LEMMA OneMore ==
  ASSUME Inv, NEW o \in Ops, status[o] = "new", count' = count + 1,
         unit' = unit,
         NEW how \in {"ready", "queued"}, status' = [status EXCEPT ![o] = how],
         Late => Late'
  PROVE  Counts'
<1>1. Active' = Active \cup {o} /\ o \notin Active
  BY DEF Active, Inv, TypeOK
<1>2. IsFiniteSet(Active)
  BY DEF Inv, Counts
<1>3. IsFiniteSet(Active') /\ Cardinality(Active') = Cardinality(Active) + 1
  BY <1>1, <1>2, FS_AddElement
<1>4. Cardinality(Active) \in Nat /\ count \in Int /\ unit \in BOOLEAN
  BY <1>2, FS_CardinalityType DEF Inv, TypeOK
<1>5. QED
  BY <1>3, <1>4 DEF Inv, Counts

\* The handler of an operation has run: it is no longer counted.
LEMMA OneLess ==
  ASSUME Inv, NEW o \in Ops, status[o] = "running", count' = count - 1,
         unit' = unit,
         status' = [status EXCEPT ![o] = "done"], Late => Late'
  PROVE  Counts'
<1>1. Active' = Active \ {o} /\ o \in Active
  BY DEF Active, Inv, TypeOK
<1>2. IsFiniteSet(Active)
  BY DEF Inv, Counts
<1>3. IsFiniteSet(Active') /\ Cardinality(Active') = Cardinality(Active) - 1
  BY <1>1, <1>2, FS_RemoveElement
<1>4. Cardinality(Active) \in Nat /\ count \in Int /\ unit \in BOOLEAN
  BY <1>2, FS_CardinalityType DEF Inv, TypeOK
<1>5. QED
  BY <1>3, <1>4 DEF Inv, Counts

\* When services end, operations are destroyed and nobody counts.
LEMMA SomeDestroyed ==
  ASSUME Inv, NEW what, DestroyAll(what), Late'
  PROVE  Counts'
<1>1. Active' \in SUBSET Active
  BY DEF DestroyAll, Active, Inv
<1>2. IsFiniteSet(Active')
  BY <1>1, FS_Subset DEF Inv, Counts
<1>3. QED
  BY <1>2 DEF Counts

\* A count of zero says that nothing is under way.
LEMMA NothingCounted == TypeOK /\ Counts /\ ~Late => (count = 0 <=> Quiet)
<1> SUFFICES ASSUME TypeOK, Counts, ~Late PROVE count = 0 <=> Quiet
  OBVIOUS
<1>1. /\ IsFiniteSet(Active) /\ count = Cardinality(Active) + (IF unit
             THEN 1 ELSE 0)
      /\ unit \in BOOLEAN
  BY DEF Counts, TypeOK
<1>2. Cardinality(Active) \in Nat /\ (Cardinality(Active) = 0 <=> Active = {})
  BY <1>1, FS_CardinalityType, FS_EmptySet
<1>3. QED
  BY <1>1, <1>2 DEF Quiet

LEMMA NothingCountedNext ==
  (TypeOK /\ Counts /\ ~Late => (count = 0 <=> Quiet))'
BY NothingCounted, PTL

\* Every step keeps the count and the operations under way together.
LEMMA NextCounts == Inv /\ [Next]_vars => Counts'
<1> SUFFICES ASSUME Inv, [Next]_vars PROVE Counts'
  OBVIOUS
<1> USE ContextAssumption DEF ContextAssumption, TypeOK, Procs, Runners, Ops
<1>1. ASSUME NEW t \in Runners, Enter(t) PROVE Counts'
  BY <1>1, SameActive DEF Enter, Goto, lifeVars, registryVars, mainVars,
       workVars, Inv, Active, Late
<1>2. ASSUME NEW t \in Runners, Finish(t) PROVE Counts'
  <2>1. running[t] \in Ops /\ status[running[t]] = "running"
    BY <1>2 DEF Finish, Inv, Work
  <2>2. Late => Late'
    BY <1>2 DEF Finish, Goto, Late
  <2>3. QED
    BY <1>2, <2>1, <2>2, OneLess DEF Finish
<1>3. ASSUME NEW t \in Runners, Leave(t) PROVE Counts'
  BY <1>3, SameActive DEF Leave, Goto, lifeVars, registryVars, mainVars,
       workVars, Inv, Active, Late
<1>4. ASSUME NEW t \in Runners, Insert(t) PROVE Counts'
  BY <1>4, SameActive
     DEF Insert, IsNew, lifeVars, mainVars, runVars, Inv, Active, Late
<1>5. ASSUME NEW t \in Runners, Run(t) PROVE Counts'
  BY <1>5, SameActive DEF Run, Goto, Makes, lifeVars, registryVars, mainVars,
       workVars, Inv, Active, Late
<1>6. ASSUME NEW t \in Runners, NEW o \in Ops, Start(t, o) PROVE Counts'
  <2>1. Active' = Active
    BY <1>6 DEF Start, Active, Inv
  <2>2. UNCHANGED <<count, unit>> /\ (Late => Late')
    BY <1>6 DEF Start, Goto, mainVars, runVars, Inv, Late
  <2>3. QED
    BY <2>1, <2>2, SameActive DEF Inv
<1>7. ASSUME NEW t \in Runners, NEW o \in Ops, Post(t, o) PROVE Counts'
  <2>1. Late => Late'
    BY <1>7 DEF Post, runVars, Late
  <2>2. QED
    BY <1>7, <2>1, OneMore DEF Post, Submits
<1>8. ASSUME NEW t \in Runners, NEW o \in Ops, Resolve(t, o) PROVE Counts'
  <2>1. Late => Late'
    BY <1>8 DEF Resolve, runVars, Late
  <2>2. QED
    BY <1>8, <2>1, OneMore DEF Resolve, Submits, LookupUnit
<1>9. ASSUME NEW t \in Runners, NEW k \in Keys, UseService(t, k) PROVE Counts'
  BY <1>9, SameActive DEF UseService, Ask, CanCall, lifeVars, mainVars,
       runVars, workVars, Inv, Active, Late
<1>10. ASSUME NEW t \in Runners, NEW k \in Keys, UseServiceNested(t, k)
       PROVE Counts'
  BY <1>10, SameActive DEF UseServiceNested, Ask, lifeVars, mainVars, runVars,
       workVars, Inv, Active, Late
<1>11. ASSUME NEW p \in Procs, StopIdle(p) PROVE Counts'
  BY <1>11, SameActive DEF StopIdle, Goto, Makes, lifeVars, registryVars,
       mainVars, runVars, workVars, Inv, Active, Late, OwnerPlaces
<1>12. ASSUME WorkerEnter PROVE Counts'
  BY <1>12, SameActive DEF WorkerEnter, lifeVars, registryVars, mainVars,
       runVars, Inv, Active, Late
<1>13. ASSUME WorkerHandBack PROVE Counts'
  <2>1. Active' = Active
    BY <1>13 DEF WorkerHandBack, Active, Inv, Work
  <2>2. UNCHANGED <<count, unit>> /\ (Late => Late')
    BY <1>13 DEF WorkerHandBack, Goto, mainVars, runVars, Inv, Late
  <2>3. QED
    BY <2>1, <2>2, SameActive DEF Inv
<1>14. ASSUME WorkerLeave PROVE Counts'
  BY <1>14, SameActive DEF WorkerLeave, lifeVars, registryVars, mainVars,
       runVars, Inv, Active, Late
<1>15. ASSUME NEW o \in Ops, WorkerTake(o) PROVE Counts'
  <2>1. Active' = Active
    BY <1>15 DEF WorkerTake, Active, Inv
  <2>2. UNCHANGED <<count, unit>> /\ (Late => Late')
    BY <1>15 DEF WorkerTake, Goto, mainVars, runVars, Inv, Late
  <2>3. QED
    BY <2>1, <2>2, SameActive DEF Inv
<1>16. ASSUME DestroyJoins PROVE Counts'
  <2>1. /\ unit = TRUE /\ unit' = FALSE /\ count' = count - 1
        /\ Active' = Active
        /\ count \in Int /\ ~Late
    BY <1>16 DEF DestroyJoins, ReleaseAndJoin, GiveUnit, OwnerFree, Active,
         Inv, Control
  <2>2. IsFiniteSet(Active) /\ count = Cardinality(Active) + 1
    BY <2>1 DEF Inv, Counts
  <2>3. Cardinality(Active) \in Nat
    BY <2>2, FS_CardinalityType
  <2>4. QED
    BY <2>1, <2>2, <2>3 DEF Counts
<1>17. ASSUME Joined PROVE Counts'
  BY <1>17, SameActive
     DEF Joined, Goto, lifeVars, registryVars, workVars, Inv, Active, Late
<1>18. ASSUME ForkDone PROVE Counts'
  BY <1>18, SameActive DEF ForkDone, WorkerGone, Goto, lifeVars, registryVars,
       mainVars, Inv, Active, Late
<1>19. ASSUME EndResolver PROVE Counts'
  BY <1>19, SameActive DEF EndResolver, Unended, Goto, lifeVars, registryVars,
       mainVars, Inv, Active, Late
<1>20. ASSUME EndResolverJoined PROVE Counts'
  <2>1. Late'
    BY <1>20 DEF EndResolverJoined, Goto, Late
  <2>2. QED
    BY <1>20, <2>1, SomeDestroyed DEF EndResolverJoined
<1>21. ASSUME DestroyService PROVE Counts'
  <2>1. Late' /\ UNCHANGED <<count, unit>>
    BY <1>21 DEF DestroyService, Unended, Goto, Late, Inv, mainVars, runVars
  <2>2. CASE DestroyAll("ready")
    BY <2>1, <2>2, SomeDestroyed
  <2>3. CASE UNCHANGED status
    BY <2>1, <2>3, SameActive DEF Active, Inv
  <2>4. QED
    BY <1>21, <2>2, <2>3 DEF DestroyService
<1>22. ASSUME NEW k \in Keys, EndService(k) PROVE Counts'
  <2>1. Late' /\ UNCHANGED <<count, unit>>
    BY <1>22 DEF EndService, Unended, Goto, Late, Inv, mainVars, runVars
  <2>2. CASE DestroyAll("ready")
    BY <2>1, <2>2, SomeDestroyed
  <2>3. CASE UNCHANGED status
    BY <2>1, <2>3, SameActive DEF Active, Inv
  <2>4. QED
    BY <1>22, <2>2, <2>3 DEF EndService
<1>23. ASSUME Stop PROVE Counts'
  BY <1>23, SameActive DEF Stop, OwnerFree, Makes, lifeVars, registryVars,
       runVars, workVars, Inv, Active, Late
<1>24. ASSUME Join PROVE Counts'
  <2>1. /\ unit = TRUE /\ unit' = FALSE /\ count' = count - 1
        /\ Active' = Active
        /\ count \in Int /\ ~Late
    BY <1>24 DEF Join, ReleaseAndJoin, GiveUnit, OwnerFree, Active, Inv, Control
  <2>2. IsFiniteSet(Active) /\ count = Cardinality(Active) + 1
    BY <2>1 DEF Inv, Counts
  <2>3. Cardinality(Active) \in Nat
    BY <2>2, FS_CardinalityType
  <2>4. QED
    BY <2>1, <2>2, <2>3 DEF Counts
<1>25. ASSUME Wait PROVE Counts'
  <2>1. /\ unit = TRUE /\ unit' = FALSE /\ count' = count - 1
        /\ Active' = Active
        /\ count \in Int /\ ~Late
    BY <1>25 DEF Wait, ReleaseAndJoin, GiveUnit, OwnerFree, Active, Inv, Control
  <2>2. IsFiniteSet(Active) /\ count = Cardinality(Active) + 1
    BY <2>1 DEF Inv, Counts
  <2>3. Cardinality(Active) \in Nat
    BY <2>2, FS_CardinalityType
  <2>4. QED
    BY <2>1, <2>2, <2>3 DEF Counts
<1>26. ASSUME Destroy PROVE Counts'
  BY <1>26, SameActive DEF Destroy, OwnerFree, UsersOut, Goto, Makes,
       lifeVars, registryVars, mainVars, runVars, workVars, Inv, Active, Late,
       OwnerPlaces
<1>27. ASSUME ForkPrepare PROVE Counts'
  BY <1>27, SameActive DEF ForkPrepare, OwnerFree, UsersOut, Goto, Makes,
       registryVars, mainVars, Inv, Active, Late
<1>28. CASE UNCHANGED vars
  BY <1>28, SameActive DEF vars, Goto, Makes, lifeVars, registryVars,
       mainVars, runVars, workVars, Inv, Active, Late, OwnerPlaces
<1>29. QED
  BY <1>1, <1>2, <1>3, <1>4, <1>5, <1>6, <1>7, <1>8, <1>9, <1>10, <1>11,
       <1>12, <1>13, <1>14, <1>15, <1>16, <1>17, <1>18, <1>19, <1>20, <1>21,
       <1>22, <1>23, <1>24, <1>25, <1>26, <1>27, <1>28 DEF Next, ThreadStep,
       WorkerStep, OwnerStep

\* When the count says that nothing is under way, all that was promised is done.
LEMMA ZeroSettles == TypeOK /\ Work /\ Counts /\ ~Late /\ count = 0 => Settled
<1> SUFFICES ASSUME TypeOK, Work, Counts, ~Late, count = 0 PROVE Settled
  OBVIOUS
<1>1. Quiet
  BY NothingCounted
<1>2. QED
  BY <1>1 DEF Quiet, Settled, Active, Work, TypeOK, Statuses

LEMMA ZeroSettlesNext ==
  (TypeOK /\ Work /\ Counts /\ ~Late /\ count = 0 => Settled)'
BY ZeroSettles, PTL

\* Once all that was promised is done, nothing more will be promised: the pool
\* has given up its unit, and no handler runs of what was.
LEMMA PromisedNoMore ==
  ASSUME Inv, NEW t \in Runners, NEW o \in Ops, Submits(t, o), Settled
  PROVE  promised' = promised /\ o \notin promised
<1>1. pc[t] = "handler" => running[t] \in Ops /\ status[running[t]] = "running"
  BY DEF Inv, TypeOK, Work
<1>2. pc[t] # "handler" => running[t] = NoOp
  BY DEF Inv, Work
<1>3. running[t] \notin promised
  BY <1>1, <1>2, ContextAssumption
     DEF ContextAssumption, Settled, Inv, TypeOK, Ops
<1>4. QED
  BY <1>3 DEF Submits, Settled

\* A pool that stopped by itself has kept its promises.
LEMMA NextRest == Inv /\ TypeOK' /\ Work' /\ Counts' /\ [Next]_vars => Rest'
<1> SUFFICES ASSUME Inv, TypeOK', Work', Counts', [Next]_vars PROVE Rest'
  OBVIOUS
<1> USE ContextAssumption DEF ContextAssumption, TypeOK, Procs, Runners, Ops
<1>1. ASSUME NEW t \in Runners, Enter(t) PROVE Rest'
  <2>1. pc[t] = "enter" /\ ~Late
    BY <1>1 DEF Enter, Inv, Control
  <2>2. count = 0 => Settled
    BY <2>1, ZeroSettles DEF Inv
  <2>3. QED
    BY <1>1, <2>2 DEF Enter, Goto, mainVars, Inv, Rest, Settled
<1>2. ASSUME NEW t \in Runners, Finish(t) PROVE Rest'
  <2>1. ~Late'
    BY <1>2 DEF Finish, Goto, Inv, Control, Late
  <2>2. count' = 0 => Settled'
    BY <2>1, ZeroSettlesNext
  <2>3. Settled => Settled'
    BY <1>2 DEF Finish, Inv, Settled
  <2>4. QED
    BY <1>2, <2>2, <2>3 DEF Finish, NoneLeft, Goto, Inv, Rest
<1>3. ASSUME NEW t \in Runners, Leave(t) PROVE Rest'
  BY <1>3 DEF Leave, Goto, lifeVars, registryVars, mainVars, workVars, Inv,
       Rest, Settled, Work, Control, Late
<1>4. ASSUME NEW t \in Runners, Insert(t) PROVE Rest'
  BY <1>4 DEF Insert, IsNew, lifeVars, mainVars, runVars, Inv, Rest,
       Settled, Work, Control, Late
<1>5. ASSUME NEW t \in Runners, Run(t) PROVE Rest'
  BY <1>5 DEF Run, Goto, Makes, lifeVars, registryVars, mainVars, workVars,
       Inv, Rest, Settled, Work, Control, Late
<1>6. ASSUME NEW t \in Runners, NEW o \in Ops, Start(t, o) PROVE Rest'
  BY <1>6 DEF Start, Goto, Makes, lifeVars, registryVars, mainVars, runVars,
       workVars, Inv, Rest, Settled, OwnerPlaces, RunnerPlaces,
       Statuses, Work, Control, Late
<1>7. ASSUME NEW t \in Runners, NEW o \in Ops, Post(t, o) PROVE Rest'
  <2>1. Settled => promised' = promised /\ o \notin promised
    BY <1>7, PromisedNoMore DEF Post
  <2>2. Settled => Settled'
    BY <1>7, <2>1 DEF Post, Settled, Inv
  <2>3. QED
    BY <1>7, <2>2 DEF Post, runVars, Inv, Rest
<1>8. ASSUME NEW t \in Runners, NEW o \in Ops, Resolve(t, o) PROVE Rest'
  <2>1. Settled => promised' = promised /\ o \notin promised
    BY <1>8, PromisedNoMore DEF Resolve
  <2>2. Settled => Settled'
    BY <1>8, <2>1 DEF Resolve, Settled, Inv
  <2>3. QED
    BY <1>8, <2>2 DEF Resolve, runVars, Inv, Rest
<1>9. ASSUME NEW t \in Runners, NEW k \in Keys, UseService(t, k) PROVE Rest'
  BY <1>9 DEF UseService, Ask, CanCall, lifeVars, mainVars, runVars, workVars,
       Inv, Rest, Settled, Work, Control, Late
<1>10. ASSUME NEW t \in Runners, NEW k \in Keys, UseServiceNested(t, k)
       PROVE Rest'
  BY <1>10 DEF UseServiceNested, Ask, lifeVars, mainVars, runVars, workVars,
       Inv, Rest, Settled, Work, Control, Late
<1>11. ASSUME NEW p \in Procs, StopIdle(p) PROVE Rest'
  BY <1>11 DEF StopIdle, Inv, Rest, Settled, Work, Control, Late
<1>12. ASSUME WorkerEnter PROVE Rest'
  BY <1>12 DEF WorkerEnter, lifeVars, registryVars, mainVars, runVars, Inv,
       Rest, Settled, Work, Control, Late
<1>13. ASSUME WorkerHandBack PROVE Rest'
  BY <1>13 DEF WorkerHandBack, lifeVars, registryVars, mainVars, runVars, Inv,
       Rest, Settled, Work, Control, Late
<1>14. ASSUME WorkerLeave PROVE Rest'
  BY <1>14 DEF WorkerLeave, lifeVars, registryVars, mainVars, runVars, Inv,
       Rest, Settled, Work, Control, Late
<1>15. ASSUME NEW o \in Ops, WorkerTake(o) PROVE Rest'
  BY <1>15 DEF WorkerTake, lifeVars, registryVars, mainVars, runVars, Inv,
       Rest, Settled, Work, Control, Late
<1>16. ASSUME DestroyJoins PROVE Rest'
  <2>1. /\ unit = TRUE /\ UNCHANGED <<progVars, status, stopped, stopCalled>>
        /\ pc' = [pc EXCEPT ![Owner] =
                    IF NoneLeft(count') THEN "stop" ELSE "join"]
    BY <1>16 DEF DestroyJoins, ReleaseAndJoin, Goto, Inv, Control
  <2>2. ~Late'
    BY <2>1 DEF Inv, Late
  <2>3. count' = 0 => Settled'
    BY <2>2, ZeroSettlesNext
  <2>4. QED
    BY <2>1, <2>3 DEF NoneLeft, Inv, Rest, Settled
<1>17. ASSUME Joined PROVE Rest'
  BY <1>17 DEF Joined, Goto, lifeVars, registryVars, workVars, Inv, Rest,
       Settled, Work, Control, Late
<1>18. ASSUME ForkDone PROVE Rest'
  BY <1>18 DEF ForkDone, WorkerGone, Goto, lifeVars, registryVars, mainVars,
       Inv, Rest, Settled, Work, Control, Late
<1>19. ASSUME EndResolver PROVE Rest'
  BY <1>19 DEF EndResolver, Unended, Goto, lifeVars, registryVars, mainVars,
       Inv, Rest, Settled, Work, Control, Late
<1>20. ASSUME EndResolverJoined PROVE Rest'
  BY <1>20 DEF EndResolverJoined, DestroyAll, WorkerGone, Goto, lifeVars,
       mainVars, Inv, Rest, Settled, Work, Control, Late
<1>21. ASSUME DestroyService PROVE Rest'
  BY <1>21 DEF DestroyService, DestroyAll, Goto, lifeVars, mainVars, workVars,
       Inv, Rest, Settled, Work, Control, Late
<1>22. ASSUME NEW k \in Keys, EndService(k) PROVE Rest'
  BY <1>22 DEF EndService, Unended, DestroyAll, lifeVars, mainVars, runVars,
       workVars, Inv, Rest, Settled, Work, Control, Late
<1>23. ASSUME Stop PROVE Rest'
  BY <1>23 DEF Stop, OwnerFree, Makes, lifeVars, registryVars, runVars,
       workVars, Inv, Rest, Settled, Work, Control, Late
<1>24. ASSUME Join PROVE Rest'
  <2>1. /\ unit = TRUE /\ UNCHANGED <<progVars, status, stopped, stopCalled>>
        /\ pc' = [pc EXCEPT ![Owner] =
                    IF NoneLeft(count') THEN "stop" ELSE "join"]
    BY <1>24 DEF Join, ReleaseAndJoin, Goto, OwnerFree, Inv, Control
  <2>2. ~Late'
    BY <2>1 DEF Inv, Late
  <2>3. count' = 0 => Settled'
    BY <2>2, ZeroSettlesNext
  <2>4. QED
    BY <2>1, <2>3 DEF NoneLeft, Inv, Rest, Settled
<1>25. ASSUME Wait PROVE Rest'
  <2>1. /\ unit = TRUE /\ UNCHANGED <<progVars, status, stopped, stopCalled>>
        /\ pc' = [pc EXCEPT ![Owner] =
                    IF NoneLeft(count') THEN "stop" ELSE "join"]
    BY <1>25 DEF Wait, ReleaseAndJoin, Goto, OwnerFree, Inv
  <2>2. ~Late'
    BY <2>1 DEF Inv, Late
  <2>3. count' = 0 => Settled'
    BY <2>2, ZeroSettlesNext
  <2>4. QED
    BY <2>1, <2>3 DEF NoneLeft, Inv, Rest, Settled
<1>26. ASSUME Destroy PROVE Rest'
  BY <1>26 DEF Destroy, OwnerFree, UsersOut, Goto, Makes, lifeVars,
       registryVars, mainVars, runVars, workVars, Inv, Rest, Settled,
       OwnerPlaces, RunnerPlaces, Statuses, Work, Control, Late
<1>27. ASSUME ForkPrepare PROVE Rest'
  BY <1>27 DEF ForkPrepare, OwnerFree, UsersOut, Goto, Makes, registryVars,
       mainVars, Inv, Rest, Settled, Work, Control, Late
<1>28. CASE UNCHANGED vars
  BY <1>28 DEF vars, Goto, Makes, lifeVars, registryVars, mainVars, runVars,
       workVars, Inv, Rest, Settled, OwnerPlaces, RunnerPlaces,
       Statuses, Work, Control, Late
<1>29. QED
  BY <1>1, <1>2, <1>3, <1>4, <1>5, <1>6, <1>7, <1>8, <1>9, <1>10, <1>11,
       <1>12, <1>13, <1>14, <1>15, <1>16, <1>17, <1>18, <1>19, <1>20, <1>21,
       <1>22, <1>23, <1>24, <1>25, <1>26, <1>27, <1>28 DEF Next, ThreadStep,
       WorkerStep, OwnerStep

----------------------------------------------------------------------------
(* The registry *)

\* While services end, nobody is in the context.
LEMMA NobodyIn == Inv /\ Late =>
  \A t \in Runners : pc[t] = "out" /\ building[t] = <<>>
BY DEF Inv, Control, Late, Runners

\* A service that the registry has is at some place of it.
LEMMA HasAt ==
  ASSUME registry \in Seq(Keys), NEW k
  PROVE  Has(k) <=> \E i \in 1 .. Len(registry) : registry[i] = k
BY DEF Has, ToSet

LEMMA HasAtNext ==
  ASSUME registry' \in Seq(Keys), NEW k
  PROVE  Has(k)' <=> \E i \in 1 .. Len(registry') : registry'[i] = k
BY DEF Has, ToSet

\* The newest service is in front of the others.
LEMMA InFront ==
  ASSUME NEW S, NEW q \in Seq(S), NEW e \in S
  PROVE  /\ <<e>> \o q \in Seq(S) /\ Len(<<e>> \o q) = Len(q) + 1
         /\ (<<e>> \o q)[1] = e
         /\ \A i \in 1 .. Len(q) : (<<e>> \o q)[i + 1] = q[i]
<1>1. <<e>> \in Seq(S) /\ Len(<<e>>) = 1 /\ <<e>>[1] = e
  OBVIOUS
<1>2. QED
  BY <1>1

\* The services behind the newest one.
LEMMA Behind ==
  ASSUME NEW S, NEW q \in Seq(S), q # <<>>
  PROVE  /\ Tail(q) \in Seq(S) /\ Len(Tail(q)) = Len(q) - 1
         /\ Len(q) \in Nat \ {0}
         /\ Head(q) = q[1] /\ Head(q) \in S
         /\ \A i \in 1 .. Len(Tail(q)) : Tail(q)[i] = q[i + 1]
OBVIOUS

\* What Insert does: the new service is taken, or there is one already.
LEMMA Inserting ==
  ASSUME Inv, NEW t \in Runners, Insert(t), NEW k, k = Head(building[t]).key
  PROVE  /\ k \in Keys /\ building[t] \in Seq(Frames) /\ building[t] # <<>>
         /\ building[t][1].key = k /\ building[t][1].todo = {}
         /\ IF Has(k)
              THEN registry' = registry ELSE registry' = <<k>> \o registry
         /\ ~Late /\ ended = {} /\ UNCHANGED <<ended, pc, worker, status>>
         /\ \A j \in Needs[k] : Has(j)
<1>1. /\ building[t] \in Seq(Frames) /\ building[t] # <<>>
      /\ Head(building[t]).todo = {}
  BY DEF Insert, Inv, TypeOK
<1>2. /\ Head(building[t]) = building[t][1] /\ 1 \in 1 .. Len(building[t])
      /\ building[t][1] \in Frames
  BY <1>1
<1>3. k \in Keys
  BY <1>2 DEF Frames
<1>4. ~Late
  BY <1>1, NobodyIn
<1>5. ended = {}
  BY <1>4 DEF Inv, Services, Ending
<1>6. IF Has(k) THEN registry' = registry ELSE registry' = <<k>> \o registry
  BY DEF Insert, IsNew
<1>7. \A j \in Needs[k] : Has(j)
  BY <1>1, <1>2 DEF Inv, Services, Given
<1>8. UNCHANGED <<ended, pc, worker, status>>
  BY DEF Insert, runVars
<1>9. QED
  BY <1>1, <1>2, <1>3, <1>4, <1>5, <1>6, <1>7, <1>8

\* What the registry had stays there, in its order.
LEMMA InsertKeeps ==
  ASSUME Inv, TypeOK', NEW t \in Runners, Insert(t)
  PROVE  \A k \in Keys : Has(k) => Has(k)'
<1>1. TAKE k \in Keys
<1> HAVE Has(k)
<1> DEFINE e == Head(building[t]).key
<1>2. /\ e \in Keys /\ registry \in Seq(Keys) /\ registry' \in Seq(Keys)
      /\ registry' = registry \/ registry' = <<e>> \o registry
  BY Inserting DEF Inv, TypeOK
<1> HIDE DEF e
<1>3. PICK i \in 1 .. Len(registry) : registry[i] = k
  BY <1>2, HasAt
<1>4. CASE registry' = registry
  BY <1>2, <1>3, <1>4, HasAtNext
<1>5. CASE registry' = <<e>> \o registry
  <2>1. i + 1 \in 1 .. Len(registry') /\ registry'[i + 1] = k
    BY <1>2, <1>3, <1>5, InFront
  <2>2. QED
    BY <1>2, <2>1, HasAtNext
<1>6. QED
  BY <1>2, <1>4, <1>5

\* A constructor under way has got the needs that it has asked for.
LEMMA NextGiven == Inv /\ TypeOK' /\ [Next]_vars => Given'
<1> SUFFICES ASSUME Inv, TypeOK', [Next]_vars PROVE Given'
  OBVIOUS
<1>1. ASSUME NEW t \in Runners, Enter(t) PROVE Given'
  BY <1>1 DEF Enter, Goto, lifeVars, registryVars, mainVars, workVars, Inv,
       Services, Given, Has
<1>2. ASSUME NEW t \in Runners, Finish(t) PROVE Given'
  BY <1>2 DEF Finish, NoneLeft, Goto, Makes, lifeVars, registryVars, mainVars,
       runVars, workVars, Inv, Services, Given, Has
<1>3. ASSUME NEW t \in Runners, Leave(t) PROVE Given'
  BY <1>3 DEF Leave, Goto, lifeVars, registryVars, mainVars, workVars, Inv,
       Services, Given, Has
<1>4. ASSUME NEW t \in Runners, Insert(t) PROVE Given'
  <2>0. PICK e : e = Head(building[t]).key
    OBVIOUS
  <2>1. /\ building[t] \in Seq(Frames) /\ building[t] # <<>> /\ e \in Keys
        /\ building[t][1].key = e /\ building[t][1].todo = {}
        /\ building' = [building EXCEPT ![t] = Tail(building[t])]
    BY <1>4, <2>0, Inserting DEF Insert
  <2>2. Has(e)'
    <3>1. registry \in Seq(Keys) /\ registry' \in Seq(Keys)
      BY DEF Inv, TypeOK
    <3>2. CASE Has(e)
      BY <1>4, <2>1, <3>2, InsertKeeps
    <3>3. CASE ~Has(e)
      <4>1. registry' = <<e>> \o registry
        BY <1>4, <2>0, <3>3, Inserting
      <4>2. 1 \in 1 .. Len(registry') /\ registry'[1] = e
        BY <2>1, <3>1, <4>1, InFront
      <4>3. QED
        BY <3>1, <4>2, HasAtNext
    <3>4. QED
      BY <3>2, <3>3
  <2>3. SUFFICES
          ASSUME NEW u \in Runners, NEW i \in 1 .. Len(building'[u])
          PROVE  LET fr == building'[u][i]
                 IN  /\ fr.todo \subseteq Needs[fr.key]
                     /\ \A k \in Needs[fr.key] \ fr.todo :
                          Has(k)' \/ (i > 1 /\ building'[u][i - 1].key = k)
    BY DEF Given
  <2>4. CASE u # t
    <3>1. building'[u] = building[u]
      BY <2>1, <2>4 DEF Inv
    <3>5. building[u] \in Seq(Frames) /\ i \in 1 .. Len(building[u])
      BY <3>1 DEF Inv, TypeOK
    <3>6. building[u][i] \in Frames
      BY <3>5
    <3>2. building[u][i].key \in Keys
      BY <3>6 DEF Frames
    <3>3. Needs[building[u][i].key] \subseteq Keys
      BY <3>2, ContextAssumption
    <3>4. QED
      BY <1>4, <3>1, <3>3, InsertKeeps DEF Inv, Services, Given
  <2>5. CASE u = t
    <3>1. /\ building'[u] = Tail(building[t])
          /\ i \in 1 .. Len(Tail(building[t]))
      BY <2>1, <2>5 DEF Inv, TypeOK
    <3>8. /\ Len(building[t]) \in Nat
          /\ Len(Tail(building[t])) = Len(building[t]) - 1
          /\ \A n \in 1 .. Len(Tail(building[t])) :
               Tail(building[t])[n] = building[t][n + 1]
      BY <2>1, Behind
    <3>9. i > 1 => i - 1 \in 1 .. Len(Tail(building[t])) /\ (i - 1) + 1 = i
      BY <3>1, <3>8
    <3>2. /\ i + 1 \in 1 .. Len(building[t])
          /\ building'[u][i] = building[t][i + 1]
          /\ i > 1 => building'[u][i - 1] = building[t][i]
      BY <3>1, <3>8, <3>9
    <3>10. building[t][i + 1] \in Frames
      BY <2>1, <3>2
    <3>3. building[t][i + 1].key \in Keys
      BY <3>10 DEF Frames
    <3>4. Needs[building[t][i + 1].key] \subseteq Keys
      BY <3>3, ContextAssumption
    <3>5. /\ building[t][i + 1].todo \subseteq Needs[building[t][i + 1].key]
          /\ \A k \in Needs[building[t][i + 1].key] \ building[t][i + 1].todo :
               Has(k) \/ building[t][i].key = k
      BY <3>2 DEF Inv, Services, Given
    <3>6. i = 1 \/ i > 1
      BY <3>1, <3>8
    <3>7. QED
      BY <1>4, <2>1, <2>2, <3>2, <3>4, <3>5, <3>6, InsertKeeps
  <2>6. QED
    BY <2>4, <2>5
<1>5. ASSUME NEW t \in Runners, Run(t) PROVE Given'
  BY <1>5 DEF Run, Goto, Makes, lifeVars, registryVars, mainVars, workVars,
       Inv, Services, Given, Has
<1>6. ASSUME NEW t \in Runners, NEW o \in Ops, Start(t, o) PROVE Given'
  BY <1>6 DEF Start, Goto, Makes, lifeVars, registryVars, mainVars, runVars,
       workVars, Inv, Services, Given, Has
<1>7. ASSUME NEW t \in Runners, NEW o \in Ops, Post(t, o) PROVE Given'
  BY <1>7 DEF Post, Submits, CanCall, lifeVars, registryVars, runVars,
       workVars, Inv, Services, Given, Has
<1>8. ASSUME NEW t \in Runners, NEW o \in Ops, Resolve(t, o) PROVE Given'
  BY <1>8 DEF Resolve, Submits, CanCall, LookupUnit, lifeVars, registryVars,
       runVars, Inv, Services, Given, Has
<1>9. ASSUME NEW t \in Runners, NEW k \in Keys, UseService(t, k) PROVE Given'
  <2>1. /\ building' = [building EXCEPT
                         ![t] = <<[key |-> k, todo |-> Needs[k]]>>]
        /\ registry' = registry
    <3>1. \A fr : <<fr>> \o <<>> = <<fr>>
      OBVIOUS
    <3>2. QED
      BY <1>9, <3>1 DEF UseService, Ask
  <2>2. \A u \in Runners : building'[u] = IF u = t
            THEN <<[key |-> k, todo |-> Needs[k]]>> ELSE building[u]
    BY <2>1 DEF Inv, TypeOK
  <2>3. QED
    BY <2>1, <2>2 DEF Given, Has, Inv, Services
<1>10. ASSUME NEW t \in Runners, NEW k \in Keys, UseServiceNested(t, k)
       PROVE Given'
  <2>1. /\ building[t] \in Seq(Frames) /\ building[t] # <<>>
        /\ k \in Head(building[t]).todo
    BY <1>10 DEF UseServiceNested, Inv, TypeOK
  <2>2. /\ Tail(building[t]) \in Seq(Frames) /\ Head(building[t]) \in Frames
        /\ Head(building[t]) = building[t][1] /\ 1 \in 1 .. Len(building[t])
    BY <2>1, Behind
  <2> DEFINE rest == [Head(building[t]) EXCEPT !.todo = @ \ {k}]
             new == [key |-> k, todo |-> Needs[k]]
             outer == <<rest>> \o Tail(building[t])
  <2>3. /\ rest \in Frames /\ new \in Frames
        /\ rest.key = building[t][1].key
        /\ rest.todo = building[t][1].todo \ {k}
        /\ new.key = k /\ new.todo = Needs[k]
    <3>1. \A fr \in Frames :
          /\ [fr EXCEPT !.todo = @ \ {k}] \in Frames
          /\ [fr EXCEPT !.todo = @ \ {k}].key = fr.key
          /\ [fr EXCEPT !.todo = @ \ {k}].todo = fr.todo \ {k}
      BY DEF Frames
    <3>2. new \in Frames /\ new.key = k /\ new.todo = Needs[k]
      BY ContextAssumption DEF ContextAssumption, Frames
    <3>3. QED
      BY <2>2, <3>1, <3>2
  <2>4. /\ building' = [building EXCEPT
                         ![t] = IF Has(k) THEN outer ELSE <<new>> \o outer]
        /\ registry' = registry
    BY <1>10, Zenon DEF UseServiceNested, Ask
  <2> HIDE DEF rest, new
  <2>5. /\ outer \in Seq(Frames) /\ Len(outer) = Len(building[t])
        /\ Len(building[t]) \in Nat
        /\ outer[1] = rest /\ \A i \in 2 .. Len(building[t]) :
             outer[i] = building[t][i]
    <3>1. \A i \in 2 .. Len(building[t]) :
          /\ i - 1 \in 1 .. Len(Tail(building[t]))
          /\ Tail(building[t])[i - 1] = building[t][i]
          /\ (i - 1) + 1 = i
      BY <2>1, Behind
    <3>2. QED
      BY <2>1, <2>2, <2>3, <3>1, Behind, InFront
  <2> HIDE DEF outer
  <2>6. /\ <<new>> \o outer \in Seq(Frames)
        /\ Len(<<new>> \o outer) = Len(outer) + 1
        /\ (<<new>> \o outer)[1] = new
        /\ \A i \in 1 .. Len(outer) : (<<new>> \o outer)[i + 1] = outer[i]
    BY <2>3, <2>5, InFront
  <2> DEFINE Owed(fr, below) ==
        /\ fr.todo \subseteq Needs[fr.key]
        /\ \A j \in Needs[fr.key] \ fr.todo : Has(j) \/ j = below
  <2>7. /\ rest.todo \subseteq Needs[rest.key]
        /\ new.todo \subseteq Needs[new.key]
        /\ \A j \in Needs[rest.key] \ rest.todo : Has(j) \/ j = k
        /\ Needs[new.key] \ new.todo = {}
    BY <2>2, <2>3 DEF Inv, Services, Given
  <2>8. \A i \in 2 .. Len(building[t]) :
          /\ building[t][i].todo \subseteq Needs[building[t][i].key]
          /\ \A j \in Needs[building[t][i].key] \ building[t][i].todo :
               Has(j) \/ j = outer[i - 1].key
    <3>1. TAKE i \in 2 .. Len(building[t])
    <3>2. /\ i \in 1 .. Len(building[t]) /\ i - 1 \in 1 .. Len(building[t])
          /\ i > 1
      BY <2>5
    <3>3. outer[i - 1].key = building[t][i - 1].key
      BY <2>3, <2>5, <3>2
    <3>4. QED
      BY <3>2, <3>3 DEF Inv, Services, Given
  <2>9. \A u \in Runners : u # t => building'[u] = building[u]
    BY <2>4 DEF Inv
  <2>10. \A j : Has(j)' <=> Has(j)
    BY <2>4 DEF Has
  <2>11. CASE Has(k)
    <3>1. building'[t] = outer
      BY <2>4, <2>11 DEF Inv, TypeOK
    <3>2. ASSUME NEW i \in 1 .. Len(outer)
          PROVE  /\ outer[i].todo \subseteq Needs[outer[i].key]
                 /\ \A j \in Needs[outer[i].key] \ outer[i].todo :
                      Has(j) \/ (i > 1 /\ outer[i - 1].key = j)
      <4>1. i = 1 \/ i \in 2 .. Len(building[t])
        BY <2>5
      <4>2. QED
        BY <2>5, <2>7, <2>8, <2>11, <4>1
    <3>3. ASSUME NEW u \in Runners, NEW i \in 1 .. Len(building'[u])
          PROVE  /\ building'[u][i].todo \subseteq Needs[building'[u][i].key]
                 /\ \A j \in Needs[building'[u][i].key] \ building'[u][i].todo :
                      Has(j)' \/ (i > 1 /\ building'[u][i - 1].key = j)
      <4> USE <2>10
      <4>1. CASE u = t
        BY <3>1, <3>2, <4>1
      <4>2. CASE u # t
        BY <2>9, <4>2 DEF Inv, Services, Given
      <4>3. QED
        BY <4>1, <4>2
    <3>4. QED
      BY <3>3 DEF Given
  <2>12. CASE ~Has(k)
    <3> DEFINE all == <<new>> \o outer
    <3>1. building'[t] = all
      BY <2>4, <2>12 DEF Inv, TypeOK
    <3>2. ASSUME NEW i \in 1 .. Len(all)
          PROVE  /\ all[i].todo \subseteq Needs[all[i].key]
                 /\ \A j \in Needs[all[i].key] \ all[i].todo :
                      Has(j) \/ (i > 1 /\ all[i - 1].key = j)
      <4>1. CASE i = 1
        BY <2>6, <2>7, <4>1
      <4>2. CASE i = 2
        <5>1. all[2] = rest /\ all[1] = new
          BY <2>5, <2>6, <4>2
        <5>2. QED
          BY <2>3, <2>7, <4>2, <5>1
      <4>3. CASE i > 2
        <5>1. /\ i - 1 \in 2 .. Len(building[t]) /\ i - 2 \in 1 .. Len(outer)
              /\ i - 1 \in 1 .. Len(outer)
          BY <2>5, <2>6, <4>3
        <5>2. all[i] = building[t][i - 1] /\ all[i - 1] = outer[i - 2] /\ i > 1
          <6>1. (i - 1) + 1 = i /\ (i - 2) + 1 = i - 1
            BY <4>3, <2>6
          <6>2. QED
            BY <2>5, <2>6, <5>1, <6>1
        <5>3. (i - 1) - 1 = i - 2
          BY <5>1
        <5>4. QED
          BY <2>8, <5>1, <5>2, <5>3
      <4>4. QED
        BY <2>6, <2>5, <4>1, <4>2, <4>3
    <3> HIDE DEF all
    <3>3. ASSUME NEW u \in Runners, NEW i \in 1 .. Len(building'[u])
          PROVE  /\ building'[u][i].todo \subseteq Needs[building'[u][i].key]
                 /\ \A j \in Needs[building'[u][i].key] \ building'[u][i].todo :
                      Has(j)' \/ (i > 1 /\ building'[u][i - 1].key = j)
      <4> USE <2>10
      <4>1. CASE u = t
        BY <3>1, <3>2, <4>1
      <4>2. CASE u # t
        BY <2>9, <4>2 DEF Inv, Services, Given
      <4>3. QED
        BY <4>1, <4>2
    <3>4. QED
      BY <3>3 DEF Given
  <2>13. QED
    BY <2>11, <2>12
<1>11. ASSUME NEW p \in Procs, StopIdle(p) PROVE Given'
  BY <1>11 DEF StopIdle, Goto, Makes, lifeVars, registryVars, mainVars,
       runVars, workVars, Inv, Services, Given, Has
<1>12. ASSUME WorkerEnter PROVE Given'
  BY <1>12 DEF WorkerEnter, lifeVars, registryVars, mainVars, runVars, Inv,
       Services, Given, Has
<1>13. ASSUME WorkerHandBack PROVE Given'
  BY <1>13 DEF WorkerHandBack, lifeVars, registryVars, mainVars, runVars, Inv,
       Services, Given, Has
<1>14. ASSUME WorkerLeave PROVE Given'
  BY <1>14 DEF WorkerLeave, lifeVars, registryVars, mainVars, runVars, Inv,
       Services, Given, Has
<1>15. ASSUME NEW o \in Ops, WorkerTake(o) PROVE Given'
  BY <1>15 DEF WorkerTake, lifeVars, registryVars, mainVars, runVars, Inv,
       Services, Given, Has
<1>16. ASSUME DestroyJoins PROVE Given'
  BY <1>16 DEF DestroyJoins, ReleaseAndJoin, GiveUnit, NoneLeft, Goto,
       lifeVars, registryVars, workVars, Inv, Services, Given, Has
<1>17. ASSUME Joined PROVE Given'
  BY <1>17 DEF Joined, Goto, lifeVars, registryVars, workVars, Inv, Services,
       Given, Has
<1>18. ASSUME ForkDone PROVE Given'
  BY <1>18 DEF ForkDone, WorkerGone, Goto, lifeVars, registryVars, mainVars,
       Inv, Services, Given, Has
<1>19. ASSUME EndResolver PROVE Given'
  BY <1>19 DEF EndResolver, Unended, Goto, lifeVars, registryVars, mainVars,
       Inv, Services, Given, Has
<1>20. ASSUME EndResolverJoined PROVE Given'
  BY <1>20 DEF EndResolverJoined, DestroyAll, WorkerGone, Goto, lifeVars,
       mainVars, Inv, Services, Given, Has
<1>21. ASSUME DestroyService PROVE Given'
  <2>1. \A t \in Runners : building'[t] = <<>> /\ Len(building'[t]) = 0
    BY <1>21, NobodyIn DEF DestroyService, Late
  <2>2. \A t \in Runners : \A i \in 1 .. Len(building'[t]) : FALSE
    BY <2>1
  <2>3. QED
    BY <2>2 DEF Given
<1>22. ASSUME NEW k \in Keys, EndService(k) PROVE Given'
  BY <1>22 DEF EndService, Unended, DestroyAll, lifeVars, mainVars, runVars,
       workVars, Inv, Services, Given, Has
<1>23. ASSUME Stop PROVE Given'
  BY <1>23 DEF Stop, OwnerFree, Makes, lifeVars, registryVars, runVars,
       workVars, Inv, Services, Given, Has
<1>24. ASSUME Join PROVE Given'
  BY <1>24 DEF Join, ReleaseAndJoin, GiveUnit, NoneLeft, OwnerFree, Goto,
       Makes, lifeVars, registryVars, workVars, Inv, Services, Given, Has
<1>25. ASSUME Wait PROVE Given'
  BY <1>25 DEF Wait, ReleaseAndJoin, GiveUnit, NoneLeft, OwnerFree, Goto,
       Makes, lifeVars, registryVars, workVars, Inv, Services, Given, Has
<1>26. ASSUME Destroy PROVE Given'
  BY <1>26 DEF Destroy, OwnerFree, UsersOut, Goto, Makes, lifeVars,
       registryVars, mainVars, runVars, workVars, Inv, Services, Given, Has
<1>27. ASSUME ForkPrepare PROVE Given'
  BY <1>27 DEF ForkPrepare, OwnerFree, UsersOut, Goto, Makes, registryVars,
       mainVars, Inv, Services, Given, Has
<1>28. CASE UNCHANGED vars
  BY <1>28 DEF vars, registryVars, Inv, Services, Given, Has
<1>29. QED
  BY <1>1, <1>2, <1>3, <1>4, <1>5, <1>6, <1>7, <1>8, <1>9, <1>10, <1>11,
       <1>12, <1>13, <1>14, <1>15, <1>16, <1>17, <1>18, <1>19, <1>20, <1>21,
       <1>22, <1>23, <1>24, <1>25, <1>26, <1>27, <1>28 DEF Next, ThreadStep,
       WorkerStep, OwnerStep, Procs

\* Every service is in front of those that it needs.
LEMMA NextInOrder == Inv /\ [Next]_vars => InOrder'
<1> SUFFICES ASSUME Inv, [Next]_vars PROVE InOrder'
  OBVIOUS
<1>1. ASSUME NEW t \in Runners, Enter(t) PROVE InOrder'
  BY <1>1 DEF Enter, Goto, lifeVars, registryVars, mainVars, workVars, Inv,
       Services, InOrder
<1>2. ASSUME NEW t \in Runners, Finish(t) PROVE InOrder'
  <2>1. registry' = registry
    BY <1>2 DEF Finish, registryVars
  <2>2. QED
    BY <2>1 DEF Inv, Services, InOrder
<1>3. ASSUME NEW t \in Runners, Leave(t) PROVE InOrder'
  BY <1>3 DEF Leave, Goto, lifeVars, registryVars, mainVars, workVars, Inv,
       Services, InOrder
<1>4. ASSUME NEW t \in Runners, Insert(t) PROVE InOrder'
  <2>0. PICK e : e = Head(building[t]).key
    OBVIOUS
  <2>1. /\ IF Has(e)
             THEN registry' = registry ELSE registry' = <<e>> \o registry
        /\ e \in Keys /\ registry \in Seq(Keys) /\ Len(registry) \in Nat
        /\ \A k \in Needs[e] : Has(k)
    BY <1>4, <2>0, Inserting DEF Inv, TypeOK
  <2>2. CASE Has(e)
    BY <2>1, <2>2 DEF InOrder, Inv, Services
  <2>3. CASE ~Has(e)
    <3>1. /\ Len(registry') = Len(registry) + 1 /\ registry'[1] = e
          /\ \A i \in 1 .. Len(registry) : registry'[i + 1] = registry[i]
      BY <2>1, <2>3, InFront
    <3>2. \A i \in 1 .. Len(registry') :
            \/ i = 1 /\ registry'[i] = e
            \/ /\ i - 1 \in 1 .. Len(registry) /\ i > 1
               /\ registry'[i] = registry[i - 1] /\ registry'[i] # e
      <4>1. TAKE i \in 1 .. Len(registry')
      <4>2. CASE i = 1
        BY <3>1, <4>2
      <4>3. CASE i # 1
        <5>1. i - 1 \in 1 .. Len(registry) /\ i > 1 /\ (i - 1) + 1 = i
          BY <2>1, <3>1, <4>3
        <5>2. registry'[i] = registry[i - 1]
          BY <3>1, <5>1
        <5>3. registry[i - 1] # e
          BY <2>1, <2>3, <5>1, HasAt
        <5>4. QED
          BY <5>1, <5>2, <5>3
      <4>4. QED
        BY <4>2, <4>3
    <3>3. ASSUME NEW i \in 1 .. Len(registry'), NEW j \in 1 .. Len(registry'),
                 registry'[j] = registry'[i]
          PROVE  j = i
      <4>1. CASE i = 1 \/ j = 1
        BY <3>2, <3>3, <4>1
      <4>2. CASE i # 1 /\ j # 1
        <5>1. i - 1 \in 1 .. Len(registry) /\ j - 1 \in 1 .. Len(registry)
              /\ registry[j - 1] = registry[i - 1]
          BY <3>2, <3>3, <4>2
        <5>2. j - 1 = i - 1
          BY <5>1 DEF Inv, Services, InOrder
        <5>3. QED
          BY <5>2
      <4>3. QED
        BY <4>1, <4>2
    <3>4. ASSUME NEW i \in 1 .. Len(registry'), NEW k \in Needs[registry'[i]]
          PROVE  \E j \in 1 .. Len(registry') : j > i /\ registry'[j] = k
      <4>1. CASE i = 1
        <5>1. k \in Needs[e]
          BY <3>1, <4>1
        <5>2. PICK n \in 1 .. Len(registry) : registry[n] = k
          BY <2>1, <5>1, HasAt
        <5>3. n + 1 \in 1 .. Len(registry') /\ n + 1 > i /\ registry'[n + 1] = k
          BY <2>1, <3>1, <4>1, <5>2
        <5>4. QED
          BY <5>3
      <4>2. CASE i # 1
        <5>1. i - 1 \in 1 .. Len(registry) /\ k \in Needs[registry[i - 1]]
          BY <3>2, <4>2, <3>4
        <5>2. PICK n \in 1 .. Len(registry) : n > i - 1 /\ registry[n] = k
          BY <5>1 DEF Inv, Services, InOrder
        <5>3. n + 1 \in 1 .. Len(registry') /\ n + 1 > i /\ registry'[n + 1] = k
          BY <2>1, <3>1, <5>1, <5>2
        <5>4. QED
          BY <5>3
      <4>3. QED
        BY <4>1, <4>2
    <3>5. QED
      BY <3>3, <3>4 DEF InOrder
  <2>4. QED
    BY <2>2, <2>3
<1>5. ASSUME NEW t \in Runners, Run(t) PROVE InOrder'
  <2>1. registry' = registry
    BY <1>5 DEF Run, registryVars
  <2>2. QED
    BY <2>1 DEF Inv, Services, InOrder
<1>6. ASSUME NEW t \in Runners, NEW o \in Ops, Start(t, o) PROVE InOrder'
  BY <1>6 DEF Start, Goto, Makes, lifeVars, registryVars, mainVars, runVars,
       workVars, Inv, Services, InOrder
<1>7. ASSUME NEW t \in Runners, NEW o \in Ops, Post(t, o) PROVE InOrder'
  <2>1. registry' = registry
    BY <1>7 DEF Post, registryVars
  <2>2. QED
    BY <2>1 DEF Inv, Services, InOrder
<1>8. ASSUME NEW t \in Runners, NEW o \in Ops, Resolve(t, o) PROVE InOrder'
  BY <1>8 DEF Resolve, Submits, CanCall, LookupUnit, lifeVars, registryVars,
       runVars, Inv, Services, InOrder
<1>9. ASSUME NEW t \in Runners, NEW k \in Keys, UseService(t, k) PROVE InOrder'
  BY <1>9 DEF UseService, Ask, CanCall, lifeVars, mainVars, runVars, workVars,
       Inv, Services, InOrder
<1>10. ASSUME NEW t \in Runners, NEW k \in Keys, UseServiceNested(t, k)
       PROVE InOrder'
  BY <1>10 DEF UseServiceNested, Ask, lifeVars, mainVars, runVars, workVars,
       Inv, Services, InOrder
<1>11. ASSUME NEW p \in Procs, StopIdle(p) PROVE InOrder'
  BY <1>11 DEF StopIdle, Goto, Makes, lifeVars, registryVars, mainVars,
       runVars, workVars, Inv, Services, InOrder
<1>12. ASSUME WorkerEnter PROVE InOrder'
  BY <1>12 DEF WorkerEnter, lifeVars, registryVars, mainVars, runVars, Inv,
       Services, InOrder
<1>13. ASSUME WorkerHandBack PROVE InOrder'
  BY <1>13 DEF WorkerHandBack, lifeVars, registryVars, mainVars, runVars, Inv,
       Services, InOrder
<1>14. ASSUME WorkerLeave PROVE InOrder'
  BY <1>14 DEF WorkerLeave, lifeVars, registryVars, mainVars, runVars, Inv,
       Services, InOrder
<1>15. ASSUME NEW o \in Ops, WorkerTake(o) PROVE InOrder'
  BY <1>15 DEF WorkerTake, lifeVars, registryVars, mainVars, runVars, Inv,
       Services, InOrder
<1>16. ASSUME DestroyJoins PROVE InOrder'
  BY <1>16 DEF DestroyJoins, ReleaseAndJoin, GiveUnit, NoneLeft, Goto,
       lifeVars, registryVars, workVars, Inv, Services, InOrder
<1>17. ASSUME Joined PROVE InOrder'
  BY <1>17
     DEF Joined, Goto, lifeVars, registryVars, workVars, Inv, Services, InOrder
<1>18. ASSUME ForkDone PROVE InOrder'
  BY <1>18 DEF ForkDone, WorkerGone, Goto, lifeVars, registryVars, mainVars,
       Inv, Services, InOrder
<1>19. ASSUME EndResolver PROVE InOrder'
  BY <1>19 DEF EndResolver, Unended, Goto, lifeVars, registryVars, mainVars,
       Inv, Services, InOrder
<1>20. ASSUME EndResolverJoined PROVE InOrder'
  BY <1>20 DEF EndResolverJoined, DestroyAll, WorkerGone, Goto, lifeVars,
       mainVars, Inv, Services, InOrder
<1>21. ASSUME DestroyService PROVE InOrder'
  <2>1. /\ registry \in Seq(Keys) /\ registry # <<>>
        /\ registry' = Tail(registry)
    BY <1>21 DEF DestroyService, Inv, TypeOK, Services, SchedulerLast
  <2>2. /\ Len(registry') = Len(registry) - 1 /\ Len(registry) \in Nat \ {0}
        /\ \A i \in 1 .. Len(registry') :
             registry'[i] = registry[i + 1] /\ i + 1 \in 1 .. Len(registry)
    BY <2>1, Behind
  <2>3. ASSUME NEW i \in 1 .. Len(registry'), NEW j \in 1 .. Len(registry'),
               registry'[j] = registry'[i]
        PROVE  j = i
    <3>3. i + 1 \in 1 .. Len(registry) /\ j + 1 \in 1 .. Len(registry)
          /\ registry[j + 1] = registry[i + 1]
      BY <2>2, <2>3
    <3>1. j + 1 = i + 1
      BY <3>3 DEF Inv, Services, InOrder
    <3>2. QED
      BY <3>1
  <2>4. ASSUME NEW i \in 1 .. Len(registry'), NEW k \in Needs[registry'[i]]
        PROVE  \E j \in 1 .. Len(registry') : j > i /\ registry'[j] = k
    <3>1. PICK n \in 1 .. Len(registry) : n > i + 1 /\ registry[n] = k
      BY <2>2, <2>4 DEF Inv, Services, InOrder
    <3>2. n - 1 \in 1 .. Len(registry') /\ n - 1 > i /\ (n - 1) + 1 = n
      BY <2>2, <3>1
    <3>3. registry'[n - 1] = k
      BY <2>2, <3>1, <3>2
    <3>4. QED
      BY <3>2, <3>3
  <2>5. QED
    BY <2>3, <2>4 DEF InOrder
<1>22. ASSUME NEW k \in Keys, EndService(k) PROVE InOrder'
  BY <1>22 DEF EndService, Unended, DestroyAll, lifeVars, mainVars, runVars,
       workVars, Inv, Services, InOrder
<1>23. ASSUME Stop PROVE InOrder'
  BY <1>23 DEF Stop, OwnerFree, Makes, lifeVars, registryVars, runVars,
       workVars, Inv, Services, InOrder
<1>24. ASSUME Join PROVE InOrder'
  BY <1>24 DEF Join, ReleaseAndJoin, GiveUnit, NoneLeft, OwnerFree, Goto,
       Makes, lifeVars, registryVars, workVars, Inv, Services, InOrder
<1>25. ASSUME Wait PROVE InOrder'
  BY <1>25 DEF Wait, ReleaseAndJoin, GiveUnit, NoneLeft, OwnerFree, Goto,
       Makes, lifeVars, registryVars, workVars, Inv, Services, InOrder
<1>26. ASSUME Destroy PROVE InOrder'
  BY <1>26 DEF Destroy, OwnerFree, UsersOut, Goto, Makes, lifeVars,
       registryVars, mainVars, runVars, workVars, Inv, Services, InOrder
<1>27. ASSUME ForkPrepare PROVE InOrder'
  BY <1>27 DEF ForkPrepare, OwnerFree, UsersOut, Goto, Makes, registryVars,
       mainVars, Inv, Services, InOrder
<1>28. CASE UNCHANGED vars
  BY <1>28 DEF vars, registryVars, Inv, Services, InOrder
<1>29. QED
  BY <1>1, <1>2, <1>3, <1>4, <1>5, <1>6, <1>7, <1>8, <1>9, <1>10, <1>11,
       <1>12, <1>13, <1>14, <1>15, <1>16, <1>17, <1>18, <1>19, <1>20, <1>21,
       <1>22, <1>23, <1>24, <1>25, <1>26, <1>27, <1>28 DEF Next, ThreadStep,
       WorkerStep, OwnerStep, Procs

\* The scheduler, which needs nobody, is the oldest service.
LEMMA NextSchedulerLast == Inv /\ [Next]_vars => SchedulerLast'
<1> SUFFICES ASSUME Inv, [Next]_vars PROVE SchedulerLast'
  OBVIOUS
<1> USE ContextAssumption DEF ContextAssumption, TypeOK, Procs, Runners,
      SchedulerLast
<1>1. ASSUME NEW t \in Runners, Enter(t) PROVE SchedulerLast'
  BY <1>1 DEF Enter, Goto, lifeVars, registryVars, mainVars, workVars, Inv,
       Services, Control
<1>2. ASSUME NEW t \in Runners, Finish(t) PROVE SchedulerLast'
  BY <1>2 DEF Finish, NoneLeft, Goto, Makes, lifeVars, registryVars, mainVars,
       runVars, workVars, Inv, Services, OwnerPlaces, RunnerPlaces, Control
<1>3. ASSUME NEW t \in Runners, Leave(t) PROVE SchedulerLast'
  BY <1>3 DEF Leave, Goto, lifeVars, registryVars, mainVars, workVars, Inv,
       Services, Control
<1>4. ASSUME NEW t \in Runners, Insert(t) PROVE SchedulerLast'
  <2>0. PICK e : e = Head(building[t]).key
    OBVIOUS
  <2>1. /\ registry' = registry \/ registry' = <<e>> \o registry
        /\ e \in Keys /\ registry \in Seq(Keys) /\ pc' = pc
        /\ pc[Owner] # "gone"
    BY <1>4, <2>0, Inserting DEF Inv, TypeOK, Late
  <2>2. /\ registry # <<>> /\ registry[Len(registry)] = "scheduler"
        /\ Len(registry) \in 1 .. Len(registry)
    BY <2>1 DEF Inv, Services
  <2>3. CASE registry' = <<e>> \o registry
    <3>1. /\ Len(registry') = Len(registry) + 1
          /\ registry'[Len(registry) + 1] = registry[Len(registry)]
      BY <2>1, <2>2, <2>3, InFront
    <3>2. registry' # <<>>
      BY <2>2, <3>1
    <3>3. QED
      BY <2>1, <2>2, <3>1, <3>2
  <2>4. QED
    BY <2>1, <2>2, <2>3
<1>5. ASSUME NEW t \in Runners, Run(t) PROVE SchedulerLast'
  BY <1>5 DEF Run, Goto, Makes, lifeVars, registryVars, mainVars, workVars,
       Inv, Services, Control
<1>6. ASSUME NEW t \in Runners, NEW o \in Ops, Start(t, o) PROVE SchedulerLast'
  BY <1>6 DEF Start, Goto, Makes, lifeVars, registryVars, mainVars, runVars,
       workVars, Inv, Services, OwnerPlaces, RunnerPlaces, Control
<1>7. ASSUME NEW t \in Runners, NEW o \in Ops, Post(t, o) PROVE SchedulerLast'
  BY <1>7 DEF Post, Submits, CanCall, lifeVars, registryVars, runVars,
       workVars, Inv, Services, Control
<1>8. ASSUME NEW t \in Runners, NEW o \in Ops, Resolve(t, o)
      PROVE SchedulerLast'
  BY <1>8 DEF Resolve, Submits, CanCall, LookupUnit, lifeVars, registryVars,
       runVars, Inv, Services, Control
<1>9. ASSUME NEW t \in Runners, NEW k \in Keys, UseService(t, k)
      PROVE SchedulerLast'
  BY <1>9 DEF UseService, Ask, CanCall, lifeVars, mainVars, runVars, workVars,
       Inv, Services, Control
<1>10. ASSUME NEW t \in Runners, NEW k \in Keys, UseServiceNested(t, k)
       PROVE SchedulerLast'
  BY <1>10 DEF UseServiceNested, Ask, lifeVars, mainVars, runVars, workVars,
       Inv, Services, Control
<1>11. ASSUME NEW p \in Procs, StopIdle(p) PROVE SchedulerLast'
  BY <1>11 DEF StopIdle, Goto, Makes, lifeVars, registryVars, mainVars,
       runVars, workVars, Inv, Services, OwnerPlaces, RunnerPlaces, Control
<1>12. ASSUME WorkerEnter PROVE SchedulerLast'
  BY <1>12 DEF WorkerEnter, lifeVars, registryVars, mainVars, runVars, Inv,
       Services, Control
<1>13. ASSUME WorkerHandBack PROVE SchedulerLast'
  BY <1>13 DEF WorkerHandBack, lifeVars, registryVars, mainVars, runVars, Inv,
       Services, Control
<1>14. ASSUME WorkerLeave PROVE SchedulerLast'
  BY <1>14 DEF WorkerLeave, lifeVars, registryVars, mainVars, runVars, Inv,
       Services, Control
<1>15. ASSUME NEW o \in Ops, WorkerTake(o) PROVE SchedulerLast'
  BY <1>15 DEF WorkerTake, lifeVars, registryVars, mainVars, runVars, Inv,
       Services, Control
<1>16. ASSUME DestroyJoins PROVE SchedulerLast'
  BY <1>16 DEF DestroyJoins, ReleaseAndJoin, GiveUnit, NoneLeft, Goto,
       lifeVars, registryVars, workVars, Inv, Services, Control
<1>17. ASSUME Joined PROVE SchedulerLast'
  BY <1>17
     DEF Joined, Goto, lifeVars, registryVars, workVars, Inv, Services, Control
<1>18. ASSUME ForkDone PROVE SchedulerLast'
  BY <1>18 DEF ForkDone, WorkerGone, Goto, lifeVars, registryVars, mainVars,
       Inv, Services, Control
<1>19. ASSUME EndResolver PROVE SchedulerLast'
  BY <1>19 DEF EndResolver, Unended, Goto, lifeVars, registryVars, mainVars,
       Inv, Services, Control
<1>20. ASSUME EndResolverJoined PROVE SchedulerLast'
  BY <1>20 DEF EndResolverJoined, DestroyAll, WorkerGone, Goto, lifeVars,
       mainVars, Inv, Services, Control
<1>21. ASSUME DestroyService PROVE SchedulerLast'
  <2>1. /\ registry \in Seq(Keys) /\ registry # <<>>
        /\ registry' = Tail(registry)
        /\ registry[Len(registry)] = "scheduler"
        /\ pc'[Owner] = IF registry' = <<>> THEN "gone" ELSE "shutdown"
    BY <1>21 DEF DestroyService, Goto, Inv, TypeOK, Services, SchedulerLast
  <2>2. /\ Len(registry') = Len(registry) - 1 /\ Len(registry) \in Nat \ {0}
        /\ registry' \in Seq(Keys)
        /\ \A i \in 1 .. Len(registry') : registry'[i] = registry[i + 1]
    BY <2>1, Behind
  <2>3. CASE registry' # <<>>
    <3>1. /\ Len(registry') \in 1 .. Len(registry')
          /\ Len(registry') + 1 = Len(registry)
      BY <2>2, <2>3
    <3>2. registry'[Len(registry')] = "scheduler"
      BY <2>1, <2>2, <3>1
    <3>3. QED
      BY <2>1, <2>3, <3>2
  <2>4. QED
    BY <2>1, <2>3
<1>22. ASSUME NEW k \in Keys, EndService(k) PROVE SchedulerLast'
  BY <1>22 DEF EndService, Unended, DestroyAll, lifeVars, mainVars, runVars,
       workVars, Inv, Services, Control
<1>23. ASSUME Stop PROVE SchedulerLast'
  BY <1>23 DEF Stop, OwnerFree, Makes, lifeVars, registryVars, runVars,
       workVars, Inv, Services, Control
<1>24. ASSUME Join PROVE SchedulerLast'
  BY <1>24 DEF Join, ReleaseAndJoin, GiveUnit, NoneLeft, OwnerFree, Goto,
       Makes, lifeVars, registryVars, workVars, Inv, Services, Control
<1>25. ASSUME Wait PROVE SchedulerLast'
  BY <1>25 DEF Wait, ReleaseAndJoin, GiveUnit, NoneLeft, OwnerFree, Goto,
       Makes, lifeVars, registryVars, workVars, Inv, Services, Control
<1>26. ASSUME Destroy PROVE SchedulerLast'
  BY <1>26 DEF Destroy, OwnerFree, UsersOut, Goto, Makes, lifeVars,
       registryVars, mainVars, runVars, workVars, Inv, Services, OwnerPlaces,
       RunnerPlaces, Control
<1>27. ASSUME ForkPrepare PROVE SchedulerLast'
  BY <1>27 DEF ForkPrepare, OwnerFree, UsersOut, Goto, Makes, registryVars,
       mainVars, Inv, Services, Control
<1>28. CASE UNCHANGED vars
  BY <1>28 DEF vars, Goto, Makes, lifeVars, registryVars, mainVars, runVars,
       workVars, Inv, Services, OwnerPlaces, RunnerPlaces, Control
<1>29. QED
  BY <1>1, <1>2, <1>3, <1>4, <1>5, <1>6, <1>7, <1>8, <1>9, <1>10, <1>11,
       <1>12, <1>13, <1>14, <1>15, <1>16, <1>17, <1>18, <1>19, <1>20, <1>21,
       <1>22, <1>23, <1>24, <1>25, <1>26, <1>27, <1>28 DEF Next, ThreadStep,
       WorkerStep, OwnerStep

\* When a service is next to end, those that need it have ended.
LEMMA NextToEnd ==
  ASSUME Inv, NEW e \in Keys, IsNext(e), ended' = ended \cup {e},
         registry' = registry
  PROVE  \A k \in Keys : Working(k)' => Working(k) /\ Needs[k] \cap ended' = {}
<1> SUFFICES ASSUME NEW k \in Keys, Working(k)'
             PROVE Working(k) /\ Needs[k] \cap ended' = {}
  OBVIOUS
<1>1. Working(k) /\ k # e
  BY DEF Working
<1>2. Needs[k] \cap ended = {}
  BY <1>1 DEF Inv, Services, Ending
<1>3. e \notin Needs[k]
  <2>1. SUFFICES ASSUME e \in Needs[k] PROVE FALSE
    OBVIOUS
  <2>2. registry \in Seq(Keys) /\ DOMAIN registry = 1 .. Len(registry)
    BY DEF Inv, TypeOK
  <2>3. PICK i \in 1 .. Len(registry) : registry[i] = k
    BY <1>1, <2>2, HasAt DEF Working, Has
  <2>4. PICK j \in 1 .. Len(registry) : j > i /\ registry[j] = e
    BY <2>1, <2>3 DEF Inv, Services, InOrder
  <2>5. k \in ended
    BY <2>2, <2>3, <2>4 DEF IsNext
  <2>6. QED
    BY <1>1, <2>5 DEF Working
<1>4. QED
  BY <1>1, <1>2, <1>3

\* Services end from the newest to the oldest.
LEMMA NextEnding == Inv /\ TypeOK' /\ [Next]_vars => Ending'
<1> SUFFICES ASSUME Inv, TypeOK', [Next]_vars PROVE Ending'
  OBVIOUS
<1> USE ContextAssumption DEF ContextAssumption, Procs, Runners
<1>1. ASSUME NEW t \in Runners, Enter(t) PROVE Ending'
  BY <1>1 DEF Enter, Goto, lifeVars, registryVars, mainVars, workVars, Inv,
       TypeOK, Services, Ending, Working, Late, IsNext, Control
<1>2. ASSUME NEW t \in Runners, Finish(t) PROVE Ending'
  BY <1>2 DEF Finish, NoneLeft, Goto, Makes, lifeVars, registryVars, mainVars,
       runVars, workVars, Inv, TypeOK, Services, Ending, Working, Late,
       IsNext, Has, OwnerPlaces, RunnerPlaces, Control
<1>3. ASSUME NEW t \in Runners, Leave(t) PROVE Ending'
  BY <1>3 DEF Leave, Goto, lifeVars, registryVars, mainVars, workVars, Inv,
       TypeOK, Services, Ending, Working, Late, IsNext, Control
<1>4. ASSUME NEW t \in Runners, Insert(t) PROVE Ending'
  <2>1. ended = {} /\ ~Late /\ ended' = {} /\ UNCHANGED <<pc, worker, status>>
    BY <1>4, Inserting
  <2>2. Working("resolver") => Working("resolver")'
    BY <1>4, <2>1, InsertKeeps, ContextAssumption
       DEF ContextAssumption, Working, Has
  <2>3. QED
    BY <2>1, <2>2 DEF Ending, Late, Inv, Services
<1>5. ASSUME NEW t \in Runners, Run(t) PROVE Ending'
  BY <1>5 DEF Run, Goto, Makes, lifeVars, registryVars, mainVars, workVars,
       Inv, TypeOK, Services, Ending, Working, Late, IsNext, Control
<1>6. ASSUME NEW t \in Runners, NEW o \in Ops, Start(t, o) PROVE Ending'
  BY <1>6 DEF Start, Goto, Makes, lifeVars, registryVars, mainVars, runVars,
       workVars, Inv, TypeOK, Services, Ending, Working, Late, IsNext, Has,
       OwnerPlaces, RunnerPlaces, Control
<1>7. ASSUME NEW t \in Runners, NEW o \in Ops, Post(t, o) PROVE Ending'
  BY <1>7 DEF Post, Submits, CanCall, lifeVars, registryVars, runVars,
       workVars, Inv, TypeOK, Services, Ending, Working, Late, IsNext, Control
<1>8. ASSUME NEW t \in Runners, NEW o \in Ops, Resolve(t, o) PROVE Ending'
  BY <1>8 DEF Resolve, Submits, CanCall, LookupUnit, lifeVars, registryVars,
       runVars, Inv, TypeOK, Services, Ending, Working, Late, IsNext, Has,
       Control
<1>9. ASSUME NEW t \in Runners, NEW k \in Keys, UseService(t, k) PROVE Ending'
  BY <1>9 DEF UseService, Ask, CanCall, lifeVars, mainVars, runVars, workVars,
       Inv, TypeOK, Services, Ending, Working, Late, IsNext, Has, Control
<1>10. ASSUME NEW t \in Runners, NEW k \in Keys, UseServiceNested(t, k)
       PROVE Ending'
  BY <1>10 DEF UseServiceNested, Ask, lifeVars, mainVars, runVars, workVars,
       Inv, TypeOK, Services, Ending, Working, Late, IsNext, Has, Control
<1>11. ASSUME NEW p \in Procs, StopIdle(p) PROVE Ending'
  BY <1>11 DEF StopIdle, Goto, Makes, lifeVars, registryVars, mainVars,
       runVars, workVars, Inv, TypeOK, Services, Ending, Working, Late,
       IsNext, Has, OwnerPlaces, RunnerPlaces, Control
<1>12. ASSUME WorkerEnter PROVE Ending'
  BY <1>12 DEF WorkerEnter, lifeVars, registryVars, mainVars, runVars, Inv,
       TypeOK, Services, Ending, Working, Late, IsNext, Control
<1>13. ASSUME WorkerHandBack PROVE Ending'
  BY <1>13 DEF WorkerHandBack, lifeVars, registryVars, mainVars, runVars, Inv,
       TypeOK, Services, Ending, Working, Late, IsNext, Control
<1>14. ASSUME WorkerLeave PROVE Ending'
  BY <1>14 DEF WorkerLeave, lifeVars, registryVars, mainVars, runVars, Inv,
       TypeOK, Services, Ending, Working, Late, IsNext, Control
<1>15. ASSUME NEW o \in Ops, WorkerTake(o) PROVE Ending'
  BY <1>15 DEF WorkerTake, lifeVars, registryVars, mainVars, runVars, Inv,
       TypeOK, Services, Ending, Working, Late, IsNext, Control
<1>16. ASSUME DestroyJoins PROVE Ending'
  BY <1>16 DEF DestroyJoins, ReleaseAndJoin, GiveUnit, NoneLeft, Goto,
       lifeVars, registryVars, workVars, Inv, TypeOK, Services, Ending,
       Working, Late, IsNext, Control
<1>17. ASSUME Joined PROVE Ending'
  BY <1>17 DEF Joined, Goto, lifeVars, registryVars, workVars, Inv, TypeOK,
       Services, Ending, Working, Late, IsNext, Control
<1>18. ASSUME ForkDone PROVE Ending'
  BY <1>18 DEF ForkDone, WorkerGone, Goto, lifeVars, registryVars, mainVars,
       Inv, TypeOK, Services, Ending, Working, Late, IsNext, Control
<1>19. ASSUME EndResolver PROVE Ending'
  BY <1>19 DEF EndResolver, Unended, Goto, lifeVars, registryVars, mainVars,
       Inv, TypeOK, Services, Ending, Working, Late, IsNext, Control
<1>20. ASSUME EndResolverJoined PROVE Ending'
  <2>1. /\ pc[Owner] = "joinWorker" /\ WorkerGone /\ worker' = "none"
        /\ ended' = ended \cup {"resolver"} /\ registry' = registry
        /\ pc'[Owner] = "shutdown" /\ DestroyAll("queued")
    BY <1>20 DEF EndResolverJoined, Goto, Inv, TypeOK
  <2>2. IsNext("resolver") /\ "resolver" \in Keys
    BY <2>1, ContextAssumption DEF ContextAssumption, Inv, Services, Ending
  <2>3. \A k \in Keys : Working(k)' => Needs[k] \cap ended' = {}
    BY <2>1, <2>2, NextToEnd
  <2>4. \A o \in Ops : status'[o] \notin {"queued", "lookup"}
    BY <2>1 DEF DestroyAll, WorkerGone, Inv, Work
  <2>5. QED
    BY <2>1, <2>3, <2>4 DEF Ending, Late
<1>21. ASSUME DestroyService PROVE Ending'
  <2>1. /\ pc[Owner] = "shutdown" /\ \A k \in Keys : ~Working(k)
        /\ ended' = ended /\ worker' = worker /\ registry' = Tail(registry)
        /\ DestroyAll("ready") \/ UNCHANGED status
        /\ pc'[Owner] \in {"gone", "shutdown"}
    BY <1>21 DEF DestroyService, Goto, workVars, Working, Inv, TypeOK
  <2>2. registry \in Seq(Keys) /\ registry' \in Seq(Keys) /\ registry # <<>>
    BY <1>21 DEF DestroyService, Inv, TypeOK, Services
  <2>3. \A k \in Keys : ~Working(k)'
    <3>1. SUFFICES ASSUME NEW k \in Keys, Has(k)' PROVE k \in ended
      BY <2>1 DEF Working, Has
    <3>2. PICK i \in 1 .. Len(registry') : registry'[i] = k
      BY <2>2, <3>1, HasAtNext
    <3>3. i + 1 \in 1 .. Len(registry) /\ registry[i + 1] = k
      BY <2>1, <2>2, <3>2, Behind
    <3>4. Has(k)
      BY <2>2, <3>3, HasAt
    <3>5. QED
      BY <2>1, <3>4 DEF Working, Has
  <2>4. "resolver" \in Keys
    BY ContextAssumption
  <2>5. worker = "none" /\ \A o \in Ops : status[o] \notin {"queued", "lookup"}
    BY <2>1, <2>4 DEF Inv, Services, Ending
  <2>6. \A o \in Ops : status'[o] \notin {"queued", "lookup"}
    BY <2>1, <2>5 DEF DestroyAll
  <2>7. QED
    BY <2>1, <2>3, <2>5, <2>6 DEF Ending, Late
<1>22. ASSUME NEW k \in Keys, EndService(k) PROVE Ending'
  <2>1. /\ pc[Owner] = "shutdown" /\ IsNext(k) /\ k # "resolver"
        /\ ended' = ended \cup {k} /\ registry' = registry
        /\ UNCHANGED <<pc, worker>>
        /\ DestroyAll("ready") \/ UNCHANGED status
    BY <1>22 DEF EndService, Unended, runVars, workVars
  <2>2. \A j \in Keys : Working(j)' => Needs[j] \cap ended' = {}
    BY <2>1, NextToEnd
  <2>3. Working("resolver") => Working("resolver")'
    BY <2>1 DEF Working
  <2>4. \A o \in Ops : status'[o] \in {"queued", "lookup"} =>
          status[o] = status'[o]
    BY <2>1 DEF DestroyAll
  <2>5. QED
    BY <2>1, <2>2, <2>3, <2>4 DEF Ending, Late, Inv, Services
<1>23. ASSUME Stop PROVE Ending'
  BY <1>23 DEF Stop, OwnerFree, Makes, lifeVars, registryVars, runVars,
       workVars, Inv, TypeOK, Services, Ending, Working, Late, IsNext, Control
<1>24. ASSUME Join PROVE Ending'
  BY <1>24 DEF Join, ReleaseAndJoin, GiveUnit, NoneLeft, OwnerFree, Goto,
       Makes, lifeVars, registryVars, workVars, Inv, TypeOK, Services, Ending,
       Working, Late, IsNext, Control
<1>25. ASSUME Wait PROVE Ending'
  BY <1>25 DEF Wait, ReleaseAndJoin, GiveUnit, NoneLeft, OwnerFree, Goto,
       Makes, lifeVars, registryVars, workVars, Inv, TypeOK, Services, Ending,
       Working, Late, IsNext, Control
<1>26. ASSUME Destroy PROVE Ending'
  BY <1>26 DEF Destroy, OwnerFree, UsersOut, Goto, Makes, lifeVars,
       registryVars, mainVars, runVars, workVars, Inv, TypeOK, Services,
       Ending, Working, Late, IsNext, Has, OwnerPlaces, RunnerPlaces, Control
<1>27. ASSUME ForkPrepare PROVE Ending'
  BY <1>27 DEF ForkPrepare, OwnerFree, UsersOut, Goto, Makes, registryVars,
       mainVars, Inv, TypeOK, Services, Ending, Working, Late, IsNext, Control
<1>28. CASE UNCHANGED vars
  BY <1>28 DEF vars, Goto, Makes, lifeVars, registryVars, mainVars, runVars,
       workVars, Inv, TypeOK, Services, Ending, Working, Late, IsNext, Has,
       OwnerPlaces, RunnerPlaces, Control
<1>29. QED
  BY <1>1, <1>2, <1>3, <1>4, <1>5, <1>6, <1>7, <1>8, <1>9, <1>10, <1>11,
       <1>12, <1>13, <1>14, <1>15, <1>16, <1>17, <1>18, <1>19, <1>20, <1>21,
       <1>22, <1>23, <1>24, <1>25, <1>26, <1>27, <1>28 DEF Next, ThreadStep,
       WorkerStep, OwnerStep

----------------------------------------------------------------------------
(* The invariant *)

LEMMA InitInv == Init => Inv
<1> SUFFICES ASSUME Init PROVE Inv
  OBVIOUS
<1> USE ContextAssumption DEF ContextAssumption, Init
<1>1. registry \in Seq(Keys) /\ Len(registry) = 1 /\ registry[1] = "scheduler"
  OBVIOUS
<1>2. building \in [Runners -> Seq(Frames)] /\
        \A t \in Runners : Len(building[t]) = 0
  <2>1. <<>> \in Seq(Frames) /\ Len(<<>>) = 0
    OBVIOUS
  <2> HIDE DEF Frames, Runners
  <2>2. building = [t \in Runners |-> <<>>]
    OBVIOUS
  <2>3. QED
    BY <2>1, <2>2, Zenon
<1>3. /\ pc \in [Procs -> {"enter", "out"}] /\ pc[Owner] = "out"
      /\ \A t \in Runners : pc[t] = IF t \in program.threads
             THEN "enter" ELSE "out"
  BY DEF Procs, Runners
<1>4. /\ program \in Programs /\ program.threads \subseteq PoolThreads
      /\ program.threads # {} => program.pool
      /\ program.pool \in BOOLEAN
  OBVIOUS
<1>5. running \in [Runners -> Ops \cup {NoOp}] /\ status \in [Ops -> Statuses]
  BY DEF Statuses
<1>6. TypeOK
  <2>1. /\ pc \in [Procs -> OwnerPlaces \cup RunnerPlaces]
        /\ pc[Owner] \in OwnerPlaces
        /\ \A t \in Runners : pc[t] \in RunnerPlaces
    BY <1>3 DEF OwnerPlaces, RunnerPlaces
  <2>2. /\ ended \in SUBSET Keys /\ count \in Int /\ workCount \in Int
        /\ threads \in SUBSET program.threads
    OBVIOUS
  <2>3. /\ stopped \in BOOLEAN /\ stopCalled \in BOOLEAN /\ unit \in BOOLEAN
        /\ workStopped \in BOOLEAN /\ ending \in BOOLEAN /\ forked \in BOOLEAN
    BY <1>4
  <2>4. /\ worker \in {"none", "enter", "loop", "lookup", "exited"}
        /\ lookingUp \in Ops \cup {NoOp} /\ promised \in SUBSET Ops
    OBVIOUS
  <2> HIDE DEF Init
  <2>5. QED
    BY <1>1, <1>2, <1>4, <1>5, <2>1, <2>2, <2>3, <2>4, Zenon DEF TypeOK
<1>7. Control
  BY <1>2, <1>3, <1>4 DEF Control, Late, Runners
<1>8. Services
  <2>1. Given
    <3>1. \A t \in Runners : \A i \in 1 .. Len(building[t]) : FALSE
      BY <1>2
    <3>2. QED
      BY <3>1 DEF Given
  <2>2. InOrder
    <3>1. \A i \in 1 .. Len(registry) : i = 1 /\ registry[i] = "scheduler"
      BY <1>1
    <3>2. QED
      BY <3>1 DEF InOrder
  <2>3. SchedulerLast
    BY <1>1, <1>3 DEF SchedulerLast
  <2>4. Ending
    BY <1>3 DEF Ending
  <2>5. QED
    BY <2>1, <2>2, <2>3, <2>4 DEF Services
<1>9. Work
  BY <1>3, <1>4 DEF Work
<1>10. Active = {}
  BY DEF Active
<1>11. Counts
  BY <1>10, FS_EmptySet DEF Counts
<1>12. Rest
  BY <1>3 DEF Rest, Settled
<1>13. QED
  BY <1>6, <1>7, <1>8, <1>9, <1>11, <1>12 DEF Inv

LEMMA NextInv == Inv /\ [Next]_vars => Inv'
<1> SUFFICES ASSUME Inv, [Next]_vars PROVE Inv'
  OBVIOUS
<1>1. TypeOK' /\ Control' /\ Work' /\ Counts'
  BY NextType, NextControl, NextWork, NextCounts
<1>2. Rest'
  BY <1>1, NextRest
<1>3. Services'
  BY <1>1, NextGiven, NextInOrder, NextSchedulerLast, NextEnding DEF Services
<1>4. QED
  BY <1>1, <1>2, <1>3 DEF Inv

LEMMA SpecInv == Spec => []Inv
BY InitInv, NextInv, PTL DEF Spec

----------------------------------------------------------------------------
(* Theorems *)

\* There is one service of each kind, and what a service needs is older:
\* do_use_service makes a service without the mutex and looks again.
THEOREM ServicesInOrderAlways == Spec => []ServicesInOrder
<1>1. Inv => ServicesInOrder
  <2>1. TypeOK => DOMAIN registry = 1 .. Len(registry)
    OBVIOUS
  <2>2. QED
    BY <2>1 DEF Inv, Services, InOrder, ServicesInOrder
<1>2. QED
  BY <1>1, SpecInv, PTL

\* shutdown_services and destroy_services end no service that another needs,
\* nor the scheduler under the resolver's thread, and leave no operation.
THEOREM EndsCleanlyAlways == Spec => []EndsCleanly
<1>1. Inv => EndsCleanly
  <2> SUFFICES ASSUME Inv PROVE EndsCleanly
    OBVIOUS
  <2>1. /\ registry \in Seq(Keys) /\ "resolver" \in Keys
        /\ "scheduler" \in Needs["resolver"]
    BY ContextAssumption DEF ContextAssumption, Inv, TypeOK
  <2>2. \A k \in ToSet(registry) \ ended : k \in Keys /\ Working(k)
    BY <2>1, HasAt DEF Has, Working
  <2>3. \A k \in ToSet(registry) \ ended : Needs[k] \cap ended = {}
    BY <2>2 DEF Inv, Services, Ending
  <2>4. ~WorkerGone => "scheduler" \notin ended
    BY <2>1 DEF WorkerGone, Inv, Services, Ending
  <2>5. ASSUME pc[Owner] = "gone"
        PROVE  worker = "none" /\ \A o \in Ops : status[o] \in
            {"new", "done", "destroyed"}
    <3>1. \A k \in Keys : ~Working(k)
      BY <2>5 DEF Inv, Services, SchedulerLast, Working, ToSet
    <3>2. worker = "none" /\ \A o \in Ops : status[o] \notin
            {"queued", "lookup"}
      BY <2>1, <3>1 DEF Inv, Services, Ending
    <3>3. \A t \in Runners : pc[t] = "out"
      BY <2>5, NobodyIn DEF Late
    <3>4. \A o \in Ops : status[o] \notin {"running", "ready"}
      BY <2>5, <3>3, ContextAssumption DEF ContextAssumption, Inv, Work
    <3>5. QED
      BY <3>2, <3>4 DEF Inv, TypeOK, Statuses
  <2>6. QED
    BY <2>3, <2>4, <2>5 DEF EndsCleanly
<1>2. QED
  BY <1>1, SpecInv, PTL

\* join() and wait() of a pool that has threads of its own return, if nobody has
\* called stop(), when all that was submitted before is done, and all that the
\* handlers of it began.
THEOREM JoinedMeansDoneAlways == Spec => []JoinedMeansDone
<1>1. Inv => JoinedMeansDone
  <2> SUFFICES ASSUME Inv, program.threads # {}, threads = {}, ~stopCalled
               PROVE  \A o \in promised : status[o] = "done"
    BY DEF JoinedMeansDone
  <2>1. program.pool /\ program.threads \subseteq PoolThreads
    BY ContextAssumption DEF ContextAssumption, Inv, TypeOK
  <2>2. stopped
    BY <2>1 DEF Inv, Control
  <2>3. QED
    BY <2>1, <2>2 DEF Inv, Rest, Settled
<1>2. QED
  BY <1>1, SpecInv, PTL

----------------------------------------------------------------------------
(* The context implements Executor *)

Seen == [o \in Ops |-> IF status[o] \in {"queued", "lookup", "ready"}
                         THEN "pending" ELSE status[o]]
Deciding == {p \in Procs : pc[p] = "stop"}
AbstractStep == Abstract!Next \/ UNCHANGED Abstract!vars

\* The Executor is idle when no operation is under way.
LEMMA IdleIsQuiet == Inv => (Abstract!Idle <=> Quiet)
BY DEF Abstract!Idle, Quiet, Active, Inv, TypeOK, Statuses

\* The last unit of work is gone when the count says so.
LEMMA IdleIsZero == Inv /\ ~Late => (Abstract!Idle <=> count = 0)
BY IdleIsQuiet, NothingCounted DEF Inv

LEMMA IdleIsZeroNext == (Inv /\ ~Late => (Abstract!Idle <=> count = 0))'
BY IdleIsZero, PTL

\* A step that the Executor does not see.
LEMMA Stutter ==
  ASSUME Seen' = Seen, Deciding' = Deciding, UNCHANGED <<running, unit,
         stopped>>
  PROVE  AbstractStep
BY DEF AbstractStep, Abstract!vars, Seen, Deciding

\* An operation starts: the Executor accepts it.
LEMMA SubmitStep ==
  ASSUME Inv, NEW o \in Ops, status[o] = "new", NEW how \in {"ready", "queued"},
         status' = [status EXCEPT ![o] = how],
         UNCHANGED <<running, unit, stopped, pc>>
  PROVE  AbstractStep
<1>1. /\ Seen[o] = "new" /\ Seen' = [Seen EXCEPT ![o] = "pending"]
      /\ Deciding' = Deciding
  BY DEF Seen, Deciding, Inv, TypeOK
<1>2. Abstract!Submit(o)
  BY <1>1 DEF Abstract!Submit, Seen
<1>3. QED
  BY <1>2 DEF AbstractStep, Abstract!Next

\* The pool gives up its unit of work.
LEMMA ReleaseStep ==
  ASSUME Inv, Inv', unit, ~Late, ReleaseAndJoin, UNCHANGED stopped,
         pc[Owner] \in {"out", "release"}
  PROVE  AbstractStep
<1>1. /\ unit' = FALSE /\ UNCHANGED <<running, status>>
      /\ pc' = [pc EXCEPT ![Owner] =
                    IF count' = 0 THEN "stop" ELSE "join"]
  BY DEF ReleaseAndJoin, Goto, NoneLeft
<1>2. ~Late'
  BY <1>1 DEF Late, Inv
<1>3. Abstract!Idle' <=> count' = 0
  BY <1>2, IdleIsZeroNext
<1>4. Seen' = Seen /\ Owner \in Procs
  BY <1>1 DEF Seen, Procs
<1>5. Deciding' = IF Abstract!Idle' THEN Deciding \cup {Owner} ELSE Deciding
  <2>1. Deciding' = IF count' = 0 THEN Deciding \cup {Owner} ELSE Deciding
    BY <1>1, <1>4 DEF Deciding, Inv, TypeOK
  <2>2. QED
    BY <1>3, <2>1
<1>6. Abstract!Release(Owner)
  BY <1>1, <1>4, <1>5 DEF Abstract!Release, Seen, Deciding
<1>7. QED
  BY <1>4, <1>6 DEF AbstractStep, Abstract!Next

\* Operations are destroyed when the services end.
LEMMA DestroyStep ==
  ASSUME Inv, Late, NEW what \in {"queued", "ready"}, DestroyAll(what),
         Deciding' = Deciding, UNCHANGED <<running, unit, stopped>>
  PROVE  AbstractStep
<1>1. PICK S \in SUBSET Ops : S = {o \in Ops : status[o] = what}
  OBVIOUS
<1>2. \A o \in S : Seen[o] = "pending"
  BY <1>1 DEF Seen
<1>3. \A t \in Runners : running[t] = NoOp
  BY NobodyIn DEF Inv, Work
<1>4. Seen' = [o \in Ops |-> IF o \in S THEN "destroyed" ELSE Seen[o]]
  BY <1>1 DEF Seen, DestroyAll
<1>5. Abstract!Destroy(S)
  BY <1>2, <1>3, <1>4 DEF Abstract!Destroy, Seen, Deciding
<1>6. QED
  BY <1>5 DEF AbstractStep, Abstract!Next

\* Every step is one of the Executor, or one that it does not see.
LEMMA NextImplements == Inv /\ Inv' /\ [Next]_vars => AbstractStep
<1> SUFFICES ASSUME Inv, Inv', [Next]_vars PROVE AbstractStep
  OBVIOUS
<1>1. ASSUME NEW t \in Runners, Enter(t) PROVE AbstractStep
  <2>1. /\ pc[t] = "enter"
        /\ pc' = [pc EXCEPT ![t] = IF count = 0 THEN "stop" ELSE "loop"]
        /\ t \in Procs /\ UNCHANGED <<status, running, unit, stopped>>
    BY <1>1 DEF Enter, Goto, mainVars, Procs
  <2>2. ~Late
    BY <2>1 DEF Late, Inv, Control, Runners
  <2>3. CASE count = 0
    <3>1. Abstract!Idle
      BY <2>2, <2>3, IdleIsZero
    <3>2. Deciding' = Deciding \cup {t} /\ Seen' = Seen
      BY <2>1, <2>3 DEF Deciding, Seen, Inv, TypeOK
    <3>3. Abstract!FindIdle(t)
      BY <2>1, <3>1, <3>2 DEF Abstract!FindIdle, Seen, Deciding
    <3>4. QED
      BY <2>1, <3>3 DEF AbstractStep, Abstract!Next
  <2>4. CASE count # 0
    <3>1. Deciding' = Deciding /\ Seen' = Seen
      BY <2>1, <2>4 DEF Deciding, Seen, Inv
    <3>2. QED
      BY <2>1, <3>1, Stutter
  <2>5. QED
    BY <2>3, <2>4
<1>2. ASSUME NEW t \in Runners, Finish(t) PROVE AbstractStep
  <2> DEFINE o == running[t]
  <2>1. /\ o \in Ops /\ status[o] = "running" /\ pc[t] = "handler" /\ o # NoOp
        /\ t \in Procs
    BY <1>2, ContextAssumption
       DEF ContextAssumption, Finish, Inv, TypeOK, Work, Procs
  <2>2. /\ status' = [status EXCEPT ![o] = "done"]
        /\ running' = [running EXCEPT ![t] = NoOp]
        /\ pc' = [pc EXCEPT ![t] = IF count' = 0 THEN "stop" ELSE "loop"]
        /\ UNCHANGED <<unit, stopped>>
    BY <1>2 DEF Finish, Goto, NoneLeft
  <2>3. pc'[Owner] = pc[Owner]
    BY <2>1, <2>2, ContextAssumption
  <2>4. ~Late'
    BY <2>1, <2>3 DEF Late, Inv, Control, Runners
  <2>5. Abstract!Idle' <=> count' = 0
    BY <2>4, IdleIsZeroNext
  <2>6. Deciding' = IF count' = 0 THEN Deciding \cup {t} ELSE Deciding
    BY <2>1, <2>2 DEF Deciding, Inv, TypeOK
  <2>7. Deciding' = IF Abstract!Idle' THEN Deciding \cup {t} ELSE Deciding
    BY <2>5, <2>6
  <2>8. Seen' = [Seen EXCEPT ![o] = "done"]
    BY <2>1, <2>2 DEF Seen, Inv, TypeOK
  <2>9. Abstract!Finish(t)
    BY <2>1, <2>2, <2>7, <2>8 DEF Abstract!Finish, Seen, Deciding
  <2>10. QED
    BY <2>9 DEF AbstractStep, Abstract!Next
<1>3. ASSUME NEW t \in Runners, Leave(t) PROVE AbstractStep
  <2>1. Seen' = Seen /\ Deciding' = Deciding
    BY <1>3 DEF Leave, Goto, OwnerFree, runVars, Seen, Deciding, Inv, TypeOK
  <2>2. UNCHANGED <<running, unit, stopped>>
    BY <1>3 DEF Leave, mainVars
  <2>3. QED
    BY <2>1, <2>2, Stutter
<1>4. ASSUME NEW t \in Runners, Insert(t) PROVE AbstractStep
  <2>1. Seen' = Seen /\ Deciding' = Deciding
    BY <1>4 DEF Insert, Goto, OwnerFree, runVars, Seen, Deciding, Inv, TypeOK
  <2>2. UNCHANGED <<running, unit, stopped>>
    BY <1>4 DEF Insert, mainVars, runVars
  <2>3. QED
    BY <2>1, <2>2, Stutter
<1>5. ASSUME NEW t \in Runners, Run(t) PROVE AbstractStep
  <2>1. Seen' = Seen /\ Deciding' = Deciding
    BY <1>5 DEF Run, Goto, OwnerFree, runVars, Seen, Deciding, Inv, TypeOK
  <2>2. UNCHANGED <<running, unit, stopped>>
    BY <1>5 DEF Run, mainVars
  <2>3. QED
    BY <2>1, <2>2, Stutter
<1>6. ASSUME NEW t \in Runners, NEW o \in Ops, Start(t, o) PROVE AbstractStep
  <2>1. /\ pc[t] = "loop" /\ status[o] = "ready" /\ t \in Procs
        /\ status' = [status EXCEPT ![o] = "running"]
        /\ running' = [running EXCEPT ![t] = o]
        /\ pc' = [pc EXCEPT ![t] = "handler"] /\ UNCHANGED <<unit, stopped>>
    BY <1>6 DEF Start, Goto, mainVars, Procs
  <2>2. running[t] = NoOp
    BY <2>1 DEF Inv, Work
  <2>3. /\ Deciding' = Deciding /\ Seen[o] = "pending"
        /\ Seen' = [Seen EXCEPT ![o] = "running"]
    BY <2>1 DEF Deciding, Seen, Inv, TypeOK
  <2>4. Abstract!Start(t, o)
    BY <2>1, <2>2, <2>3 DEF Abstract!Start, Seen
  <2>5. QED
    BY <2>4 DEF AbstractStep, Abstract!Next
<1>7. ASSUME NEW t \in Runners, NEW o \in Ops, Post(t, o) PROVE AbstractStep
  BY <1>7, SubmitStep DEF Post, Submits, runVars
<1>8. ASSUME NEW t \in Runners, NEW o \in Ops, Resolve(t, o) PROVE AbstractStep
  BY <1>8, SubmitStep DEF Resolve, Submits, runVars
<1>9. ASSUME NEW t \in Runners, NEW k \in Keys, UseService(t, k)
      PROVE AbstractStep
  <2>1. Seen' = Seen /\ Deciding' = Deciding
    BY <1>9
       DEF UseService, Goto, OwnerFree, runVars, Seen, Deciding, Inv, TypeOK
  <2>2. UNCHANGED <<running, unit, stopped>>
    BY <1>9 DEF UseService, mainVars, runVars
  <2>3. QED
    BY <2>1, <2>2, Stutter
<1>10. ASSUME NEW t \in Runners, NEW k \in Keys, UseServiceNested(t, k)
       PROVE AbstractStep
  <2>1. Seen' = Seen /\ Deciding' = Deciding
    BY <1>10 DEF UseServiceNested, Goto, OwnerFree, runVars, Seen, Deciding,
         Inv, TypeOK
  <2>2. UNCHANGED <<running, unit, stopped>>
    BY <1>10 DEF UseServiceNested, mainVars, runVars
  <2>3. QED
    BY <2>1, <2>2, Stutter
<1>11. ASSUME NEW p \in Procs, StopIdle(p) PROVE AbstractStep
  <2>1. /\ pc[p] = "stop" /\ stopped' = TRUE
        /\ UNCHANGED <<status, running, unit>>
        /\ pc' = [pc EXCEPT ![p] = IF p = Owner THEN "join" ELSE "loop"]
    BY <1>11 DEF StopIdle, Goto
  <2>2. Seen' = Seen /\ p \in Deciding /\ Deciding' = Deciding \ {p}
    BY <2>1 DEF Seen, Deciding, Inv, TypeOK
  <2>3. Abstract!StopIdle(p)
    BY <2>1, <2>2 DEF Abstract!StopIdle, Seen, Deciding
  <2>4. QED
    BY <2>3 DEF AbstractStep, Abstract!Next
<1>12. ASSUME WorkerEnter PROVE AbstractStep
  <2>1. Seen' = Seen /\ Deciding' = Deciding
    BY <1>12
       DEF WorkerEnter, Goto, OwnerFree, runVars, Seen, Deciding, Inv, TypeOK
  <2>2. UNCHANGED <<running, unit, stopped>>
    BY <1>12 DEF WorkerEnter, mainVars, runVars
  <2>3. QED
    BY <2>1, <2>2, Stutter
<1>13. ASSUME WorkerHandBack PROVE AbstractStep
  <2>1. Seen' = Seen /\ Deciding' = Deciding
    BY <1>13 DEF WorkerHandBack, Goto, OwnerFree, runVars, Seen, Deciding,
         Inv, TypeOK, Work
  <2>2. UNCHANGED <<running, unit, stopped>>
    BY <1>13 DEF WorkerHandBack, mainVars, runVars
  <2>3. QED
    BY <2>1, <2>2, Stutter
<1>14. ASSUME WorkerLeave PROVE AbstractStep
  <2>1. Seen' = Seen /\ Deciding' = Deciding
    BY <1>14
       DEF WorkerLeave, Goto, OwnerFree, runVars, Seen, Deciding, Inv, TypeOK
  <2>2. UNCHANGED <<running, unit, stopped>>
    BY <1>14 DEF WorkerLeave, mainVars, runVars
  <2>3. QED
    BY <2>1, <2>2, Stutter
<1>15. ASSUME NEW o \in Ops, WorkerTake(o) PROVE AbstractStep
  <2>1. Seen' = Seen /\ Deciding' = Deciding
    BY <1>15
       DEF WorkerTake, Goto, OwnerFree, runVars, Seen, Deciding, Inv, TypeOK
  <2>2. UNCHANGED <<running, unit, stopped>>
    BY <1>15 DEF WorkerTake, mainVars, runVars
  <2>3. QED
    BY <2>1, <2>2, Stutter
<1>16. ASSUME DestroyJoins PROVE AbstractStep
  BY <1>16, ReleaseStep DEF DestroyJoins, Inv, Control
<1>17. ASSUME Joined PROVE AbstractStep
  <2>1. Seen' = Seen /\ Deciding' = Deciding
    BY <1>17 DEF Joined, Goto, OwnerFree, runVars, Seen, Deciding, Inv, TypeOK
  <2>2. UNCHANGED <<running, unit, stopped>>
    BY <1>17 DEF Joined
  <2>3. QED
    BY <2>1, <2>2, Stutter
<1>18. ASSUME ForkDone PROVE AbstractStep
  <2>1. Seen' = Seen /\ Deciding' = Deciding
    BY <1>18 DEF ForkDone, Goto, OwnerFree, runVars, Seen, Deciding, Inv, TypeOK
  <2>2. UNCHANGED <<running, unit, stopped>>
    BY <1>18 DEF ForkDone, mainVars
  <2>3. QED
    BY <2>1, <2>2, Stutter
<1>19. ASSUME EndResolver PROVE AbstractStep
  <2>1. Seen' = Seen /\ Deciding' = Deciding
    BY <1>19 DEF EndResolver, Unended, Goto, OwnerFree, runVars, Seen,
         Deciding, Inv, TypeOK
  <2>2. UNCHANGED <<running, unit, stopped>>
    BY <1>19 DEF EndResolver, mainVars
  <2>3. QED
    BY <2>1, <2>2, Stutter
<1>20. ASSUME EndResolverJoined PROVE AbstractStep
  <2>1. Late /\ UNCHANGED <<running, unit, stopped>> /\ Deciding' = Deciding
    BY <1>20 DEF EndResolverJoined, Late, mainVars, Goto, Deciding, Inv
  <2>2. QED
    BY <1>20, <2>1, DestroyStep DEF EndResolverJoined
<1>21. ASSUME DestroyService PROVE AbstractStep
  <2>1. Late /\ UNCHANGED <<running, unit, stopped>> /\ Deciding' = Deciding
    BY <1>21
       DEF DestroyService, Unended, Late, mainVars, runVars, Goto, Deciding, Inv
  <2>2. CASE DestroyAll("ready")
    BY <2>1, <2>2, DestroyStep
  <2>3. CASE UNCHANGED status
    BY <2>1, <2>3, Stutter DEF Seen
  <2>4. QED
    BY <1>21, <2>2, <2>3 DEF DestroyService
<1>22. ASSUME NEW k \in Keys, EndService(k) PROVE AbstractStep
  <2>1. Late /\ UNCHANGED <<running, unit, stopped>> /\ Deciding' = Deciding
    BY <1>22
       DEF EndService, Unended, Late, mainVars, runVars, Goto, Deciding, Inv
  <2>2. CASE DestroyAll("ready")
    BY <2>1, <2>2, DestroyStep
  <2>3. CASE UNCHANGED status
    BY <2>1, <2>3, Stutter DEF Seen
  <2>4. QED
    BY <1>22, <2>2, <2>3 DEF EndService
<1>23. ASSUME Stop PROVE AbstractStep
  <2>1. /\ stopped' = stopped \/ stopped' = TRUE
        /\ Seen' = Seen /\ Deciding' = Deciding /\ UNCHANGED <<running, unit>>
    BY <1>23 DEF Stop, OwnerFree, Goto, runVars, Seen, Deciding, Inv
  <2>2. CASE stopped' = TRUE
    <3>1. Abstract!StopCall
      BY <2>1, <2>2 DEF Abstract!StopCall, Seen, Deciding
    <3>2. QED
      BY <3>1 DEF AbstractStep, Abstract!Next
  <2>3. QED
    BY <2>1, <2>2, Stutter
<1>24. ASSUME Join PROVE AbstractStep
  BY <1>24, ReleaseStep DEF Join, OwnerFree, Inv, Control
<1>25. ASSUME Wait PROVE AbstractStep
  BY <1>25, ReleaseStep DEF Wait, OwnerFree, Inv, Control
<1>26. ASSUME Destroy PROVE AbstractStep
  <2>1. /\ stopped' = stopped \/ stopped' = TRUE
        /\ Seen' = Seen /\ Deciding' = Deciding /\ UNCHANGED <<running, unit>>
    BY <1>26 DEF Destroy, OwnerFree, Goto, runVars, Seen, Deciding, Inv
  <2>2. CASE stopped' = TRUE
    <3>1. Abstract!StopCall
      BY <2>1, <2>2 DEF Abstract!StopCall, Seen, Deciding
    <3>2. QED
      BY <3>1 DEF AbstractStep, Abstract!Next
  <2>3. QED
    BY <2>1, <2>2, Stutter
<1>27. ASSUME ForkPrepare PROVE AbstractStep
  <2>1. Seen' = Seen /\ Deciding' = Deciding
    BY <1>27
       DEF ForkPrepare, Goto, OwnerFree, runVars, Seen, Deciding, Inv, TypeOK
  <2>2. UNCHANGED <<running, unit, stopped>>
    BY <1>27 DEF ForkPrepare, mainVars
  <2>3. QED
    BY <2>1, <2>2, Stutter
<1>28. CASE UNCHANGED vars
  <2>1. UNCHANGED <<status, pc, running, unit, stopped>>
    BY <1>28 DEF vars, mainVars, runVars
  <2>2. QED
    BY <2>1, Stutter DEF Seen, Deciding
<1>29. QED
  BY <1>1, <1>2, <1>3, <1>4, <1>5, <1>6, <1>7, <1>8, <1>9, <1>10, <1>11,
       <1>12, <1>13, <1>14, <1>15, <1>16, <1>17, <1>18, <1>19, <1>20, <1>21,
       <1>22, <1>23, <1>24, <1>25, <1>26, <1>27, <1>28 DEF Next, ThreadStep,
       WorkerStep, OwnerStep, Procs

\* The context, with its pool, its registry and its resolver, is one executor:
\* an operation of the resolver is pending from async_resolve until its handler
\* runs, and the context stops by itself only on a decision that was taken when
\* nothing was left to do.
THEOREM ContextImplementsExecutor == Spec => ImplementsExecutor
<1>1. Init => Abstract!Init
  <2> SUFFICES ASSUME Init PROVE Abstract!Init
    OBVIOUS
  <2>1. /\ unit = program.pool /\ program.pool \in BOOLEAN
        /\ stopped = FALSE /\ running = [t \in Runners |-> NoOp]
    BY ContextAssumption DEF ContextAssumption, Init
  <2>2. Seen = [o \in Ops |-> "new"]
    BY DEF Seen, Init
  <2>3. Deciding = {}
    BY DEF Deciding, Init
  <2>4. QED
    BY <2>1, <2>2, <2>3 DEF Abstract!Init, Seen, Deciding
<1>2. Inv /\ Inv' /\ [Next]_vars => [Abstract!Next]_(Abstract!vars)
  BY NextImplements DEF AbstractStep
<1>3. QED
  BY <1>1, <1>2, SpecInv, PTL DEF Spec, ImplementsExecutor, Abstract!Spec
=============================================================================
