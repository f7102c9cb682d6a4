------------------------------ MODULE Context ------------------------------
(***************************************************************************)
(* An execution context as a whole: asio::execution_context with its       *)
(* service_registry, asio::thread_pool (or an io_context, whose users call *)
(* run themselves), and resolver_service_base, which has a thread and a    *)
(* scheduler of its own for the lookups, and hands each operation back to  *)
(* the context's scheduler.                                                *)
(*                                                                         *)
(* The two schedulers are as Scheduler's abstraction, Executor: operations *)
(* wait in no particular order, the count of outstanding work and stop()   *)
(* are kept, and the stop comes in a step of its own after the count was   *)
(* seen to be zero.  One action is one critical section of the registry's  *)
(* mutex or one step of a thread.                                          *)
(***************************************************************************)
EXTENDS Integers, Sequences, SequencesExt, FiniteSets

CONSTANTS
  Users,        \* threads of the program
  PoolThreads,
  Owner,        \* the thread that joins and destroys the context
  Keys,         \* kinds of services; "scheduler" and "resolver" are known here
  Needs,        \* the services that the constructor of each uses
  Lookups,      \* operations of async_resolve
  Posts,        \* other operations
  NoOp,
  Programs      \* what the user does, see below

Ops == Lookups \cup Posts
Runners == Users \cup PoolThreads
Procs == Runners \cup {Owner}

\* In a program the context is a thread_pool with the threads of threads, or an
\* io_context; its threads use the services of keys, begin the operations of
\* ops, and make the calls of calls.
AllCalls == {"run", "stop", "join", "wait", "fork", "destroy"}

ASSUME ContextAssumption ==
  /\ {"scheduler", "resolver"} \subseteq Keys
  /\ Needs \in [Keys -> SUBSET Keys]
  /\ Needs["scheduler"] = {} /\ "scheduler" \in Needs["resolver"]
  /\ NoOp \notin Ops /\ Owner \notin Runners /\ Lookups \cap Posts = {}
  /\ Users \cap PoolThreads = {}
  /\ \A p \in Programs :
       /\ p.pool \in BOOLEAN /\ p.threads \subseteq PoolThreads
       /\ p.threads # {} => p.pool
       /\ p.users \subseteq Users /\ p.keys \subseteq Keys
       /\ p.ops \subseteq Ops /\ p.calls \subseteq AllCalls

VARIABLES
  program,      \* the one that runs
  registry,     \* the services, newest first
  building,     \* of each thread: the constructors it is in, innermost first
  ended,        \* services that are shut down
  count,        \* outstanding_work_ of the context's scheduler
  stopped,      \* its stopped_
  unit,         \* whether the pool's own unit of work is counted
  threads,      \* the pool's threads_, until they are joined
  pc,           \* where each thread is
  running,      \* the operation each executes
  status,       \* of each operation
  promised,     \* history: the operations that were submitted before the pool
                \* gave up its unit of work, and those that their handlers began
  worker,       \* where the resolver's work_thread_ is, or "none"
  lookingUp,    \* the operation it performs
  workCount,    \* outstanding_work_ of the resolver's work_scheduler_
  workStopped,  \* its stopped_
  stopCalled,   \* somebody has called stop()
  ending,       \* the destructor has begun
  forked        \* the process has forked

progVars == <<program, promised>>
registryVars == <<registry, building, ended>>
mainVars == <<count, stopped, unit, threads, stopCalled>>
workVars == <<worker, lookingUp, workCount, workStopped>>
runVars == <<pc, running>>
lifeVars == <<ending, forked>>
vars ==
  <<progVars, registryVars, mainVars, runVars, status, workVars, lifeVars>>

\* thread_pool's constructor adds the scheduler and gives it a unit of work.
Init ==
  /\ program \in Programs
  /\ registry = <<"scheduler">> /\ ended = {}
  /\ building = [t \in Runners |-> <<>>]
  /\ unit = program.pool /\ count = (IF unit THEN 1 ELSE 0)
  /\ stopped = FALSE /\ stopCalled = FALSE
  /\ threads = program.threads
  /\ pc = [p \in Procs |-> IF p \in program.threads THEN "enter" ELSE "out"]
  /\ running = [t \in Runners |-> NoOp]
  /\ status = [o \in Ops |-> "new"] /\ promised = {}
  /\ worker = "none" /\ lookingUp = NoOp
  /\ workCount = 0 /\ workStopped = FALSE
  /\ ending = FALSE /\ forked = FALSE

Makes(call) == call \in program.calls
Has(k) == k \in ToSet(registry)
Goto(p, where) == pc' = [pc EXCEPT ![p] = where]

\* A user's thread, or a handler, may call into the context, unless the owner
\* destroys it or the process forks.
CanCall(t) ==
  \/ /\ t \in program.users /\ pc[t] = "out"
     /\ pc[Owner] \in {"out", "join", "stop"} /\ ~ending
  \/ pc[t] = "handler"

----------------------------------------------------------------------------
(* The registry *)

\* do_use_service until it is known whether there is the service: if not, its
\* constructor runs, without the mutex.  It is called by a thread, or by the
\* constructor of another service.
Ask(t, k, outer) ==
  building' = [building EXCEPT ![t] =
                 IF Has(k) THEN outer
                 ELSE <<[key |-> k, todo |-> Needs[k]]>> \o outer]

UseService(t, k) ==
  /\ CanCall(t) /\ building[t] = <<>> /\ k \in program.keys /\ ~Has(k)
  /\ Ask(t, k, <<>>)
  /\ UNCHANGED <<progVars, registry, ended, mainVars, runVars, status, workVars,
                 lifeVars>>

UseServiceNested(t, k) ==
  /\ building[t] # <<>> /\ k \in Head(building[t]).todo
  /\ Ask(t, k, <<[Head(building[t]) EXCEPT !.todo = @ \ {k}]>>
                 \o Tail(building[t]))
  /\ UNCHANGED <<progVars, registry, ended, mainVars, runVars, status, workVars,
                 lifeVars>>

\* Seeded bug: the registry is not searched again.
InsertAlways(k) == TRUE

\* Whether the new service is taken; somebody else may have made another.
IsNew(k) == ~Has(k)

\* The second part of do_use_service.  A service that is not taken is destroyed,
\* and add_service throws instead.  The resolver's constructor has made a
\* scheduler with a unit of work.
Insert(t) ==
  /\ building[t] # <<>> /\ Head(building[t]).todo = {}
  /\ building' = [building EXCEPT ![t] = Tail(@)]
  /\ LET k == Head(building[t]).key
     IN  /\ registry' = IF IsNew(k) THEN <<k>> \o registry ELSE registry
         /\ workCount' = IF IsNew(k) /\ k = "resolver" THEN 1 ELSE workCount
  /\ UNCHANGED <<progVars, ended, mainVars, runVars, status, worker, lookingUp,
                 workStopped, lifeVars>>

----------------------------------------------------------------------------
(* Operations *)

\* Anybody may submit while the pool is being joined, and after: nothing checks
\* that it will be run.
Submits(t, o) ==
  /\ CanCall(t) /\ building[t] = <<>>
  /\ o \in program.ops /\ status[o] = "new"
  /\ promised' = IF unit \/ running[t] \in promised THEN promised \cup {o}
                                                    ELSE promised

Post(t, o) ==
  /\ Submits(t, o) /\ o \in Posts
  /\ status' = [status EXCEPT ![o] = "ready"]
  /\ count' = count + 1
  /\ UNCHANGED <<program, registryVars, stopped, unit, threads, stopCalled,
                 runVars, workVars, lifeVars>>

\* Seeded bug: a lookup is no work for the context.
NoUnit(o) == 0

\* What start_resolve_op adds to the context's work.
LookupUnit(o) == 1

\* start_resolve_op: the thread is made with the first operation.
Resolve(t, o) ==
  /\ Submits(t, o) /\ o \in Lookups /\ Has("resolver")
  /\ status' = [status EXCEPT ![o] = "queued"]
  /\ worker' = IF worker = "none" THEN "enter" ELSE worker
  /\ count' = count + LookupUnit(o)
  /\ workCount' = workCount + 1
  /\ UNCHANGED <<program, registryVars, stopped, unit, threads, stopCalled,
                 runVars, lookingUp, workStopped, lifeVars>>

----------------------------------------------------------------------------
(* The threads in run() *)

\* Seeded bug: the last unit but one is taken for the last.
NoneButOne(n) == n <= 1

\* After work_finished: whether to stop.
NoneLeft(n) == n = 0

\* run() by a user of an io_context, or attach().
Run(t) ==
  /\ Makes("run") /\ t \in program.users /\ pc[t] = "out" /\ pc[Owner] = "out"
  /\ building[t] = <<>>
  /\ Goto(t, "enter")
  /\ UNCHANGED <<progVars, registryVars, mainVars, running, status, workVars,
                 lifeVars>>

Enter(t) ==
  /\ pc[t] = "enter"
  /\ Goto(t, IF count = 0 THEN "stop" ELSE "loop")
  /\ UNCHANGED <<progVars, registryVars, mainVars, running, status, workVars,
                 lifeVars>>

Start(t, o) ==
  /\ pc[t] = "loop" /\ ~stopped /\ status[o] = "ready"
  /\ status' = [status EXCEPT ![o] = "running"]
  /\ running' = [running EXCEPT ![t] = o]
  /\ Goto(t, "handler")
  /\ UNCHANGED <<progVars, registryVars, mainVars, workVars, lifeVars>>

Finish(t) ==
  /\ pc[t] = "handler" /\ building[t] = <<>>
  /\ status' = [status EXCEPT ![running[t]] = "done"]
  /\ running' = [running EXCEPT ![t] = NoOp]
  /\ count' = count - 1
  /\ Goto(t, IF NoneLeft(count') THEN "stop" ELSE "loop")
  /\ UNCHANGED <<progVars, registryVars, stopped, unit, threads, stopCalled,
                 workVars, lifeVars>>

\* The stop that follows; a thread that joins goes on to do so.
StopIdle(p) ==
  /\ pc[p] = "stop"
  /\ stopped' = TRUE
  /\ Goto(p, IF p = Owner THEN "join" ELSE "loop")
  /\ UNCHANGED <<progVars, registryVars, count, unit, threads, stopCalled,
                 running,
                 status, workVars, lifeVars>>

Leave(t) ==
  /\ pc[t] = "loop" /\ stopped
  /\ Goto(t, "out")
  /\ UNCHANGED <<progVars, registryVars, mainVars, running, status, workVars,
                 lifeVars>>

----------------------------------------------------------------------------
(* The resolver's thread *)

\* work_scheduler_runner, at its start.
WorkerEnter ==
  /\ worker = "enter"
  /\ worker' = IF workCount = 0 THEN "exited" ELSE "loop"
  /\ UNCHANGED <<progVars, registryVars, mainVars, runVars, status, lookingUp,
                 workCount, workStopped, lifeVars>>

WorkerTake(o) ==
  /\ worker = "loop" /\ ~workStopped /\ status[o] = "queued"
  /\ worker' = "lookup" /\ lookingUp' = o
  /\ status' = [status EXCEPT ![o] = "lookup"]
  /\ UNCHANGED <<progVars, registryVars, mainVars, runVars, workCount,
                 workStopped,
                 lifeVars>>

\* The operation is posted, as work that was counted before.
WorkerHandBack ==
  /\ worker = "lookup"
  /\ worker' = "loop" /\ lookingUp' = NoOp
  /\ status' = [status EXCEPT ![lookingUp] = "ready"]
  /\ workCount' = workCount - 1
  /\ UNCHANGED <<progVars, registryVars, mainVars, runVars, workStopped,
                 lifeVars>>

WorkerLeave ==
  /\ worker = "loop" /\ workStopped
  /\ worker' = "exited"
  /\ UNCHANGED <<progVars, registryVars, mainVars, runVars, status, lookingUp,
                 workCount, workStopped, lifeVars>>

WorkerGone == worker \in {"none", "exited"}

----------------------------------------------------------------------------
(* The owner's calls *)

OwnerFree == pc[Owner] = "out"
\* No thread is in a call, or in the context.
UsersOut == \A t \in Users : pc[t] = "out" /\ building[t] = <<>>

Stop ==
  /\ Makes("stop") /\ OwnerFree
  /\ stopped' = TRUE /\ stopCalled' = TRUE
  /\ UNCHANGED <<progVars, registryVars, count, unit, threads, runVars, status,
                 workVars, lifeVars>>

\* Seeded bug: the pool keeps its unit of work, and the threads run for ever.
KeepUnit(n) == n

\* work_finished
GiveUnit(n) == n - 1

\* The pool gives up its unit of work and joins the threads.
ReleaseAndJoin ==
  /\ count' = GiveUnit(count) /\ unit' = FALSE
  /\ Goto(Owner, IF NoneLeft(count') THEN "stop" ELSE "join")
  /\ UNCHANGED <<progVars, registryVars, threads, running, status, workVars,
                 lifeVars>>

\* join() does nothing without threads.
Join ==
  /\ Makes("join") /\ program.pool /\ OwnerFree /\ threads # {}
  /\ ReleaseAndJoin /\ UNCHANGED <<stopped, stopCalled>>

\* wait() is called once, and not after join(): it would give the unit of work
\* again.
Wait ==
  /\ Makes("wait") /\ program.pool /\ OwnerFree /\ unit
  /\ ReleaseAndJoin /\ UNCHANGED <<stopped, stopCalled>>

\* The destructor, when no user's thread is in the context.  A thread_pool stops
\* first, and joins.
Destroy ==
  /\ Makes("destroy") /\ OwnerFree /\ UsersOut
  /\ ending' = TRUE
  /\ IF program.pool THEN stopped' = TRUE /\ stopCalled' = TRUE
                     ELSE UNCHANGED <<stopped, stopCalled>>
  /\ Goto(Owner, IF threads # {} THEN "release" ELSE "shutdown")
  /\ UNCHANGED <<progVars, registryVars, count, unit, threads, running, status,
                 workVars, forked>>

DestroyJoins ==
  /\ pc[Owner] = "release"
  /\ ReleaseAndJoin /\ UNCHANGED <<stopped, stopCalled>>

\* The threads are gone; in the destructor the shutdown follows.
Joined ==
  /\ pc[Owner] = "join" /\ \A t \in threads : pc[t] = "out"
  /\ threads' = {}
  /\ Goto(Owner, IF ending THEN "shutdown" ELSE "out")
  /\ UNCHANGED <<progVars, registryVars, count, stopped, unit, stopCalled,
                 running,
                 status, workVars, lifeVars>>

\* notify_fork(fork_prepare): the resolver's thread ends.
ForkPrepare ==
  /\ Makes("fork") /\ ~forked /\ OwnerFree /\ UsersOut /\ threads = {}
  /\ forked' = TRUE
  /\ workStopped' = (workStopped \/ worker # "none")
  /\ Goto(Owner, "fork")
  /\ UNCHANGED <<progVars, registryVars, mainVars, running, status, worker,
                 lookingUp, workCount, ending>>

\* It is joined, the process forks, and the event for parent or child makes
\* the scheduler of the resolver ready for another thread.
ForkDone ==
  /\ pc[Owner] = "fork" /\ WorkerGone
  /\ worker' = "none" /\ workStopped' = FALSE
  /\ Goto(Owner, "out")
  /\ UNCHANGED <<progVars, registryVars, mainVars, running, status, lookingUp,
                 workCount, lifeVars>>

\* Seeded bug: the services are shut down in the order in which they were made.
OldestFirst(k) ==
  \A i, j \in DOMAIN registry :
    registry[i] = k /\ i < j => registry[j] \in ended

\* shutdown_services goes from the newest service to the oldest.
IsNext(k) ==
  \A i, j \in DOMAIN registry :
    registry[i] = k /\ j < i => registry[j] \in ended

Unended(k) ==
  pc[Owner] = "shutdown" /\ k \in ToSet(registry) \ ended /\ IsNext(k)

\* The operations with this status are destroyed.
DestroyAll(what) ==
  status' = [o \in Ops |-> IF status[o] = what THEN "destroyed" ELSE status[o]]

\* base_shutdown of the resolver, which then waits for its thread.
EndResolver ==
  /\ Unended("resolver")
  /\ workCount' = workCount - 1 /\ workStopped' = TRUE
  /\ Goto(Owner, "joinWorker")
  /\ UNCHANGED <<progVars, registryVars, mainVars, running, status, worker,
                 lookingUp, lifeVars>>

\* The thread is gone, and the scheduler goes with what is in its queue.
EndResolverJoined ==
  /\ pc[Owner] = "joinWorker" /\ WorkerGone
  /\ worker' = "none"
  /\ DestroyAll("queued")
  /\ ended' = ended \cup {"resolver"}
  /\ Goto(Owner, "shutdown")
  /\ UNCHANGED <<progVars, registry, building, mainVars, running, lookingUp,
                 workCount, workStopped, lifeVars>>

\* scheduler::shutdown; other services are the other modules'.
EndService(k) ==
  /\ Unended(k) /\ k # "resolver"
  /\ IF k = "scheduler" THEN DestroyAll("ready") ELSE UNCHANGED status
  /\ ended' = ended \cup {k}
  /\ UNCHANGED <<progVars, registry, building, mainVars, runVars, workVars,
                 lifeVars>>

\* destroy_services, when all are shut down.  What has come to the scheduler's
\* queue since goes with it.
DestroyService ==
  /\ pc[Owner] = "shutdown" /\ ToSet(registry) \subseteq ended
  /\ registry' = Tail(registry)
  /\ IF Head(registry) = "scheduler" THEN DestroyAll("ready")
                                     ELSE UNCHANGED status
  /\ Goto(Owner, IF registry' = <<>> THEN "gone" ELSE "shutdown")
  /\ UNCHANGED <<progVars, building, ended, mainVars, running, workVars,
                 lifeVars>>

----------------------------------------------------------------------------

ThreadStep(t) ==
  \/ Enter(t) \/ Finish(t) \/ StopIdle(t) \/ Leave(t) \/ Insert(t)
  \/ \E o \in Ops : Start(t, o)
  \/ \E k \in Keys : UseServiceNested(t, k)

WorkerStep ==
  WorkerEnter \/ WorkerHandBack \/ WorkerLeave \/ \E o \in Ops : WorkerTake(o)

OwnerStep ==
  \/ StopIdle(Owner) \/ DestroyJoins \/ Joined \/ ForkDone
  \/ EndResolver \/ EndResolverJoined \/ DestroyService
  \/ \E k \in Keys : EndService(k)

Next ==
  \/ \E t \in Runners :
       \/ ThreadStep(t) \/ Run(t)
       \/ \E k \in Keys : UseService(t, k)
       \/ \E o \in Ops : Post(t, o) \/ Resolve(t, o)
  \/ WorkerStep \/ OwnerStep
  \/ Stop \/ Join \/ Wait \/ Destroy \/ ForkPrepare

Spec == Init /\ [][Next]_vars

\* Every thread goes on; nobody has to begin anything.
FairSpec ==
  /\ Spec /\ WF_vars(WorkerStep) /\ WF_vars(OwnerStep)
  /\ \A t \in Runners : WF_vars(ThreadStep(t))

----------------------------------------------------------------------------
(* Properties *)

\* There is one service of each kind, whichever threads made it at the same
\* time, and what a service needs is older, so that it will outlive it.
ServicesInOrder ==
  \A i \in DOMAIN registry :
    /\ \A j \in DOMAIN registry : registry[j] = registry[i] => j = i
    /\ \A k \in Needs[registry[i]] :
         \E j \in DOMAIN registry : j > i /\ registry[j] = k

\* No service is shut down while another that needs it still works, and the
\* scheduler not while the resolver's thread may post to it.  After the end the
\* thread is gone, and every operation is done or destroyed.
EndsCleanly ==
  /\ \A k \in ToSet(registry) \ ended : Needs[k] \cap ended = {}
  /\ ~WorkerGone => "scheduler" \notin ended
  /\ pc[Owner] = "gone" =>
       /\ worker = "none"
       /\ \A o \in Ops : status[o] \in {"new", "done", "destroyed"}

\* When join() or wait() of a pool that has threads of its own has returned, and
\* nobody has called stop(), what was submitted before the call is done, lookups
\* and what handlers began meanwhile included.  Nothing is promised to others
\* who submit while the pool is joined.
JoinedMeansDone ==
  program.threads # {} /\ threads = {} /\ ~stopCalled =>
    \A o \in promised : status[o] = "done"

\* The calls of the owner return, join() and the destructor among them, and
\* what is to be looked up is looked up; after a fork though, only when another
\* lookup makes a new thread.
CallsEnd ==
  /\ []<>(pc[Owner] \in {"out", "gone"})
  /\ []<>(\/ \A o \in Lookups : status[o] \notin {"queued", "lookup"}
          \/ forked /\ worker = "none")

\* With its pool, its resolver and its registry the context is one Executor:
\* an operation of the resolver is pending from the first call until its
\* handler runs, wherever it is, and the context does not stop before.
Abstract == INSTANCE Executor WITH
  status <- [o \in Ops |-> IF status[o] \in {"queued", "lookup", "ready"}
                             THEN "pending" ELSE status[o]],
  held <- unit,
  deciding <- {p \in Procs : pc[p] = "stop"}

ImplementsExecutor == Abstract!Spec
============================================================================
