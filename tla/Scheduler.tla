----------------------------- MODULE Scheduler -----------------------------
(***************************************************************************)
(* asio::detail::scheduler (detail/impl/scheduler.ipp): the run loop of an *)
(* io_context.  Threads inside run(), run_one(), wait_one(), poll() and    *)
(* poll_one() share one queue of operations; one entry of the queue, the   *)
(* task_operation_, is not an operation but the turn of running the        *)
(* reactor (the "task").  Threads with nothing to do sleep on a            *)
(* posix_event; a thread that waits inside the reactor is woken through    *)
(* the reactor's interrupter.                                              *)
(*                                                                         *)
(* One action is one critical section of mutex_, one access to the atomic  *)
(* outstanding_work_, one call to pthread_cond_signal made after the       *)
(* unlock, or one step outside the lock (the end of a handler, the return  *)
(* of epoll_wait).  A thread that keeps the lock from one step to the next *)
(* is recorded in owner.                                                   *)
(*                                                                         *)
(* The reactor is seen from the scheduler only: operations in it complete  *)
(* into the private queue of the thread that runs it.                      *)
(***************************************************************************)
EXTENDS Integers, Sequences, FiniteSets

CONSTANTS
  Runners,      \* threads that may be inside run() and its siblings
  Posters,      \* threads that only call the API from outside
  Ops,          \* operations; each is submitted at most once (bound)
  TaskOp,       \* task_operation_
  NoProc, NoOp, \* model values
  Modes,        \* the member functions of Run* that Runners call
  OneThread,    \* one_thread_: concurrency hint 1
  Throws,       \* whether handlers may exit by an exception
  OwnThread     \* thread_: the set with the scheduler's own thread, or {}

AllModes == {"run", "run_one", "wait_one", "poll", "poll_one"}

ASSUME SchedulerAssumption ==
  /\ Runners \cap Posters = {}
  /\ NoProc \notin Runners \cup Posters
  /\ TaskOp \notin Ops /\ NoOp \notin Ops
  /\ Modes \subseteq AllModes
  /\ OneThread \in BOOLEAN /\ Throws \in BOOLEAN
  /\ OwnThread \subseteq Runners
  \* basic_io_context documents hint 1 as "will be run from a single thread".
  /\ OneThread => \A t, u \in Runners : t = u

\* thread_ is one thread.
ASSUME OwnThreadAssumption == \A t, u \in OwnThread : t = u

Procs == Runners \cup Posters

VARIABLES
  outstanding,      \* outstanding_work_ (atomic)
  queue,            \* op_queue_, TaskOp included
  stopped,          \* stopped_
  shut,             \* shutdown_
  hasTask,          \* task_ # 0
  taskInterrupted,  \* task_interrupted_
  eventSet,         \* bit 0 of posix_event::state_
  interrupter,      \* the reactor's interrupter is readable
  owner,            \* who keeps mutex_ between two steps, or NoProc
  pc,               \* where each thread is
  mode,             \* which Run* function a runner is in
  ret,              \* where a thread goes on after a nested step
  cur,              \* the operation whose handler a runner executes
  arg,              \* the operation a thread is submitting
  pq,               \* thread_info::private_op_queue
  pw,               \* thread_info::private_outstanding_work
  armed,            \* operations waiting in the reactor
  unposted, done, destroyed, \* operations not yet / no longer in the program
  guard             \* posters that hold an executor_work_guard

sharedVars == <<outstanding, queue, stopped, shut, hasTask>>
wakeVars   == <<taskInterrupted, eventSet, interrupter, owner>>
ctlVars    == <<pc, mode, ret>>
opVars     == <<cur, arg, pq, pw, armed, unposted, done, destroyed, guard>>
vars == <<sharedVars, wakeVars, ctlVars, opVars>>

----------------------------------------------------------------------------
(* Helpers *)

RunLike   == {"run", "run_one"}
PollLike  == {"poll", "poll_one"}
Repeating == {"run", "poll"}

\* Seeded bug: a thread that went on to the reactor is still counted.
WaitersLeaked == {p \in Procs : pc[p] \in {"wait", "woken", "task"}}

\* posix_event counts a waiter in state_ from before pthread_cond_wait until
\* it has the mutex again.
Waiters == {p \in Procs : pc[p] \in {"wait", "woken"}}

CanLock(p) == owner \in {p, NoProc}

\* The calls a thread may make: from outside, or from the handler it runs.
CanCall(p) == \/ pc[p] = "out" /\ p \in Posters /\ ~shut
              \/ pc[p] = "exec"

\* thread_call_stack::contains(this)
InScheduler(p) == pc[p] = "exec"

\* Seeded bug: the thread in the reactor is left to sleep.
NoInterrupt(task) == UNCHANGED <<taskInterrupted, interrupter>>

\* task_->interrupt(), unless somebody has already done it.
InterruptTask(task) ==
  IF ~taskInterrupted /\ task
    THEN taskInterrupted' = TRUE /\ interrupter' = TRUE
    ELSE UNCHANGED <<taskInterrupted, interrupter>>

\* wake_one_thread_and_unlock: p goes on to next, by way of the signal when
\* somebody is counted as waiting.
WakeOneThreadAndUnlock(p, next, task) ==
  /\ eventSet' = TRUE
  /\ owner' = NoProc
  /\ IF Waiters # {}
       THEN /\ pc' = [pc EXCEPT ![p] = "signal"]
            /\ ret' = [ret EXCEPT ![p] = next]
            /\ UNCHANGED <<taskInterrupted, interrupter>>
       ELSE /\ pc' = [pc EXCEPT ![p] = next]
            /\ InterruptTask(task)
            /\ UNCHANGED ret

\* posix_event::maybe_unlock_and_signal_one / unlock_and_signal_one: as
\* above without the interrupt.
SignalOneAndUnlock(p, next) ==
  /\ eventSet' = TRUE
  /\ owner' = NoProc
  /\ IF Waiters # {}
       THEN /\ pc' = [pc EXCEPT ![p] = "signal"]
            /\ ret' = [ret EXCEPT ![p] = next]
       ELSE /\ pc' = [pc EXCEPT ![p] = next]
            /\ UNCHANGED ret

UnlockAndGo(p, next) ==
  /\ owner' = NoProc
  /\ pc' = [pc EXCEPT ![p] = next]
  /\ UNCHANGED <<ret, eventSet>>

\* stop_all_threads: every sleeping thread is woken; p goes on to next.
StopAllThreads(p, next) ==
  /\ stopped' = TRUE
  /\ eventSet' = TRUE
  /\ pc' = [q \in Procs |-> IF q = p THEN next
                            ELSE IF pc[q] = "wait" THEN "woken" ELSE pc[q]]
  /\ InterruptTask(hasTask)

----------------------------------------------------------------------------
(* Initial state: the constructor.  A scheduler with a thread of its own   *)
(* counts it as work and has it in run().                                  *)

Init ==
  /\ outstanding = IF OwnThread = {} THEN 0 ELSE 1
  /\ queue = <<>>
  /\ stopped = FALSE /\ shut = FALSE /\ hasTask = FALSE
  /\ taskInterrupted = TRUE
  /\ eventSet = FALSE
  /\ interrupter = FALSE
  /\ owner = NoProc
  /\ pc = [p \in Procs |-> IF p \in OwnThread THEN "loop" ELSE "out"]
  /\ mode = [t \in Runners |-> "run"]
  /\ ret = [p \in Procs |-> "out"]
  /\ cur = [t \in Runners |-> NoOp]
  /\ arg = [p \in Procs |-> NoOp]
  /\ pq = [t \in Runners |-> <<>>]
  /\ pw = [t \in Runners |-> 0]
  /\ armed = {} /\ unposted = Ops /\ done = {} /\ destroyed = {}
  /\ guard = {}

----------------------------------------------------------------------------
(* Entering and leaving *)

\* run, run_one, wait_one, poll, poll_one: the unlocked look at
\* outstanding_work_, and stop() when there is no work.
Enter(t, m) ==
  /\ pc[t] = "out" /\ t \notin OwnThread /\ ~shut
  /\ mode' = [mode EXCEPT ![t] = m]
  /\ IF outstanding = 0
       THEN /\ pc' = [pc EXCEPT ![t] = "stop"]
            /\ ret' = [ret EXCEPT ![t] = "out"]
       ELSE /\ pc' = [pc EXCEPT ![t] = "loop"]
            /\ UNCHANGED ret
  /\ UNCHANGED <<sharedVars, wakeVars, opVars>>

\* The loop condition of do_run_one, the first test of the other two.
LeaveStopped(t) ==
  /\ pc[t] = "loop" /\ CanLock(t)
  /\ stopped
  /\ UnlockAndGo(t, "out")
  /\ UNCHANGED <<sharedVars, mode, opVars, taskInterrupted, interrupter>>

\* An empty queue: do_run_one and do_wait_one clear the event and wait,
\* do_poll_one (and do_wait_one after its wait) return 0.
FindNothing(t) ==
  /\ CanLock(t)
  /\ queue = <<>>
  /\ \/ /\ pc[t] = "loop" /\ ~stopped
        /\ mode[t] \notin PollLike
        /\ eventSet' = FALSE
        /\ pc' = [pc EXCEPT ![t] = "wait"]
     \/ /\ \/ pc[t] = "loop" /\ ~stopped /\ mode[t] \in PollLike
           \/ pc[t] = "loop2"
        /\ pc' = [pc EXCEPT ![t] = "out"]
        /\ UNCHANGED eventSet
  /\ owner' = NoProc
  /\ UNCHANGED <<sharedVars, mode, ret, opVars, taskInterrupted, interrupter>>

\* A sleeping thread wakes with no signal: pthread_cond_wait may, and the
\* wait of wait_one times out.
WakeUp(t) ==
  /\ pc[t] = "wait"
  /\ pc' = [pc EXCEPT ![t] = "woken"]
  /\ UNCHANGED <<sharedVars, wakeVars, mode, ret, opVars>>

\* The end of posix_event::wait and wait_for_usec, with the mutex again:
\* wait goes back to sleep while the bit is clear, wait_for_usec never does.
Reacquire(t) ==
  /\ pc[t] = "woken" /\ CanLock(t)
  /\ IF mode[t] = "wait_one"
       THEN pc' = [pc EXCEPT ![t] = "loop2"] /\ owner' = t
       ELSE IF eventSet
         THEN pc' = [pc EXCEPT ![t] = "loop"] /\ owner' = t
         ELSE pc' = [pc EXCEPT ![t] = "wait"] /\ UNCHANGED owner
  /\ UNCHANGED <<sharedVars, mode, ret, opVars, taskInterrupted, eventSet,
                 interrupter>>

\* pthread_cond_signal after the unlock: one sleeper, if there is one.
Signal(p) ==
  /\ pc[p] = "signal"
  /\ LET sleeping == {q \in Procs : pc[q] = "wait"} IN
       IF sleeping = {}
         THEN pc' = [pc EXCEPT ![p] = ret[p]]
         ELSE \E q \in sleeping :
                pc' = [pc EXCEPT ![p] = ret[p], ![q] = "woken"]
  /\ UNCHANGED <<sharedVars, wakeVars, mode, ret, opVars>>

\* stop() called from work_finished(), from Run* or by a released guard.
Stop(p) ==
  /\ pc[p] \in {"stop", "wstop"} /\ CanLock(p)
  /\ StopAllThreads(p, IF pc[p] = "stop" THEN ret[p] ELSE "wpush")
  /\ UNCHANGED <<outstanding, queue, shut, hasTask, owner, mode, ret, opVars>>

----------------------------------------------------------------------------
(* Taking the front of the queue *)

\* Seeded bug: the marker of the task is not told from an operation.
TakesAnything(o) == TRUE

IsOperation(o) == o # TaskOp

\* The places where do_run_one, do_wait_one and do_poll_one look at the
\* front: at the start, after the wait, after the task.
AtFront(t) ==
  /\ CanLock(t)
  /\ \/ pc[t] = "loop" /\ ~stopped
     \/ pc[t] \in {"loop2", "loop3"}
  /\ queue # <<>>

\* The turn of the reactor.  It blocks only when the queue is empty and the
\* caller is not polling; do_poll_one leaves task_interrupted_ alone and
\* wakes nobody.
TakeTask(t) ==
  /\ AtFront(t) /\ pc[t] # "loop3"
  /\ Head(queue) = TaskOp
  /\ queue' = Tail(queue)
  /\ LET more == Tail(queue) # <<>>
         next == IF more \/ mode[t] \in PollLike \/ pc[t] = "loop2"
                   THEN "taskpoll" ELSE "task"
     IN  IF mode[t] \in PollLike
           THEN UnlockAndGo(t, next) /\ UNCHANGED taskInterrupted
           ELSE /\ taskInterrupted' = more
                /\ IF more /\ ~OneThread
                     THEN SignalOneAndUnlock(t, next)
                     ELSE UnlockAndGo(t, next)
  /\ UNCHANGED <<outstanding, stopped, shut, hasTask, interrupter, mode,
                 opVars>>

\* An operation: wake a thread for the rest, run the handler.
TakeOp(t) ==
  /\ AtFront(t)
  /\ IsOperation(Head(queue))
  /\ queue' = Tail(queue)
  /\ cur' = [cur EXCEPT ![t] = Head(queue)]
  /\ IF Tail(queue) # <<>> /\ ~OneThread
       THEN WakeOneThreadAndUnlock(t, "exec", hasTask)
       ELSE UnlockAndGo(t, "exec") /\ UNCHANGED <<taskInterrupted, interrupter>>
  /\ UNCHANGED <<outstanding, stopped, shut, hasTask, mode, arg, pq, pw,
                 armed, unposted, done, destroyed, guard>>

\* do_wait_one and do_poll_one after the task, with nothing but the task in
\* front: leave it to another thread.
PassTaskOn(t) ==
  /\ pc[t] = "loop3" /\ CanLock(t)
  /\ queue # <<>> /\ Head(queue) = TaskOp
  /\ IF mode[t] = "wait_one" /\ OneThread
       THEN UnlockAndGo(t, "out")
       ELSE SignalOneAndUnlock(t, "out")
  /\ UNCHANGED <<sharedVars, taskInterrupted, interrupter, mode, opVars>>

----------------------------------------------------------------------------
(* The task *)

\* Every order in which some of the operations of S may become ready.
ReadySeqs(S) ==
  UNION {{q \in [1..n -> S] : \A i, j \in 1..n : q[i] = q[j] => i = j} :
         n \in 0..Cardinality(S)}

ReadyOps(q) == {q[i] : i \in DOMAIN q}

\* Seeded bug: a completed operation stays in the reactor.
AllStillArmed(q) == armed

StillArmed(q) == armed \ ReadyOps(q)

\* task_->run returns: at once when polling, for an interrupt, for a timeout
\* of wait_one, or because operations are ready.
TaskReturn(t, q) ==
  /\ \/ pc[t] = "taskpoll"
     \/ pc[t] = "task" /\ \/ interrupter
                          \/ mode[t] = "wait_one"
                          \/ q # <<>>
  /\ q \in ReadySeqs(armed)
  /\ pq' = [pq EXCEPT ![t] = @ \o q]
  /\ armed' = StillArmed(q)
  /\ interrupter' = FALSE
  /\ pc' = [pc EXCEPT ![t] = "tclean"]
  /\ UNCHANGED <<sharedVars, taskInterrupted, eventSet, owner, mode, ret, cur,
                 arg, pw, unposted, done, destroyed, guard>>

\* task_cleanup: completed operations, then the task itself, go to the back
\* of the queue; the caller goes on with the lock held.
TaskCleanup(t) ==
  /\ pc[t] = "tclean" /\ CanLock(t)
  /\ outstanding' = IF pw[t] > 0 THEN outstanding + pw[t] ELSE outstanding
  /\ pw' = [pw EXCEPT ![t] = 0]
  /\ taskInterrupted' = TRUE
  /\ queue' = Append(queue \o pq[t], TaskOp)
  /\ pq' = [pq EXCEPT ![t] = <<>>]
  /\ owner' = t
  /\ pc' = [pc EXCEPT ![t] = IF mode[t] \in RunLike THEN "loop" ELSE "loop3"]
  /\ UNCHANGED <<stopped, shut, hasTask, eventSet, interrupter, mode, ret, cur,
                 arg, armed, unposted, done, destroyed, guard>>

----------------------------------------------------------------------------
(* The end of a handler *)

\* Seeded bug: one continuation is taken for none.
WorkDeltaOffByOne(n) == IF n > 1 THEN n - 1 ELSE -1

\* What work_cleanup adds to outstanding_work_ for n submitted privately.
WorkDelta(n) == IF n > 1 THEN n - 1 ELSE IF n < 1 THEN -1 ELSE 0

\* Seeded bug: the count is compared before it is decremented.
LastWorkBefore(delta) == delta < 0 /\ outstanding = 0

\* work_finished() brought the count to zero.
LastWork(delta) == delta < 0 /\ outstanding + delta = 0

\* complete() returns or throws, and the first half of work_cleanup settles
\* the count: the operation's own unit of work against what it submitted.
\* A descriptor_state that performed nothing has compensated its unit with
\* compensating_work_started, which pw counts like a submission.
CompleteOp(t, throws) ==
  /\ pc[t] = "exec"
  /\ throws => Throws
  /\ cur' = [cur EXCEPT ![t] = NoOp]
  /\ done' = done \cup {cur[t]}
  /\ LET delta == WorkDelta(pw[t])
     IN  /\ outstanding' = outstanding + delta
         /\ pc' = [pc EXCEPT ![t] = IF LastWork(delta) THEN "wstop" ELSE "wpush"]
  /\ pw' = [pw EXCEPT ![t] = 0]
  /\ ret' = [ret EXCEPT ![t] = IF ~throws /\ mode[t] \in Repeating
                                 THEN "loop" ELSE "out"]
  /\ UNCHANGED <<queue, stopped, shut, hasTask, wakeVars, mode, arg, pq, armed,
                 unposted, destroyed, guard>>

\* The second half of work_cleanup: the private queue goes to the back of the
\* queue, and wakes nobody.  run() and poll() go on under the same lock.
WorkPush(t) ==
  /\ pc[t] = "wpush"
  /\ IF pq[t] = <<>>
       THEN UNCHANGED <<queue, owner>>
       ELSE /\ CanLock(t)
            /\ queue' = queue \o pq[t]
            /\ owner' = IF ret[t] = "loop" THEN t ELSE NoProc
  /\ pq' = [pq EXCEPT ![t] = <<>>]
  /\ pc' = [pc EXCEPT ![t] = ret[t]]
  /\ UNCHANGED <<outstanding, stopped, shut, hasTask, taskInterrupted,
                 eventSet, interrupter, mode, ret, cur, arg, pw, armed,
                 unposted, done, destroyed, guard>>

----------------------------------------------------------------------------
(* Calls from outside and from handlers *)

\* post_immediate_completion and do_dispatch: count the work, then push.
\* From a handler, a continuation (or anything when one_thread_) goes to the
\* private queue instead.
Post(p, o, continuation) ==
  /\ CanCall(p)
  /\ o \in unposted
  /\ unposted' = unposted \ {o}
  /\ IF (OneThread \/ continuation) /\ InScheduler(p)
       THEN /\ pw' = [pw EXCEPT ![p] = @ + 1]
            /\ pq' = [pq EXCEPT ![p] = Append(@, o)]
            /\ UNCHANGED <<outstanding, ctlVars, arg>>
       ELSE /\ outstanding' = outstanding + 1
            /\ arg' = [arg EXCEPT ![p] = o]
            /\ ret' = [ret EXCEPT ![p] = pc[p]]
            /\ pc' = [pc EXCEPT ![p] = "push"]
            /\ UNCHANGED <<mode, pw, pq>>
  /\ UNCHANGED <<queue, stopped, shut, hasTask, wakeVars, cur, armed, done,
                 destroyed, guard>>

\* The locked half of the post functions.
Push(p) ==
  /\ pc[p] = "push" /\ CanLock(p)
  /\ queue' = Append(queue, arg[p])
  /\ arg' = [arg EXCEPT ![p] = NoOp]
  /\ WakeOneThreadAndUnlock(p, ret[p], hasTask)
  /\ UNCHANGED <<outstanding, stopped, shut, hasTask, mode, cur, pq, pw, armed,
                 unposted, done, destroyed, guard>>

\* An asynchronous operation is handed to the reactor, which counts it.
StartIo(p, o) ==
  /\ CanCall(p) /\ hasTask
  /\ o \in unposted
  /\ unposted' = unposted \ {o}
  /\ armed' = armed \cup {o}
  /\ outstanding' = outstanding + 1
  /\ UNCHANGED <<queue, stopped, shut, hasTask, wakeVars, ctlVars, cur, arg,
                 pq, pw, done, destroyed, guard>>

\* A cancelled operation leaves the reactor by post_deferred_completion: its
\* work is already counted.
CancelIo(p, o) ==
  /\ CanCall(p)
  /\ o \in armed
  /\ armed' = armed \ {o}
  /\ IF OneThread /\ InScheduler(p)
       THEN /\ pq' = [pq EXCEPT ![p] = Append(@, o)]
            /\ UNCHANGED <<ctlVars, arg>>
       ELSE /\ arg' = [arg EXCEPT ![p] = o]
            /\ ret' = [ret EXCEPT ![p] = pc[p]]
            /\ pc' = [pc EXCEPT ![p] = "push"]
            /\ UNCHANGED <<mode, pq>>
  /\ UNCHANGED <<sharedVars, wakeVars, cur, pw, unposted, done, destroyed,
                 guard>>

\* Seeded bug: a second service inserts the task once more.
AlwaysNeedsTask == ~shut

NeedsTask == ~shut /\ ~hasTask

\* init_task, called when the first service that needs the reactor is made.
InitTask(p) ==
  /\ CanCall(p) /\ CanLock(p)
  /\ NeedsTask
  /\ hasTask' = TRUE
  /\ queue' = Append(queue, TaskOp)
  /\ WakeOneThreadAndUnlock(p, pc[p], TRUE)
  /\ UNCHANGED <<outstanding, stopped, shut, mode, opVars>>

\* io_context::stop().  A scheduler with a thread of its own has no caller
\* for this, nor for restart().
StopCall(p) ==
  /\ CanCall(p) /\ CanLock(p) /\ OwnThread = {}
  /\ StopAllThreads(p, pc[p])
  /\ UNCHANGED <<outstanding, queue, shut, hasTask, owner, mode, ret, opVars>>

\* restart(), which must not be called while a thread is in run().
Restart(p) ==
  /\ p \in Posters /\ CanCall(p) /\ CanLock(p) /\ OwnThread = {}
  /\ \A t \in Runners : pc[t] = "out"
  /\ stopped' = FALSE
  /\ UNCHANGED <<outstanding, queue, shut, hasTask, wakeVars, ctlVars, opVars>>

\* executor_work_guard: work_started() and work_finished() from outside.
AcquireGuard(p) ==
  /\ p \in Posters \ guard /\ CanCall(p)
  /\ guard' = guard \cup {p}
  /\ outstanding' = outstanding + 1
  /\ UNCHANGED <<queue, stopped, shut, hasTask, wakeVars, ctlVars, cur, arg,
                 pq, pw, armed, unposted, done, destroyed>>

ReleaseGuard(p) ==
  /\ p \in guard /\ CanCall(p)
  /\ guard' = guard \ {p}
  /\ outstanding' = outstanding - 1
  /\ IF outstanding = 1
       THEN /\ pc' = [pc EXCEPT ![p] = "stop"]
            /\ ret' = [ret EXCEPT ![p] = pc[p]]
       ELSE UNCHANGED <<pc, ret>>
  /\ UNCHANGED <<queue, stopped, shut, hasTask, wakeVars, mode, cur, arg, pq,
                 pw, armed, unposted, done, destroyed>>

\* shutdown(), when the context is destroyed: nobody else is in a call, and
\* the only thread that may be in run() is the scheduler's own.
BeginShutdown(p) ==
  /\ p \in Posters /\ CanCall(p) /\ CanLock(p)
  /\ guard = {}
  /\ \A q \in Procs \ OwnThread : pc[q] = "out"
  /\ shut' = TRUE
  /\ IF OwnThread = {}
       THEN /\ pc' = [pc EXCEPT ![p] = "join"]
            /\ UNCHANGED <<stopped, taskInterrupted, eventSet, interrupter>>
       ELSE StopAllThreads(p, "join")
  /\ UNCHANGED <<outstanding, queue, hasTask, owner, mode, ret, opVars>>

\* Seeded bug: the thread is not joined.
NotJoined == TRUE

Joined == \A t \in OwnThread : pc[t] = "out"

\* Join the own thread, destroy what is queued, forget the task.
FinishShutdown(p) ==
  /\ pc[p] = "join"
  /\ Joined
  /\ destroyed' = destroyed \cup (ReadyOps(queue) \ {TaskOp})
  /\ queue' = <<>>
  /\ hasTask' = FALSE
  /\ pc' = [pc EXCEPT ![p] = "end"]
  /\ UNCHANGED <<outstanding, stopped, shut, wakeVars, mode, ret, cur, arg, pq,
                 pw, armed, unposted, done, guard>>

----------------------------------------------------------------------------

\* What a thread inside the scheduler does by itself.
RunStep(t) ==
  \/ LeaveStopped(t) \/ FindNothing(t) \/ Reacquire(t)
  \/ TakeTask(t) \/ TakeOp(t) \/ PassTaskOn(t)
  \/ TaskCleanup(t) \/ WorkPush(t)
  \/ \E throws \in BOOLEAN : CompleteOp(t, throws)
  \/ \E q \in ReadySeqs(armed) : TaskReturn(t, q)

CallStep(p) == Signal(p) \/ Stop(p) \/ Push(p) \/ FinishShutdown(p)

Call(p) ==
  \/ \E o \in Ops : \/ \E c \in BOOLEAN : Post(p, o, c)
                    \/ StartIo(p, o)
                    \/ CancelIo(p, o)
  \/ InitTask(p) \/ StopCall(p) \/ Restart(p)
  \/ AcquireGuard(p) \/ ReleaseGuard(p) \/ BeginShutdown(p)

Next ==
  \/ \E t \in Runners : \/ \E m \in Modes : Enter(t, m)
                        \/ WakeUp(t) \/ RunStep(t)
  \/ \E p \in Procs : CallStep(p) \/ Call(p)

Spec == Init /\ [][Next]_vars

\* Fairness: the operating system runs every thread that can go on, a timed
\* wait ends, a handler returns.  Nothing makes an operation in the reactor
\* ready, nobody has to call the API, and no sleeper need wake by itself.
LiveStep(t) ==
  \/ LeaveStopped(t) \/ FindNothing(t) \/ Reacquire(t)
  \/ TakeTask(t) \/ TakeOp(t) \/ PassTaskOn(t)
  \/ TaskCleanup(t) \/ WorkPush(t)
  \/ CompleteOp(t, FALSE) \/ TaskReturn(t, <<>>)
  \/ mode[t] = "wait_one" /\ WakeUp(t)

Fairness ==
  /\ \A t \in Runners : WF_vars(LiveStep(t))
  /\ \A p \in Procs : WF_vars(CallStep(p))

FairSpec == Spec /\ Fairness

----------------------------------------------------------------------------
(* Properties *)

PCs == {"out", "loop", "loop2", "loop3", "wait", "woken", "signal", "stop",
        "wstop", "task", "taskpoll", "tclean", "exec", "wpush", "push",
        "join", "end"}

\* Every variable keeps its type.  In particular the task is never taken for an
\* operation, nor an operation's place in a thread for an empty one.
TypeOK ==
  /\ outstanding \in Int
  /\ queue \in Seq(Ops \cup {TaskOp})
  /\ stopped \in BOOLEAN /\ shut \in BOOLEAN /\ hasTask \in BOOLEAN
  /\ taskInterrupted \in BOOLEAN
  /\ eventSet \in BOOLEAN /\ interrupter \in BOOLEAN
  /\ owner \in Runners \cup {NoProc}
  /\ pc \in [Procs -> PCs]
  /\ mode \in [Runners -> AllModes]
  /\ ret \in [Procs -> {"out", "exec", "task", "taskpoll", "loop"}]
  /\ cur \in [Runners -> Ops \cup {NoOp}]
  /\ arg \in [Procs -> Ops \cup {NoOp}]
  /\ pq \in [Runners -> Seq(Ops)]
  /\ pw \in [Runners -> Nat]
  /\ armed \in SUBSET Ops /\ unposted \in SUBSET Ops
  /\ done \in SUBSET Ops /\ destroyed \in SUBSET Ops
  /\ guard \in SUBSET Posters

\* A thread has the task when it is in the reactor, or is about to be after a
\* signal, or has not yet put the task back.
TaskPCs == {"task", "taskpoll", "tclean"}
HasTask(p) == pc[p] \in TaskPCs \/ (pc[p] = "signal" /\ ret[p] \in TaskPCs)

Queued(x, q) == \E i \in 1..Len(q) : q[i] = x
AtMostOnce(x, q) == \A i, j \in 1..Len(q) : q[i] = x /\ q[j] = x => i = j

\* Once there is a task it is in exactly one place: at one position of the
\* queue or with one thread.  So two threads are never in the reactor, whose
\* epoll loop relies on it, and the reactor is never forgotten.
TaskInOnePlace ==
  /\ AtMostOnce(TaskOp, queue)
  /\ \A p, q \in Procs : HasTask(p) /\ HasTask(q) => p = q
  /\ ~(Queued(TaskOp, queue) /\ \E p \in Procs : HasTask(p))
  /\ hasTask <=> (Queued(TaskOp, queue) \/ \E p \in Procs : HasTask(p))

\* The operations that count: those that have not run, even when shutdown()
\* has destroyed them.  And what a thread has submitted and not settled.
Counted == Ops \ (unposted \cup done)
Unsettled == UNION {{t} \X (1..pw[t]) : t \in Runners}

\* outstanding_work_ plus what the threads have not yet settled is the number
\* of unfinished operations and guards.  It never drops below zero, where run()
\* would not find its end.
WorkCount ==
  /\ outstanding >= 0
  /\ outstanding + Cardinality(Unsettled)
       = Cardinality(Counted) + Cardinality(guard) + Cardinality(OwnThread)

\* A thread that will look at the queue, or is about to wake one that will,
\* before it can sleep or disappear into a handler.
Alert(p) ==
  \/ pc[p] \in {"loop", "loop2", "loop3", "taskpoll", "tclean", "push",
                "stop", "wstop"}
  \/ pc[p] = "task" /\ interrupter
  \/ pc[p] = "woken" /\ (eventSet \/ mode[p] = "wait_one")
  \/ pc[p] = "wpush" /\ ret[p] = "loop"
  \/ pc[p] = "signal" /\ \/ ret[p] = "taskpoll"
                         \/ \E q \in Procs : pc[q] = "wait"

Asleep(t) == pc[t] = "wait" \/ (pc[t] = "task" /\ ~interrupter)

\* No lost wakeup: while something is queued and a thread sleeps, some thread
\* is on its way to the queue.  A busy handler is no excuse: it must not hold
\* up what the sleeper could run.
NoLostWakeup ==
  queue # <<>> /\ ~stopped /\ (\E t \in Runners : Asleep(t))
    => \E p \in Procs : Alert(p)

\* A queued operation is run, unless the scheduler is stopped or no thread is
\* left in run().
InRun(t) == pc[t] # "out"
QueuedOpRuns ==
  \A o \in Ops :
    Queued(o, queue)
      ~> (o \in done \/ stopped \/ \A t \in Runners : ~InRun(t))

\* "All invocations of its run() or run_one() member functions should return
\* as soon as possible": a stop reaches the sleepers, in the event and in the
\* reactor.
StopReturns ==
  \A t \in Runners : (stopped /\ InRun(t)) ~> (~stopped \/ ~InRun(t))

\* run() returns when there is no more work.
RunReturnsWithoutWork ==
  \A t \in Runners : (outstanding = 0 /\ InRun(t))
                       ~> (outstanding > 0 \/ ~InRun(t))

\* shutdown() leaves nothing behind in a queue or with a thread: what has not
\* run is destroyed or still in the reactor, whose own shutdown destroys it.
ShutdownLeavesNothing ==
  \A p \in Procs : pc[p] = "end" =>
    Ops = unposted \cup armed \cup done \cup destroyed

\* shutdown() ends: the own thread is woken wherever it sleeps.
ShutdownEnds == \A p \in Posters : (pc[p] = "join") ~> (pc[p] = "end")

----------------------------------------------------------------------------
(* The scheduler implements the abstract executor. *)

Status ==
  [o \in Ops |->
     IF o \in unposted THEN "new"
     ELSE IF o \in done THEN "done"
     ELSE IF o \in destroyed THEN "destroyed"
     ELSE IF \E t \in Runners : cur[t] = o THEN "running" ELSE "pending"]

Abstract == INSTANCE Executor WITH
  status   <- Status,
  running  <- cur,
  held     <- guard # {} \/ OwnThread # {},
  deciding <- {p \in Procs : pc[p] \in {"stop", "wstop"}}

ImplementsExecutor == Abstract!Spec
============================================================================
