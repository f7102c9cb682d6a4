---------------------------- MODULE TimerService ----------------------------
(***************************************************************************)
(* Waitable timers: asio::detail::deadline_timer_service with the timers   *)
(* of the epoll_reactor, its timer_queue_set, and the thread that runs the *)
(* reactor.  Whoever schedules a timer that becomes the earliest of its    *)
(* queue sets the timer descriptor, or interrupts the reactor where there  *)
(* is none, so that it calculates its timeout again.                       *)
(*                                                                         *)
(* One action is one critical section of the reactor's mutex, one          *)
(* epoll_wait, or a tick of the clock.  A timer is used by one thread at a *)
(* time, so that what its calls do to it outside the mutex is part of      *)
(* their critical section.  A wait is named by the timer it began on,      *)
(* which is the timer its cancellation handler knows.  Completed waits are *)
(* posted, in no particular order; that they count as work until then is   *)
(* left to Scheduler.                                                      *)
(***************************************************************************)
EXTENDS TimerQueue, FiniteSets, FiniteSetsExt

CONSTANTS
  Timers,
  Queues,      \* one timer_queue for each kind of clock
  QueueOf,     \* the queue of each timer
  Never,
  MaxWait,     \* the longest time the reactor waits: five minutes in the code
  MaxTime,     \* bound on the clock
  MaxWaits,    \* bound on the number of waits on a timer
  Programs     \* what the user does, see below

\* A program uses the timers of uses: it sets t to the times of times[t], and
\* waits waits[t] times on it, after it has waited on the timers of after[t].
\* It makes the calls of calls besides.  The system has a timer descriptor, or
\* none, as fds says.
AllCalls ==
  {"expires_at", "cancel", "cancel_one", "cancel_by_key", "move", "fork",
   "shutdown"}

ASSUME TimerAssumption ==
  /\ NoTimer \notin Timers /\ QueueOf \in [Timers -> Queues]
  /\ MaxWait \in Nat \ {0} /\ MaxTime \in Nat /\ MaxWaits \in Nat
  /\ Never \notin Nat
  /\ \A p \in Programs :
       /\ p.uses \subseteq Timers
       /\ p.times \in [Timers -> SUBSET (0 .. MaxTime)]
       /\ p.waits \in [Timers -> 0 .. MaxWaits]
       /\ p.after \in [Timers -> SUBSET Timers]
       /\ p.calls \subseteq AllCalls /\ p.fds \subseteq BOOLEAN

Waits == Timers \X (1 .. MaxWaits)

VARIABLES
  now,           \* the clock
  program,       \* the one that runs
  queue,         \* timer_queues_
  expiry,        \* implementation_type::expiry
  pending,       \* implementation_type::might_have_pending_waits
  timerFd,       \* whether there is a timer descriptor
  armed,         \* when it becomes readable
  interrupted,   \* the interrupter is on epoll's list
  reactor,       \* idle, blocked in epoll_wait, or about to check the timers
  until,         \* when epoll_wait returns at the latest
  status,        \* of each wait: new, waiting, or how it ended
  shut           \* shutdown_

fdVars == <<timerFd, armed, interrupted>>
reactorVars == <<reactor, until>>
implVars == <<expiry, pending>>
vars == <<now, program, queue, implVars, fdVars, reactorVars, status, shut>>

TimersOf(q) == {t \in Timers : QueueOf[t] = q}

Init ==
  /\ now = 0 /\ program \in Programs
  /\ queue = [q \in Queues |-> EmptyQueue(TimersOf(q))]
  /\ expiry \in {e \in [Timers -> 0 .. MaxTime] :
                   \A t \in Timers :
                     e[t] \in IF t \in program.uses THEN program.times[t]
                                                    ELSE {0}}
  /\ pending = [t \in Timers |-> FALSE]
  /\ timerFd \in program.fds /\ armed = Never /\ interrupted = TRUE
  /\ reactor = "idle" /\ until = Never
  /\ status = [o \in Waits |-> "new"]
  /\ shut = FALSE

Tick ==
  /\ now < MaxTime
  /\ now' = now + 1
  /\ UNCHANGED <<program, queue, implVars, fdVars, reactorVars, status, shut>>

----------------------------------------------------------------------------
(* The reactor's timeout *)

\* Seeded bug: only one of the queues is asked.
OneQueueWaitDuration(queues, max) ==
  WaitDuration(queues[CHOOSE q \in Queues : TRUE], now, max)

\* timer_queue_set::wait_duration_usec
SetWaitDuration(queues, max) ==
  Min({max} \cup {WaitDuration(queues[q], now, max) : q \in Queues})

\* get_timeout; zero sets the descriptor so that it is readable at once.
TimeoutAt(queues) == now + SetWaitDuration(queues, MaxWait)

\* update_timeout, with the queues as they are then.
UpdateTimeout(queues) ==
  /\ armed' = IF timerFd THEN TimeoutAt(queues) ELSE armed
  /\ interrupted' = (interrupted \/ ~timerFd)
  /\ UNCHANGED timerFd

----------------------------------------------------------------------------
(* The timers' calls *)

QueueFor(t) == queue[QueueOf[t]]
WaitingIn(q) == UNION {ToSet(q.ops[t]) : t \in DOMAIN q.ops}

\* The waits of S are posted with this result, or destroyed.
Complete(S, result) ==
  status' = [o \in Waits |-> IF o \in S THEN result ELSE status[o]]

\* A queue is changed, and the waits that have left it are aborted.
AbortBy(t, q) ==
  /\ queue' = [queue EXCEPT ![QueueOf[t]] = q]
  /\ Complete(WaitingIn(QueueFor(t)) \ WaitingIn(q), "aborted")

Makes(call) == call \in program.calls
Calls(call, t) == Makes(call) /\ t \in program.uses

NewWaits(t) == {k \in 1 .. program.waits[t] : status[<<t, k>>] = "new"}
CanBegin(t) ==
  /\ t \in program.uses /\ NewWaits(t) # {}
  /\ \A s \in program.after[t] : status[<<s, 1>>] # "new"
NextWait(t) == <<t, Min(NewWaits(t))>>

\* Seeded bug: the reactor is told when the timer was already waited on, too
\* late for the first wait.
TellsIfFirst(q, t, op) == Len(q.ops[t]) > 1

\* Whether the reactor must be told.
Tells(q, t, op) == IsEarliest(q, t, op)

\* async_wait, and schedule_timer.
AsyncWait(t) ==
  /\ CanBegin(t) /\ ~shut
  /\ pending' = [pending EXCEPT ![t] = TRUE]
  /\ LET o == NextWait(t)
         q == EnqueueTimer(QueueFor(t), expiry[t], t, o)
     IN  /\ queue' = [queue EXCEPT ![QueueOf[t]] = q]
         /\ status' = [status EXCEPT ![o] = "waiting"]
         /\ IF Tells(q, t, o) THEN UpdateTimeout(queue')
                              ELSE UNCHANGED fdVars
  /\ UNCHANGED <<now, program, expiry, reactorVars, shut>>

\* The reactor is shut down: the wait is posted to a scheduler that only
\* destroys what it holds.
AsyncWaitAfterShutdown(t) ==
  /\ CanBegin(t) /\ shut
  /\ pending' = [pending EXCEPT ![t] = TRUE]
  /\ Complete({NextWait(t)}, "destroyed")
  /\ UNCHANGED <<now, program, queue, expiry, fdVars, reactorVars, shut>>

\* cancel_timer takes as many waits as there are.
All(t) == Len(QueueFor(t).ops[t])

\* cancel: the flag saves locking the mutex.
Cancelled(t) == IF pending[t] THEN CancelTimer(QueueFor(t), t, All(t))
                              ELSE QueueFor(t)

Cancel(t) ==
  /\ Calls("cancel", t)
  /\ AbortBy(t, Cancelled(t))
  /\ pending' = [pending EXCEPT ![t] = FALSE]
  /\ UNCHANGED <<now, program, expiry, fdVars, reactorVars, shut>>

\* expires_at and expires_after cancel first.
ExpiresAt(t, e) ==
  /\ Calls("expires_at", t) /\ e \in program.times[t]
  /\ AbortBy(t, Cancelled(t))
  /\ pending' = [pending EXCEPT ![t] = FALSE]
  /\ expiry' = [expiry EXCEPT ![t] = e]
  /\ UNCHANGED <<now, program, fdVars, reactorVars, shut>>

\* Seeded bug: the flag is cleared although more waits may be pending.
PendingAfterOneNever(t) == FALSE

PendingAfterOne(t) == pending[t] /\ QueueFor(t).ops[t] # <<>>

CancelOne(t) ==
  /\ Calls("cancel_one", t) /\ pending[t]
  /\ AbortBy(t, CancelTimer(QueueFor(t), t, 1))
  /\ pending' = [pending EXCEPT ![t] = PendingAfterOne(t)]
  /\ UNCHANGED <<now, program, expiry, fdVars, reactorVars, shut>>

\* The cancellation handler of a wait, while its slot holds it.
CancelByKey(o) ==
  /\ Makes("cancel_by_key") /\ status[o] = "waiting"
  /\ AbortBy(o[1], CancelTimerByKey(QueueFor(o[1]), o[1], o))
  /\ UNCHANGED <<now, program, implVars, fdVars, reactorVars, shut>>

\* move_construct and move_assign: the reactor's move_timer cancels what waits
\* on the target.
Move(target, source) ==
  /\ Calls("move", target) /\ Calls("move", source) /\ target # source
  /\ QueueOf[target] = QueueOf[source]
  /\ AbortBy(target, MoveTimer(CancelTimer(QueueFor(target), target, All(target)),
                               target, source))
  /\ expiry' = [expiry EXCEPT ![target] = expiry[source], ![source] = 0]
  /\ pending' = [pending EXCEPT ![target] = pending[source], ![source] = FALSE]
  /\ UNCHANGED <<now, program, fdVars, reactorVars, shut>>

----------------------------------------------------------------------------
(* The thread that runs the reactor *)

\* The scheduler runs the task, and may be in a hurry.  Without timer
\* descriptor the timeout is calculated here.
EpollWait(block) ==
  /\ reactor = "idle" /\ ~shut
  /\ reactor' = "blocked"
  /\ until' = IF ~block THEN now
              ELSE IF timerFd THEN Never
              ELSE TimeoutAt(queue)
  /\ UNCHANGED <<now, program, queue, implVars, fdVars, status, shut>>

TimerFdReadable == timerFd /\ armed # Never /\ armed <= now

\* What makes epoll_wait return, besides the descriptors of others.
MustReturn ==
  TimerFdReadable \/ interrupted \/ (until # Never /\ until <= now)

Return ==
  /\ reactor = "blocked"
  /\ reactor' = IF TimerFdReadable \/ ~timerFd THEN "check" ELSE "idle"
  /\ until' = Never
  /\ interrupted' = FALSE
  /\ UNCHANGED <<now, program, queue, implVars, timerFd, armed, status, shut>>

ReturnInTime == MustReturn /\ Return
\* Some socket is ready, or a signal arrives.
ReturnForOthers == ~MustReturn /\ Return

\* Every queue gives up its ready timers.
Check ==
  /\ reactor = "check"
  /\ reactor' = "idle"
  /\ queue' = [q \in Queues |-> GetReadyTimers(queue[q], now)]
  /\ Complete(UNION {WaitingIn(queue[q]) \ WaitingIn(queue'[q]) : q \in Queues},
              "expired")
  /\ armed' = IF timerFd THEN TimeoutAt(queue') ELSE armed
  /\ UNCHANGED <<now, program, implVars, timerFd, interrupted, until, shut>>

----------------------------------------------------------------------------
(* The context, with no thread in it *)

\* In the child of a fork all descriptors are new.
ForkChild ==
  /\ Makes("fork") /\ reactor = "idle" /\ ~shut
  /\ armed' = IF timerFd THEN TimeoutAt(queue) ELSE Never
  /\ interrupted' = TRUE
  /\ UNCHANGED <<now, program, queue, implVars, timerFd, reactorVars, status,
                 shut>>

Shutdown ==
  /\ Makes("shutdown") /\ reactor = "idle" /\ ~shut
  /\ shut' = TRUE
  /\ queue' = [q \in Queues |-> GetAllTimers(queue[q])]
  /\ Complete({o \in Waits : status[o] = "waiting"}, "destroyed")
  /\ UNCHANGED <<now, program, implVars, fdVars, reactorVars>>

----------------------------------------------------------------------------

ReactorStep == EpollWait(TRUE) \/ ReturnInTime \/ Check

Next ==
  \/ Tick \/ ReactorStep \/ EpollWait(FALSE) \/ ReturnForOthers
  \/ \E t \in Timers :
       \/ AsyncWait(t) \/ AsyncWaitAfterShutdown(t) \/ Cancel(t) \/ CancelOne(t)
       \/ \E e \in 0 .. MaxTime : ExpiresAt(t, e)
       \/ \E s \in Timers : Move(t, s)
  \/ \E o \in Waits : CancelByKey(o)
  \/ ForkChild \/ Shutdown

Spec == Init /\ [][Next]_vars

\* Time passes, and the scheduler runs the task again and again.
FairSpec == Spec /\ WF_vars(Tick) /\ WF_vars(ReactorStep)

----------------------------------------------------------------------------
(* Properties *)

\* The heap and the timers agree, whatever is removed or moved: every entry is
\* that of a timer that waits, with the expiry the timer was given, the timer
\* knows where it is, and no entry is before its parent.
HeapSound ==
  ~shut => \A q \in Queues :
    LET h == queue[q].heap
    IN  /\ \A i \in DOMAIN h :
             /\ queue[q].index[h[i].timer] = i
             /\ queue[q].ops[h[i].timer] # <<>>
             /\ h[i].time = expiry[h[i].timer]
             /\ i > 1 => h[i \div 2].time <= h[i].time
        /\ \A t \in TimersOf(q) :
             queue[q].index[t] # 0 => queue[q].index[t] \in DOMAIN h

\* The list of active timers is linked both ways and holds exactly the timers
\* with waits, which are those in the heap: cancel() and the shutdown find
\* every wait, through the list alone.
ListSound ==
  \A q \in Queues :
    LET Q == queue[q]
        linked == {t \in TimersOf(q) : IsActive(Q, t)}
    IN  /\ Q.head # NoTimer => Q.head \in linked /\ Q.prev[Q.head] = NoTimer
        /\ \A t \in TimersOf(q) :
             /\ Q.next[t] # NoTimer => Q.prev[Q.next[t]] = t
             /\ Q.prev[t] # NoTimer => Q.next[Q.prev[t]] = t
             /\ t \in linked <=> Q.ops[t] # <<>>
             /\ Q.ops[t] # <<>> => t \in {Q.heap[i].timer : i \in DOMAIN Q.heap}

\* A timer that has waits keeps its flag, without which cancel() would do
\* nothing, and each wait is with one timer until it ends.
WaitsKept ==
  /\ \A t \in Timers : QueueFor(t).ops[t] # <<>> => pending[t]
  /\ \A o \in Waits :
       LET holders == {t \in Timers : o \in ToSet(QueueFor(t).ops[t])}
       IN  Cardinality(holders) = IF status[o] = "waiting" THEN 1 ELSE 0

\* The earliest time of all queues, and none before the present matters.
Deadlines == {queue[q].heap[1].time : q \in {r \in Queues : queue[r].heap # <<>>}}

\* The reactor is never asleep past the earliest timer: the descriptor is set
\* for it, or epoll_wait will be interrupted or return in time, or the timers
\* are about to be checked.
AlarmSet ==
  \A d \in Deadlines :
    LET due == Max({d, now})
    IN  \/ reactor = "check"
        \/ timerFd /\ armed # Never /\ armed <= due
        \/ /\ ~timerFd
           /\ \/ reactor = "idle" \/ interrupted
              \/ until # Never /\ until <= due

\* Again and again no wait is overdue: one whose time has come completes,
\* however the timers were scheduled, removed and moved before.
Overdue == {t \in Timers : QueueFor(t).ops[t] # <<>> /\ expiry[t] <= now}

ExpiredCompletes == []<>(Overdue = {})

\* TimerService implements Timers.
Abstract == INSTANCE Timers WITH
  Timer <- Timers, Wait <- Waits,
  waiting <- [t \in Timers |-> QueueFor(t).ops[t]]

ImplementsTimers == Abstract!Spec
============================================================================
