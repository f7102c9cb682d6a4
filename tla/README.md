# A verification project for garak

garak is an asynchronous TCP framework in C++20. Its own code is small
(`garak/src`, `garak/examples`, `garak/tests`, `cmake`, and the Python `devkit`
that configures and builds it). What runs at run time is the header-only asio
library it carries in `garak/include/asio`, built stand-alone
(`ASIO_STANDALONE`), which on Linux means the `epoll_reactor`, POSIX threads,
mutexes and condition variables. These TLA+ modules model the concurrent core of
that library and devkit. TLC checks them on small instances, and TLAPS proves
their safety properties, and that each implements its abstract specification, for
every instance.

Paths below are relative to `src/garak/include/asio` unless they begin with
another directory of the repository.

## 1. Inventory

### How the parts interact

A *poster* counts its work in the scheduler and pushes an operation; a thread in
`run()` takes it and calls its handler without the lock. One entry of the
scheduler's queue, `task_operation_`, is not an operation but the turn of running
the *reactor*: the thread that takes it collects events into its private queue,
appends that queue and the marker to the shared one, and goes on. What it
collected are the `descriptor_state`s of sockets, operations themselves, which
perform the I/O in whatever thread runs them and post what completes. A *strand*
gives its inner executor one *invoker* at a time and runs its functions inside
it. Sockets, timers and signal sets are clients of the reactor: a socket through a
`descriptor_state` of its own, the timers through a queue per clock and one alarm,
the signal sets of all contexts through one pipe that every reactor watches.
Channels use only an executor, to which they post completions. An
*execution_context* owns all of these as *services*, made when first asked for and
destroyed newest first; a *thread pool* is a context with threads, and the
*resolver* is a service with a thread and a scheduler of its own.

### Modelled

**Scheduler** (`detail/impl/scheduler.ipp`, `detail/scheduler.hpp`,
`detail/posix_event.hpp`).
State: `outstanding_work_` (atomic), `op_queue_` with the marker, `stopped_`,
`shutdown_`, `task_`, `task_interrupted_`, the event with its count of waiters,
and for each thread a private queue and a private count of work.
Operations: `run`, `run_one`, `wait_one`, `poll`, `poll_one`, `stop`, `restart`,
the post functions, `work_started/finished`, `init_task`, `shutdown`, and the two
cleanups that run when the task or a handler ends.
Hard: everything a thread decides under the lock and does after it: the signal,
the interrupt, `stop()` after the count reached zero; exceptions from handlers.
Correct when no wakeup is lost, the task and every operation are in one place, the
count is exact, the scheduler stops by itself only when idle, and `stop()` and
`shutdown()` reach every thread.

**Strand executor** (`detail/impl/strand_executor_service.*`).
State, per strand: `locked_`, `waiting_queue_`, `ready_queue_`; `shutdown_`.
Operations: post, dispatch, defer, execute, the invoker and its exit, shutdown.
Hard: the ready queue is touched without the mutex; an invoker that leaves races
with a function that arrives; functions throw, and nest through other strands.
Correct when functions of a strand never overlap, start in order, and all run.

**Channels** (`experimental/detail/impl/channel_service.hpp`).
State: `send_state_`, `receive_state_`, the buffer, one queue of waiters whose
kind only the two states tell.
Operations: send, try_send, try_send_n, receive, try_receive, cancel, cancel by
key, close, reset, move, destruction, shutdown.
Hard: keeping two state machines in step through six branches each; undefined
behaviour (a wrong cast) when they are not.
Correct when the states tell what waits, and the whole is a bounded mailbox.

**Epoll reactor** (`detail/impl/epoll_reactor.*`, and its client
`detail/impl/reactive_socket_service_base.*`).
State, per descriptor: three operation queues, `try_speculative_`,
`registered_events_`, `shutdown_`; the pool of descriptor states; epoll's own list.
Operations: register, start_op, cancel, cancel by key, deregister, cleanup,
`run()`'s collecting of events, `perform_io`, shutdown.
Hard: edge-triggered readiness that comes between a failed attempt and the queue,
events of a socket that is closed and whose state was given to another, the
compensation of `outstanding_work_` for operations nobody counted.
Correct when no event is lost, no state is linked or freed twice, operations stay
with their socket, and work is exact.

**Timers** (`detail/timer_queue.hpp`, `detail/deadline_timer_service.hpp`, the
timers of `detail/impl/epoll_reactor.*`).
State: per clock a binary heap whose entries and timers know each other, a list of
the timers that have waits, the waits of each; per timer its expiry and
`might_have_pending_waits`; the timerfd, or none; where the reactor's thread is.
Operations: expires_at, async_wait, cancel, cancel_one, cancel by key, move, the
reactor's timeout, wait and check of the timers, fork, shutdown.
Hard: an entry that leaves the middle of the heap; a move, which must take along
four things; an alarm for the earliest of several clocks, set while another thread
is anywhere between calculating its timeout and checking the timers.
Correct when heap and list are sound, no wait is lost or early, and no alarm is
late.

**Signal sets** (`detail/impl/signal_set_service.ipp`).
State of the process: a pipe, the list of services, a count of registrations per
signal, `fork_prepared_`; per set: registrations with the number of undelivered
signals, a queue of waits.
Operations: add, remove, clear, cancel, cancel by key, wait, the signal handler,
reading the pipe and delivering, the creation and removal of a service, fork.
Hard: one edge-triggered pipe that several reactors read; two mutexes that
delivery and removal take in opposite orders; signals between any two steps.
Correct when a signal arrives once at every set that has it, is never counted
while somebody waits, handlers are installed exactly as long as somebody wants
them, and removal ends.

**Execution context, thread pool, resolver** (`detail/impl/service_registry.ipp`,
`impl/thread_pool.ipp`, `impl/execution_context.ipp`,
`detail/impl/resolver_service_base.ipp`, `detail/resolve_query_op.hpp`).
State: the list of services, who is constructing one; the pool's threads and its
unit of work; the resolver's thread, its scheduler and its unit of work there.
Operations: use_service, also from a constructor; post; attach, stop, join, wait;
async_resolve; fork; shutdown and destruction of the services.
Hard: services are made without the mutex; `join()` gives up the unit of work
while handlers begin operations; an operation of the resolver passes through two
schedulers, one of which is shut down while the other's thread still runs.
Correct when there is one service of each kind, older than those that need it, join
means that what was submitted before is done, every call returns, and nothing is left
at the end.

**devkit** (`devkit`, `tooling/*.py`).
State: the build directory, the lists of files of a `Clang` object, the exit
status. Operations: `compile`, `clang --format/--lint`, `package`.
Hard: a failing or interrupted step that goes unnoticed, and what it leaves for
the next invocation.
Correct when only legal files are formatted, all of them are, and success means
success.

### Not modelled

| part | state and operations | what makes it correct | why not (yet) |
|---|---|---|---|
| composed operations (`impl/read.hpp`, `write.hpp`, `read_until.hpp`, `connect.hpp`, `buffered_*`) | position in the buffers | all bytes, once, or an error | sequential; header templates that garak does not instantiate |
| TLS streams (`ssl/`) | engine, two timers that order reads and writes | one read and one write at a time | needs OpenSSL, which the build does not link |
| old strands (`detail/impl/strand_service.*`) | as the strand executor | as the strand executor | same algorithm, old interface |
| cancellation signals and slots | one handler per slot | | single-threaded by contract; their effect on queues is in EpollReactor and Channel |
| coroutines, promises, parallel groups | | | control transfer by the compiler; experimental |
| sockets, acceptors, pipes, serial ports | | | thin wrappers over system calls |
| threads, mutexes, events | | | primitives; the event's waiter count is part of Scheduler |
| executors, associators, tokens | | | compile-time machinery |
| buffers, addresses | | | sequential values |
| other platforms' back ends | | | not in the Linux build |
| garak's own library and tests | | | a version string |

The hazards of all these, each at its line and with the properties that cover
it, are listed in `PROJECT.json`.

## 2. Modules

| module | models | instantiated by |
|---|---|---|
| `Executor` | abstract: what an io_context promises | `Scheduler!Abstract` |
| `Scheduler` | the scheduler | `MCScheduler` |
| `SchedulerProofs` | theorems about `Scheduler`: types, the task, wakeups, work; that it implements `Executor` | |
| `Strand` | abstract: what a strand promises | `StrandExecutor!Abstract` |
| `StrandExecutor` | strand_executor_service | `MCStrandExecutor` |
| `Mailbox` | abstract: what a channel promises | `Channel!M` |
| `Channel` | basic_channel, basic_concurrent_channel | `MCChannel` |
| `ChannelProofs` | theorems about `Channel`; that it implements `Mailbox` | |
| `StrandProofs` | theorems about `StrandExecutor`; that it implements `Strand` | |
| `EpollReactor` | epoll_reactor with socket clients | `MCEpollReactor` |
| `EpollReactorProofs` | theorems about `EpollReactor` | |
| `TimerQueue` | timer_queue, as functions | `TimerService` extends it |
| `Timers` | abstract: what waitable timers promise | `TimerService!Abstract` |
| `TimerService` | deadline_timer_service, and epoll_reactor's timers | `MCTimerService` |
| `TimerServiceProofs` | theorems about `TimerQueue` and `TimerService`; that it implements `Timers` | |
| `Signals` | abstract: what signal sets promise | `SignalSet!Abstract` |
| `SignalSet` | signal_set_service | `MCSignalSet` |
| `SignalSetProofs` | theorems about `SignalSet`; that it implements `Signals` | |
| `Context` | execution_context, service_registry, thread_pool, resolver_service_base | `MCContext` |
| `ContextProofs` | theorems about `Context`; that it implements `Executor` | |
| `Devkit` | the development tool | `MCDevkit` |
| `DevkitProofs` | theorems about `Devkit` | |

Definitions keep the names of the source without the trailing underscore.
"Seeded bug" marks an operator that no specification uses: it is a wrong version
of the definition below it, against which the properties are tested.

### Scheduler

One action is one critical section of `mutex_`, one access to the atomic
`outstanding_work_`, one `pthread_cond_signal` made after the unlock, or one step
outside the lock. `owner` says which thread keeps the mutex between two steps.
`pc[t]` follows a thread through the code:

| pc | code |
|---|---|
| `loop`, `loop2`, `loop3` | the top of do_run_one, do_wait_one, do_poll_one; after the task of the latter two; `run` and `poll` return to `loop` |
| `wait`, `woken` | inside `event::wait`, before and after waking |
| `task`, `taskpoll`, `tclean` | in the reactor, blocking or not; `task_cleanup` |
| `exec`, `wpush` | in a handler (`operation::complete`); `work_cleanup` |
| `push` | a post that has counted its work and not yet pushed |
| `signal` | between the unlock and the signal; `ret` says where it goes on |
| `stop`, `wstop` | `work_finished` reached zero, `stop()` not yet called: as a call, or in `work_cleanup` |
| `join`, `end` | in `shutdown()` |

`posix_event::state_` is `eventSet` and the number of threads in `wait` or
`woken`: the code counts a waiter until it has the mutex again, and so does
`Waiters`. A spurious wakeup and the timeout of `wait_one` are `WakeUp`.
The reactor is seen from outside: operations are `armed` by `StartIo`, and
`TaskReturn` moves any sequence of them into the private queue.
A `continuation` post from a handler goes through `pq` and `pw`, as does every
post when `OneThread`. `Executor` sees the status of each operation, who runs it,
and who is on the way to `stop()`: a decision taken when nothing is left may be
carried out when something is there again, which the code allows, and the
abstract specification says so.

### StrandExecutor

A thread is a stack of frames, so that a function can dispatch into another
strand, or the same one, and run there inline. A frame `acquired` has set
`locked_` and not yet pushed to `ready_queue_`; `schedule` submits the invoker;
`invoker`, `exit` and `again` are the invoker running, leaving, and to be
submitted again. The mapping to `Strand` puts a function that is acquired at the
head of the strand's queue, before `ready` and `waiting`.

### Channel

A message is named by the operation that sends it, so that "the same message
twice" can be said. Casts to the wrong kind of operation set `undefined` instead
of stopping the model. `Uses` says which calls the program makes on a channel of
each capacity; the runs differ in it, as told below.
A move is five steps: `BeginMove` cancels the target under its mutex, the only one
that is taken; then follow the receive states, the send states, and the buffer, which
for `void()` messages is a number that is first copied and then set to zero
(`CopyBuffer`, `ClearBuffer`). `MovesRace` says whether others use the channels between
these steps, which only concurrent channels stand at all, and not even they (section 5). While a
move is in its last step, its buffer is counted as the target's.
The message of a sender waits in `waiters` with it, and `Mailbox` has a queue of
its own for each kind of waiter.

### EpollReactor

The kernel's side of a socket is what epoll promises about edges: `listed` is set
when something arrives and taken by `Poll`. `queue` and `polled` keep the task and
the descriptor states, each with the events that `task_result_` carries; posted
operations are a set, for `Scheduler` has their order. `close()` takes three
steps, `Deregister`, `CloseDescriptor`, `Cleanup`, between which other threads
move; a socket itself is used by one thread at a time, as asio requires.
Two history variables make the order of reads visible, for operations that are tried
at once and for those that `perform_io` completes: `received[k]` is how many units
were received from a connection, and `got[k][o]` which of them operation o received.

### TimerQueue and TimerService

`TimerQueue` has one operator per function of the C++ class; positions count from
1, so that the index 0 stands for the largest `size_t`, "not in the heap". Loops
are iterated steps. `TimerService` puts one queue per clock behind the reactor's
mutex, and adds the thread that runs the reactor: `reactor` is `idle`, `blocked` in
`epoll_wait` (until `until` at the latest), or about to `check` the timers. With a
timerfd `armed` is when it becomes readable, and the timeout is infinite; without,
the thread calculates its timeout, and whoever schedules an earlier timer
interrupts it. `Tick` is the clock. A wait is named by the timer it began on and
its number there; `CancelByKey` goes to that timer, as the code does, even when
the wait has moved. `Timers` knows no heap, no list and no alarm: a wait ends when
its time has come, or by a cancellation, and waits that come due may end in one
step.

### SignalSet

`phase[s]` follows a service: `listed` between the two halves of `add_service`,
`up`, then `removing`, `removed` and `down` through `remove_service`, which releases
the mutex of the shared state while it waits for that of the descriptor. A thread
in `performing` has the descriptor's mutex and reads the pipe signal by signal;
`hand` is the signal it has read and not yet delivered. `edge` is epoll's list:
a write to the pipe adds every watching reactor. `KeptFor` gives the service that
`do_use_service` keeps when it has made another, which it then destroys while the
context runs. `undelivered[x]` is a function on the signals that set x has. In
`Signals` a signal is in flight, in no order, and `Arrive` brings it to all sets at
once. How many of the waits of a set it ends, the first at least, `Arrive` leaves
open: the documentation says one, the code ends all (section 5).

### Context

The two schedulers are seen as `Executor` sees them: a count, `stopped`, and
operations in no order, with the `stop()` that follows the last operation in a step
of its own. `building[t]` is the stack of constructors that thread t is in, each
with the services it has yet to ask for (`Needs`). A lookup goes from `queued`
through `lookup` (in the resolver's thread) to `ready` (in the context's queue) and
`running`. The whole, with pool, registry and resolver, implements `Executor`
again: a lookup counts as pending wherever it is. Anybody may submit at any time,
while the pool is joined and afterwards as well, for nothing in the code checks it. The
history variable `promised` has the operations that `join()` and `wait()` are to wait
for: those submitted before the pool gave up its unit of work, and those that
handlers of promised operations began.

### Devkit

One invocation at a time, each ending in an exit status or interrupted at any
step. Programs (cmake, clang-format, clang-tidy, checkinstall) are external: each
may fail. What is kept between invocations is the tree.

## 3. Runs

| run | instance | distinct states | shows |
|---|---|---|---|
| `scheduler_safety` | 2 pool threads, 1 outside thread, 2 operations, all five Run* functions, handlers that throw | 494,550 | `TaskInOnePlace`, `WorkCount`, and that Scheduler implements Executor |
| `scheduler_live` | 2 threads in `run()`, 1 outside, 2 operations; fair | 56,437 | `NoLostWakeup`; queued operations run; `stop()` returns every thread; `run()` returns without work |
| `scheduler_own_thread` | a scheduler with its own thread, 2 outside threads, 3 operations; fair | 44,858 | `shutdown()` ends, and leaves nothing in a queue or with a thread |
| `strand` | 2 workers, 1 outside thread, 2 strands, 4 functions that throw; fair | 16,448 | `NonConcurrent`, `EnqueuedRuns`, and that StrandExecutor implements Strand, in which queued functions start one at a time and in order |
| `channel_mailbox` | 1 channel of capacity 0, 1 or 2; 5 sends, 4 receives, batches of 3 | 3,462 (symmetric) | `StatesTellWaiters`, and that Channel implements Mailbox |
| `channel_all` | 2 concurrent channels of capacity 0 or 1, every call, moves while nobody else uses the channel, 3 sends, 2 receives | 223,905 (symmetric) | whatever goes wrong, no message is received twice |
| `channel_cancel_closed` | 1 channel, close and cancel | | a finding |
| `reactor` | 1 socket, 1 descriptor state, 2 threads, 3 reads, writes and waits, or 2 operations of which one is an urgent receive, a receive buffer of two units, a send buffer of one, writes of two | 1,383,265 (symmetric) | `NoLostEvent`, `LinkedOnce`, `OpsOfOwner`, `FreesOwnState`, `WorkIsOps`, `ReadsInOrder` |
| `timers` | up to 6 timers on one clock, or 3 on two, with and without timerfd, in three programs; fair | 104,389 | `HeapSound`, `ListSound`, `WaitsKept`, `AlarmSet`, that TimerService implements Timers, and that overdue waits complete |
| `signals` | 3 sets, 2 contexts, a duplicate service, 2 signals, a pipe with 2 places, in three programs; fair | 125,619 | `NoneMissed`, `HandlersMatch`, `PipeNotified`, that SignalSet implements Signals, that signals arrive, and that removal ends |
| `context` | a pool of 2 threads to which another may attach, a pool with attached threads only, an io_context, and 2 threads that make services; 2 lookups, 2 other operations; fair | 340,534 | `ServicesInOrder`, `EndsCleanly`, `JoinedMeansDone`, that every call returns, and that Context implements Executor |
| `devkit_safety` | a part of the real tree with the real lists of `settings.py` | 202 | formatting reaches every legal file and no other; linting alone respects its list |

Every property of a passing run has a seeded bug that breaks it under the same
configuration.
Deadlock is not checked where the program may simply stop calling the API or has
run all its operations; devkit always accepts another invocation, and is checked.

### Bounds, and why they are enough

- *Threads.* Two runners and one poster are the fewest that give a sleeper, a
  thread that should wake it, and one that interferes. The lost wakeups and
  double wakeups of the scheduler's protocol need no third sleeper: a signal
  concerns one thread, and a broadcast all. Nothing in the proved invariants
  depends on the number.
- *Operations.* Each is submitted once. Two are enough for the queue to hold one
  while the other runs; with the three of `scheduler_own_thread` a handler can
  submit two continuations, so that all three cases of `work_cleanup` (`> 1`, `1`,
  `< 1`) happen.
- *Strands.* Two strands and four functions let a function dispatch into the other
  strand, which dispatches back, while a fourth arrives from outside.
  Functions are taken from `fresh` in a fixed order: they are alike.
- *Channels.* Capacity 2 has a buffer that is neither empty nor full; five sends
  and four receives pass through each branch with a waiter behind the last place
  of the buffer and a message left over; a batch of three crosses from waiting
  receivers to the buffer to the refusal. Two channels are what a move takes.
- *Reactor.* One socket that is closed and opened again on one descriptor state
  gives the recycling; a state and a thread more would only give independent
  copies. A write of two units into room for one is a partial write. Three
  operations are two reads behind a wait or beside a write, three reads, or two
  writes, of which the second finds no room, or any of them left over from a closed
  socket; with two units `perform_io` completes two reads of a queue at once, or the first
  while the other goes on waiting and one more comes. An urgent receive, which keeps
  reads from being tried at once, is combined with one operation of any kind. The constant
  `Programs` gives these combinations.
- *Timers.* Removing an entry from the middle of the heap moves another up only if
  that one lies in the other subtree: six entries are the fewest, and the program
  `Deep` fills the heap in the order that makes it happen. The clock goes to
  `MaxTime` = 2: before, at and after an expiry. `MaxWait` = 1, less than that, so
  that the alarm of five minutes runs out before the timer and is set again.
  `MaxWaits` = 2 waits on a timer, so that `cancel_one` leaves one.
  Two timers with two and one waits pass through every call; a third, on
  another clock, makes the minimum over the queues matter.
- *Signals.* Two signals for the order in which counted ones are taken, two sets in
  one context and one in another, three raises for a pipe with two places, and
  `MaxWaits` = 2 waits on a set, so that one is cancelled and one stays. Two
  contexts that shut down in any order, and a duplicate, give every way in which
  services come and go beside a reader.
- *Context.* Two threads ask for services at the same time, three levels of which
  need each other (`sockets`, `reactor`, `scheduler`); two lookups, so that one is
  in the resolver's queue while the other is performed; two other operations that
  handlers can begin, or a user's thread submit, while the pool is joined. One
  attached thread beside the pool's own is enough: threads are alike.
- *devkit.* The tree has a file in a directory within an ignored directory, a
  file in each list, and a CMake file.

### Fairness

`Scheduler!Fairness`: weak fairness of each runner's `LiveStep` and of every
thread's `CallStep`. The operating system runs every thread that can go on; a
timed wait of `wait_one` ends; a handler returns; the reactor, once interrupted or
not blocking, returns. Nobody has to call the API, no operation in the reactor has
to become ready, no sleeper has to wake by itself (`WakeUp` is fair only for
`wait_one`), and no handler has to throw. `poll()` in a loop is left out of the
liveness run with two threads: it can take and release the mutex for ever while
another thread finds it taken whenever it looks, and weak fairness, which is
all a POSIX mutex justifies, does not exclude that.
`StrandExecutor!FairSpec`: weak fairness of each thread's next step: a function ends, a
worker takes the next submitted invoker; a first-in-first-out pool of them is
what the scheduler is. `TimerService!FairSpec`: time passes, and a thread goes on to run
the reactor (`ReactorStep`: it waits, returns when something makes it, and checks);
that `epoll_wait` returns for others is not assumed. `SignalSet!FairSpec`: the
contexts are run (`Perform`), a constructor or a removal that has begun goes on
(`ServiceStep`), and a process that has prepared a fork notifies again; no signal
has to be raised and no call made. `Context!FairSpec`: every thread goes on, that of
the resolver included, and so does the owner within a call; handlers return;
nobody has to begin anything. `Channel`, `EpollReactor` and `Devkit` are checked for
safety only.

## 4. Proofs

The constants have assumptions, which TLC evaluates in every run. They say that
model values are different from each other, and:

- `SchedulerAssumption`: threads inside and outside are different; hint 1 means one
  thread, as `io_context` documents. `OwnThreadAssumption`: `thread_` is one thread.
- `ContextAssumption`: the scheduler is the oldest service and needs no other; the
  resolver needs it; the threads of a pool are not those of the program, and only a
  pool has threads of its own.
- `ReactorAssumption`: there are finitely many sockets (`WorkIsOps` counts over
  them), a buffer has a size, and a write has something to write.
- `TimerAssumption`: each timer has a queue, that of its clock; the longest wait is
  positive; programs use the timers there are, within `MaxTime` and `MaxWaits`.
- `ChannelAssumption`: channels are used by others while they are moved (`MovesRace`)
  only if their mutex is a real one.
- `StrandAssumption`, `SignalAssumption`: the threads, and the services, are apart.
- `DevkitAssumption`: paths are a tree below the root of the project, stated as
  induction: a set that has the root, and with a directory all that is in it, has
  every path. What the lists of the settings name are paths.

Nothing else is assumed but where a theorem says so.

### Scheduler

For any sets of threads and operations, any `Modes`, with and without exceptions
and an own thread, `SchedulerProofs` proves

- `SchedulerTypeOK == Spec => []TypeOK`;
- `SchedulerTaskInOnePlace == Spec => []TaskInOnePlace`: once there is a task, it is
  at one position of the queue or with one thread. Two threads are never in the
  reactor, and the reactor is never forgotten.

Neither is inductive as it stands. `TypeOK` says that a thread at `push` may hold
`NoOp`, and pushing that would break the type of the queue: `PushOK`, `HandlerOK`.
`TaskInOnePlace` counts a thread at `signal` whose `ret` is a place of the task, so
the invariant has to say where nested steps return: `CallOK`, `CleanOK`. And
`shutdown()` clears the queue and `task_` while a thread other than its own could
hold the marker, but for `ShutOK`: after its beginning only the own thread moves,
and the last step waits for that one. So

    IInv == TypeOK /\ ControlOK /\ ShutOK /\ TaskInOnePlace
    ControlOK == PushOK /\ CallOK /\ CleanOK /\ HandlerOK

The lemmas at the beginning say what `Append`, `\o` and `Tail` do to the marker in
a sequence. Then each of the 25 actions has one lemma that it preserves `TypeOK`
and one that it preserves the rest; `NextIInv` has one step per action and puts
them together. `ShutOK` formalises what asio requires of a program: it may destroy
an io_context only when no other thread is in it (`BeginShutdown`'s guard).

It also proves `NoLostWakeupAlways`: while something is queued and a thread sleeps,
in the event or in the reactor, another is on its way to the queue.
It has the hypothesis

    Resident == Modes \subseteq Repeating /\ ~Throws

that threads stay in `run()` or `poll()` and no handler throws. Without it the
statement is false, of the code as of the model: `work_cleanup` wakes nobody for
what it adds to the queue, and a thread that leaves by `run_one()` or an exception
does not come back (see section 5). `NoLostWakeup` is not inductive, for it says
nothing of what the wakers decide by. That is the bit of the event (`EventOK`: it is
set while something is queued and a thread is inside the event, unless a thread is about to look
at the queue, which sets it if it leaves more behind) and `task_interrupted_`
(`InterruptOK`: over a thread in the reactor it is true only if the interrupter is
readable, since whoever set it interrupted, or the reactor took the queue empty).
`BackOK`, `LoopOK` and `SignalOK` say which threads are on their way.

Of the work it proves

- `ShutdownLeavesNothingAlways`, with no hypothesis: `shutdown()` loses no operation,
  whatever was under way;
- `WorkCountAlways`: `outstanding_work_` never drops below zero, and what is
  left over is exactly what is under way; `ZeroIsIdle`: it is zero only when nothing
  is counted, nobody holds a guard, and there is no own thread. These have the hypothesis `Finite`, that threads
  and operations are finitely many: otherwise there is nothing to count;
- `SchedulerImplementsExecutor == Spec => ImplementsExecutor`, with `Finite`.

The core is `OneForEach`: each operation is at exactly one of the places where the
code keeps operations. An action moves a set of them from one place to another
(`MovesTo`), so that one lemma per action serves the count, the refinement and
`ShutdownLeavesNothing`. `KeepsOK` says what each thread still has at each point
of the code, among it that its private count of work is never larger than its
private queue, without which an unsettled unit could bring the count to zero too
early; `InOrder` that queues have no operation twice, `CloseOK` what is left after
`shutdown()`. `WorkSum` is the equation on cardinalities. In the refinement
`Executor!StopWhenIdle` demands that nothing be pending when the decision to stop is
taken, which is `WorkSum` at the moment the count reaches zero.

### Strands

`StrandProofs` proves, for any sets of threads, strands and functions, with and
without exceptions:

- `StrandTypeOK == Spec => []TypeOK`;
- `NonConcurrentAlways == Spec => []NonConcurrent`: no two threads execute functions
  of one strand;
- `StrandImplements == Spec => ImplementsStrand`: what is queued starts once, in the
  order of `enqueue()`, while nothing of its strand runs.

`NonConcurrent` speaks of frames that run a function, but what excludes a second
thread is held earlier and given up later: by the thread that has set `locked` and
not pushed yet, by the invoker in the queue of the pool, by a thread in the exit of
the invoker. A strand is locked exactly while one of these exists, and there is
never a second. So the invariant is

    Inv     == QueuesOK /\ StacksOK /\ HoldInv
    HoldInv == StackOK /\ OneFrame /\ PoolOK /\ FramesOK

with `StackOK`: a function lies above the invoker of its strand, directly so unless it
runs inline; `OneFrame`: over all stacks there is at most one frame, other than of a
function, for each strand; `PoolOK`: an invoker is submitted once, and its strand is
locked; `FramesOK`: a strand with a frame is locked, and its invoker is not submitted
as well. Two functions of one strand then lie above the same invoker, hence on the
same stack. The lemmas first say what `Push`, `Pop` and
`Become` do to the stacks; each action has a lemma, and `NextInv` puts them together.

The refinement needs more, because the queue of `Strand` is spread over three places:

    RunInv == Inv /\ NestOK /\ HeadOK /\ FreshOK /\ OnceOK

`HeadOK`: a free strand has nothing queued, and nothing is ready while the thread
that took the strand has not pushed. This is what puts its function first, although it
pushes after the mutex is released. `NestOK`: only a function has a function
above it other than the invoker's own, so that a dispatch inside a strand finds its
own thread holding it. `FreshOK`: what is not submitted is in no place.
`OnceOK`: a running function has one frame, so that its end ends it. `RunningTold`,
`HolderTold` and `PendingTold` turn the mapping into statements about frames; most
actions then change none of the three.

### Channel

`ChannelProofs` proves, for any channels, operations, capacities and programs:

- `MessageNotDuplicatedAlways == MovedAlone => (Spec => []MessageNotDuplicated)`: a
  message is in one place, whatever the program calls;
- `StatesTellWaitersAlways == Settled => (Spec => []StatesTellWaiters)`: the two states
  tell what waits and what is stored, so that every cast in the service is right;
- `ChannelImplements == MailboxLike => (Spec => ImplementsMailbox)`: every step of the
  channel is one of a bounded mailbox, or a stutter.

All three hypotheses exclude what the code does not stand (section 5). `MovedAlone`:
nobody uses a channel while it is moved. `Settled` and
`MailboxLike` speak of the calls that the program makes, the constant `Uses`.
`Settled`: no channel is moved, and none is reset whose mutex is a real one. `MailboxLike`: in addition a
channel with a buffer is not cancelled, and one that is closed is neither
cancelled nor reset. The uses of `channel_mailbox` fulfil all three; those of
`channel_all` the first.

There are four invariants, each needing the one before:

- `Alone`: a move that is under way has two channels to itself, and nobody else
  acts on them until it is done;
- `Inv == TypeOK /\ Sorted /\ Received`: the result of an operation says which queue it
  is in (`ok`: a buffer or none, `waiting`: `waiters`, `copying`: `copies`), and
  it is there once. A message thus cannot be in two places whatever the states say, not
  even when an operation is taken for one it is not: this is why the first theorem has
  no hypothesis but `MovedAlone`;
- `StatesInv`: a channel has one of seven pairs of states, and `Matched` says what
  waits and is stored with each. That a sending end in state `buffer` has nobody waiting
  is the part that `StatesTellWaiters` lacks;
- `Room`: `send_state_` is `buffer` only while there is room and `block` only when the
  buffer is full. It is here that cancelling a channel with a buffer would break the
  refinement, and only here: the casts stay right.

`View` turns the refinement mapping into statements about the states; `ViewOnly` says
that an action on one channel changes one channel of the mailbox. What remains is a
lemma for each action. `RoomTaken`, `RoomKept` and `NoRoom` are the facts about
sequences behind receiving: to take the head of buffer and senders together, and
cut the rest to the capacity, is to let the first sender move up.

### Reactor

`EpollReactorProofs` proves, for any sockets, descriptor states, threads,
operations and sizes of the buffers: `FreesOwnStateAlways`, `OpsOfOwnerAlways`,
`LinkedOnceAlways`, `WorkIsOpsAlways`, `NoLostEventAlways` and `ReadsInOrderAlways`.
One invariant serves the first five:

    Inv == TypeOK /\ Owners /\ Masks /\ Waiting /\ Threads /\ Events /\ WorkIsOps

`Owners` says whose state a descriptor state is in each phase of `close()`: that a
state is freed by its owner alone follows only if no other socket was given it
between `Deregister` and `Cleanup`. `Masks` relates epoll's mask to
`registered_events_`, without which an event could be due that epoll does not look
for. `Waiting` adds to `OpsOfOwner` that a queue has operations of its own type, in
the order of their start. `Threads` says that whoever is in the reactor has
emptied the queue; the states it then collects are linked once. `Events` extends
`NoLostEvent` to a socket on which nobody waits yet: `try_speculative_` keeps the next
operation from being tried at once, so that an event has to be on its way
before the operation that will need it is there.

`ReadsInOrder` is inductive together with `Inv` and with the numbering of the units
(`Stream`): a unit that is received has a number above those of all that were received
before, the reads of a queue are in the order of their start (`Waiting`), `perform_io`
completes the first of them and gives them the next units in this order
(`BeforeLater`), and an operation is tried at once only when none of its type
is queued. A later read thus has a later unit, and none while an earlier one waits.

### Signal sets

`SignalSetProofs` proves, for any services, sets,
signals, programs and size of the pipe:

- `NoneMissedAlways`: a set never has a wait and a counted signal at once. That
  `StartWaitOp` takes the least of the counted signals needs that a finite set of
  numbers has one, by well-founded induction;
- `HandlersMatchAlways`: the count of registrations of a signal is the number of sets
  that have it, and the handler is installed exactly when that is not zero. It
  rests on `FS_AddElement` and `FS_RemoveElement`, once per signal that a call adds
  or removes;
- `PipeNotifiedAlways`: a reactor that watches the pipe knows of what is in it, and
  the pipe is open exactly while there are services. The induction needs to know
  in which phases a service is in the list, and which services may be watching
  when a fork ends or a service goes;
- `SignalSetImplements == Spec => ImplementsSignals`: a signal that is raised arrives
  once, at every set that has it then, where it ends the first wait at least, or is
  counted; it is lost only when the pipe is full, nobody is left, or in the child of
  a fork.

There are five invariants. `SetsInv` and `PipeInv` carry the first three theorems. The
refinement needs three more:

- `FlightInv`: what is on its way is in the pipe, which is empty when it is not open,
  or in the hand of a thread that performs `pipe_read_op`. Nobody watches or performs
  around a fork, and only a service that is up or being removed does. This is why
  `open_descriptors()` in the child, and the last service that leaves, may drop the
  pipe: no signal is in a hand, from which it would arrive later out of nowhere;
- `WaitsInv`: a wait is `new` until its set takes it or it begins;
- `QueueOK`: what waits on a set is a sequence of waits, of which a delivery ends a
  first part, the whole.

`Signals` has numbers where the code has a queue of bytes and threads: `InFlightIs`
gives both as cardinalities of sets of positions and of hands. That reading moves one
signal from the first set to the second, and changes neither number, is a bijection
between the positions of a sequence and of its `Tail`.

### Contexts

`ContextProofs` proves, for any threads, services with any needs, operations and
programs: `ServicesInOrderAlways`, `EndsCleanlyAlways`, `JoinedMeansDoneAlways`, and
`ContextImplementsExecutor == Spec => ImplementsExecutor`. The invariant is

    Inv == TypeOK /\ Control /\ Services /\ Work /\ Counts /\ Rest

`Control` says who may be in the context while its owner is in each call.
`Services` says that a constructor under way has been given what it no longer asks
for: `Given` is what makes the new service younger than all that it needs when
it is entered at last, although the mutex was released in between. `Work` puts each
operation in one place and `Counts` ties `outstanding_work_` to them; `Counts`
says itself that finitely many are under way, so that no set has to be finite.
`Rest` says of a pool that has stopped by itself that it is `Settled`: the unit of
work is given back, and all that was promised is done. It stays so whatever others
submit during and after the join (`PromisedNoMore`): what they submit is not promised, and
what is promised no longer runs, so that no handler can begin more of it. The count is
zero when the decision to stop is taken, which says that nothing is under way
(`ZeroSettles`), but no longer need be when it is carried out. `JoinedMeansDone` then
follows because the pool's own threads leave `run()` only when it has stopped; a pool
without any has nothing that `join()` could rely on (section 5).

### Timers

`TimerServiceProofs` proves, for any timers, queues, programs, and bounds on times
and waits, without a hypothesis:

- `HeapSoundAlways`, `ListSoundAlways`: the heap and the list of every queue are sound;
- `WaitsKeptAlways`: a wait is with one timer until it ends, and `cancel()` does not
  skip a timer that has waits;
- `AlarmSetAlways`: the reactor never sleeps past the earliest timer of any queue;
- `TimersImplement == Spec => ImplementsTimers`: no wait expires early, is lost or ends
  twice.

All rest on `TimerInvariant == Spec => []Inv`.

*Loops.* `up_heap`, `down_heap` and `get_ready_timers` are `Iterate(Step, x, n)`.
Induction with a predicate as parameter is not available, but a set will do for
one: `UpTo` is induction up to `n` for membership of a set, from the well-foundedness of
`<`. From it follows `IterationEnds`: the loop keeps what its step keeps, and after `n`
rounds the step changes nothing any more, if each round that does something brings a
measure (`Nearer`) down. The measure is the position for `up_heap`, what is below
it for `down_heap`, and the length of the heap for `get_ready_timers`.

*Heap.* What holds in the middle of a loop is that all is in order but around one entry:
`OpenAbove`, it may be before its parent; `OpenBelow`, it may be after its children; in
both what is below it is in order with what is above it. `remove_timer` fills the hole with the
last entry, which can be out of order on one side only, and the code decides rightly on
which.

*List.* That the neighbours point at each other is not enough: a timer could be its
own neighbour, and removing it would leave it in the list. `Linked` says that there is a
ranking of the timers that grows along the list (`LinkedBy`). A new first timer is
ranked just below the old one; `move_timer` gives the target the rank of the source.

*Queue.* `GoodQueue`: the heap and the list are sound, a timer is in both exactly when it
has waits, and entries have the times of their timers. Before the shutdown the queues
are `GoodQueue` with the times the timers have *now*, which is why `expires_at` must
cancel first; after it they are `Quiet`: `get_all_timers` leaves the old `heap_index_`
behind.

*Service.* The invariant is

    Inv == TypeOK /\ QueuesSound /\ Kept(Held, status) /\ FlagsKept /\ AlarmKept /\ DownIsIdle

`Held` gives the waits on each timer. `Kept`: those that wait are on one timer, and there
once. `AlarmKept` says `AlarmSet` of the first entry of every queue. It is inductive
because a call does not make any queue's earliest timer earlier (`NoEarlier`), whatever
it removes, moves or cancels, except a wait that becomes the earliest, and this one
tells the reactor (`Tells`). `KeptLess`, `KeptMoved`, `KeptMore` and `KeptDrained` say
what each kind of call does to the waits; each action has a lemma (`...Step`) and, for the
refinement, another (`...Maps`). That `cancel_one` and `cancel_timer_by_key` end one wait and
leave the others in their order is `TailIs` and `RemovedIs`.

### devkit

`DevkitProofs` proves, for any tree, files and lists, `ListsRespectedAlways`. The code goes up from a path to look for an
ignored directory (`InIgnoredDir`, a recursion over parents), the property speaks of
all that lies below one (`Below`, the least closed set). `InIgnoredDirIs` says that these
are the same: `InDirsLooksUp`, what lies below is a solution of the recursion, and
`LooksUpOnce`, by induction along the tree, the only one. The invariant then follows an
invocation:

    Inv == StepsOK /\ CollectedOK /\ FormattedOK /\ LintedOK

`CollectedOK` says that the lists of files are as new until something collects, which is
what linting alone relies on.

### Only model-checked

- Liveness under fairness, which is out of the prover's reach as `ENABLED` is:
  `QueuedOpRuns`, `StopReturns`, `RunReturnsWithoutWork` and `ShutdownEnds` of the
  scheduler, `EnqueuedRuns`, `ExpiredCompletes`, `SignalsArrive`, `RemoveEnds` and
  `CallsEnd`.

## 5. Findings

Where the code does something else than its own documentation says, in a run in
which TLC finds the counterexample:

`channel_cancel_closed`. `experimental/basic_channel.hpp:316`: cancel completes
"All outstanding send operations ... with the error channel_cancelled".
After `close()`, `send_state_` is `closed` while senders wait; `cancel()` casts
them to receives (`channel_service.hpp:231`), and they complete without an
error although their message is gone.

Seen while modelling, and kept out of the properties rather than given runs:

- `experimental/basic_concurrent_channel.hpp:88` says "Shared objects: Safe."
  `move_assign` takes the mutex of its target in `cancel()`, then changes both
  channels without one (`channel_service.hpp:120`): two threads that receive from the
  source and from the target get one `void()` message between them twice. `Channel` with
  `MovesRace` shows it as a violation of `MessageNotDuplicated`, and this is why
  `MessageNotDuplicatedAlways` has the hypothesis `MovedAlone`.
- `basic_signal_set.hpp:82` says "When the signal occurs, one handler is called for each
  signal_set object." `deliver_signal` completes all waits of the set with the one signal
  (`signal_set_service.ipp:574`). `Signals` leaves open how many of them end, so that
  an implementation of either kind satisfies it.
- `thread_pool.hpp:138` says "If @c stop() is not called prior to @c wait(), the @c wait()
  call will wait until the pool has no more outstanding work." `wait()` gives up the
  pool's unit of work and joins the threads that the pool has made
  (`thread_pool.ipp:133`): with attached threads only there are none, and it returns at once,
  whatever is outstanding. `join()`, of which line 127 says the same, does nothing
  then. `JoinedMeansDone` is therefore about pools with threads of their own; the
  program of `context` with attached threads does what is described here.
- `tooling/compiler.py:39` and `tooling/utils.py:86` promise "False otherwise".
  `Shell.execute` (`tooling/utils.py:90`) runs with `check=False` and returns True
  whatever the command returned: `devkit compile` exits with 0 after a failed
  configuration or build, and a build directory that was not configured is taken as
  configured from then on.
- `io_context.hpp:289` says that "All threads that are waiting in the pool are
  equivalent and the io_context may choose any one of them to invoke a handler."
  When a handler run by `run_one()` posts a continuation, `work_cleanup`
  (`scheduler.ipp:104`) appends it to the queue without waking anybody, because the
  thread is expected to go on with the queue, and `run_one()` returns instead: a
  thread that waits in `run()` sleeps on with the operation queued. `poll_one()`,
  and a handler that throws, do the same. `Scheduler` with `Modes` = `{"run",
  "run_one"}` shows it as a violation of `QueuedOpRuns`.
- `thread_pool(1)` gives its scheduler the hint 1, with which a post from a handler
  wakes nobody, although `attach()` can add threads (`thread_pool.ipp:88`).
- `thread_pool::wait()` gives back the pool's unit of work whenever it is called: twice,
  or after `join()`, it drives the count below zero (`thread_pool.ipp:133`). `join()`
  on a pool without threads of its own never gives it back, so that attached
  threads do not leave (`thread_pool.ipp:117`).
- Nothing keeps a thread outside a pool from submitting while the pool is joined, or
  after. Such an operation runs only if a thread is still in `run()`; the model lets
  it happen, and `JoinedMeansDone` does not promise it.
- Lookups that are queued in the resolver when the process forks stay there until
  another lookup makes a new thread (`resolver_service_base.ipp:77`).
- The cancellation handler of a timer's wait keeps the address of the timer it
  began on (`deadline_timer_service.hpp:263`): after a move it cancels nothing, and
  it dangles once that timer is destroyed.
- `fork_prepared_` is one flag for the process: when two contexts are notified of a
  fork, the first clears it, and the second never watches the pipe again
  (`signal_set_service.ipp:248`). A write to a full pipe loses the signal silently
  (`signal_set_service.ipp:77`). `shutdown()` finds waits through the registrations:
  those of a set without any stay until the set is destroyed.
- `cancel()` with a receiver waiting on a channel with a buffer puts
  `send_state_` to `block`, so that a later send waits although there is room
  (`channel_service.hpp:249`, against `basic_channel.hpp:335`). This is why
  `channel_mailbox` cancels only channels of capacity 0.
- A closed channel keeps its buffer, but `receive_state_` no longer tells it
  (`basic_channel.hpp:325`).
- Moving a channel moves its states and not its waiters
  (`basic_channel.hpp:188`), and `reset()` takes the mutex twice, between which
  another thread can begin to wait (`basic_concurrent_channel.hpp:309`). Both
  are in `channel_all`, neither in `channel_mailbox`.
- The end of the stream clears `try_speculative_` as an exhausted read does
  (`epoll_reactor.ipp:778`): a read that is queued behind the one that was told,
  or started later, waits for an edge that will not come. `NoLostEvent` leaves
  that case out.
- Events collected for a closed socket are performed on the next one that has
  its descriptor state, and complete an `async_wait` at once
  (`reactive_wait_op.hpp:47`): a spurious readiness.
- `devkit clang --format --lint` lints files that only clang-tidy is to ignore,
  since the list of files is not emptied in between (`clang.py:31`);
  `ListsRespected` is about linting alone. `Log.error` does not exit
  (`utils.py:54`), so that packaging goes on in a directory it has refused.

## 6. What the models leave out

- *Scheduler*: `run()` and `poll()` called from inside a handler; posting several
  operations at once; the hints that remove the mutex.
- *StrandExecutor*: the shared mutexes and the list of implementations. Sharing a
  mutex between strands orders critical sections that the model may interleave;
  none is left out.
- *Channel*: completion handlers, which are posted; the list of implementations; a
  move of a channel that is in another move.
- *Scheduler with hint 1*: modelled (`OneThread`) and covered by the theorems; no
  run instantiates it.
- *TimerService*: the blocking `wait()`, moving a timer to another context, times
  that never come (which get no entry in the heap), the rounding of durations, the
  work that a wait counts as.
- *SignalSet*: a `sigaction` that fails, signal numbers out of range, the check that
  a thread-unsafe context is alone. No call uses a set while its context is shut
  down, and a process forks while it has one context.
- *Context*: results and the cancel token of lookups, what other services do at a
  fork or when they are shut down, `add_service` and `has_service`, handlers that
  throw (they terminate a pool), hints other than the default. `wait()` is called
  once, and not after `join()`. The schedulers below are as in `Executor`.
- *EpollReactor*: the timers (in TimerService), the interrupter (in Scheduler and
  TimerService), registering descriptors again after a fork, connect and accept, errors of the peer, failures of `epoll_ctl`
  other than EPERM. Liveness: `NoLostEvent` says that the event is on its way, not
  that it arrives.
- *Devkit*: the text of commands and logs, and two invocations at the same time.

## 7. Plan

Done, in this order: Scheduler with Executor; StrandExecutor with Strand; Channel
with Mailbox; Devkit; EpollReactor; TimerQueue and TimerService with Timers;
SignalSet with Signals; Context. Then the theorems: types and the task of the
scheduler, strands, signal sets; wakeups, work and refinement of the scheduler;
contexts; the reactor; the refinement of Strand; channels; the refinement of Signals;
timers, with the refinement of Timers; devkit.

What is left that is worth a model:

1. liveness of the reactor: what is ready is served;
2. the cancel token of the resolver, against a lookup that is being performed;
3. composed operations (`read`, `write`, `read_until`), as loops over partial transfers;
4. the two timers with which `ssl::detail::io_op` orders reads and writes;
5. the completion count of `parallel_group`.

Every safety property that a passing run checks is a theorem, and every
refinement. Of what is only model-checked, liveness is out of the prover's reach.
