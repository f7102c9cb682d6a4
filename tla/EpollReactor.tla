---------------------------- MODULE EpollReactor ----------------------------
(***************************************************************************)
(* asio::detail::epoll_reactor (detail/impl/epoll_reactor.ipp), with the   *)
(* calls reactive_socket_service_base makes on it.  An operation that      *)
(* cannot be performed at once waits in the descriptor_state of its        *)
(* socket.  The thread that runs the reactor task collects edge-triggered  *)
(* events, and the scheduler runs each descriptor_state with its events as *)
(* an operation of its own, perhaps on another thread and much later: when *)
(* it is cancelled, closed, or given to another socket meanwhile.          *)
(*                                                                         *)
(* One action is one critical section of a descriptor_state's mutex, one   *)
(* epoll call or one critical section of the scheduler.  A socket is used  *)
(* by one thread at a time, as the program must see to, and close() takes  *)
(* three steps.  Completed operations wait in no particular order: the     *)
(* scheduler's queue is that of Scheduler, of which only the task and the  *)
(* descriptor_states are kept.  Timers, the interrupter and peers that     *)
(* reset the connection are left out.                                      *)
(***************************************************************************)
EXTENDS Integers, Sequences, FiniteSets, SequencesExt, FiniteSetsExt

CONSTANTS
  Sockets,    \* sockets and stream descriptors
  States,     \* descriptor_state objects
  NoState,
  TaskOp,     \* scheduler::task_operation_
  Workers,    \* threads that run the scheduler
  MaxOp,      \* bound on the operations started
  Programs,   \* each gives, by operation, the kinds it may be of
  MaxData,    \* units the receive buffer holds
  MaxRoom,    \* units the send buffer holds
  WriteSize   \* units a write operation sends

AllKinds == {"read", "wait", "write", "urgent"}
OpTypes == {"read", "write", "except"}

Ops == 1 .. MaxOp
KindsIn(p) == UNION {p[o] : o \in Ops}
Kinds == UNION {KindsIn(p) : p \in Programs}

ASSUME ReactorAssumption ==
  /\ NoState \notin States /\ TaskOp \notin States /\ NoState # TaskOp
  /\ IsFiniteSet(Sockets)
  /\ Kinds \subseteq AllKinds
  /\ MaxOp \in Nat /\ MaxData \in Nat /\ MaxRoom \in Nat
  /\ WriteSize \in Nat \ {0}

VARIABLES
  program,     \* of Programs, the one that runs
  phase,       \* of each socket: closed, open, or how far close() has come
  data,        \* base_implementation_type::reactor_data_
  \* The kernel's side of each socket
  files,       \* those that are regular files, which epoll does not support
  unread,      \* units in the receive buffer
  ended,       \* the peer sends no more
  urgent,      \* out-of-band data is there
  room,        \* room in the send buffer
  mask,        \* the events epoll looks for
  listed,      \* whether the socket is on epoll's list of ready ones
  \* descriptor_state
  opQueue,     \* op_queue_
  trySpeculative,
  registered,  \* registered_events_
  down,        \* the states whose shutdown_ is set
  live,        \* the states that are allocated
  \* The scheduler
  queue,       \* the task and descriptor_states, each with its task_result_
  pc, at,      \* what each worker does, and with which of those
  polled,      \* private queue of the worker that runs the task
  work,        \* outstanding_work_
  \* The operations
  op, status,  \* what each is, until its handler has run, and where
  result,      \* how it completed
  \* History, of the connection a socket has
  received,    \* how many units were received from it
  got,         \* which of them each operation received, counted from 1, or 0
  shut         \* the execution context has shut down its services

sockVars == <<phase, data>>
kernelVars == <<files, unread, ended, urgent, room, mask, listed>>
stateVars == <<opQueue, trySpeculative, registered, down, live>>
schedVars == <<queue, pc, at, polled>>
opVars == <<op, status, result>>
streamVars == <<received, got>>
vars == <<program, sockVars, kernelVars, stateVars, schedVars, work, opVars,
          streamVars, shut>>

\* What is in a queue of the scheduler: a state with its events, or the task.
Entry(d, ev) == [state |-> d, events |-> ev]
Task == Entry(TaskOp, {})
Nothing == Entry(NoState, {})

NoOp == [sock |-> "none", kind |-> "none"]

Init ==
  /\ program \in Programs
  /\ phase = [k \in Sockets |-> "closed"]
  /\ data = [k \in Sockets |-> NoState]
  /\ files = {}
  /\ unread = [k \in Sockets |-> 0]
  /\ ended = [k \in Sockets |-> FALSE]
  /\ urgent = [k \in Sockets |-> FALSE]
  /\ room = [k \in Sockets |-> MaxRoom]
  /\ mask = [k \in Sockets |-> {}] /\ listed = [k \in Sockets |-> FALSE]
  /\ opQueue = [d \in States |-> [j \in OpTypes |-> <<>>]]
  /\ trySpeculative = [d \in States |-> OpTypes]
  /\ registered = [d \in States |-> {}]
  /\ down = {} /\ live = {}
  /\ queue = <<Task>>
  /\ pc = [w \in Workers |-> "idle"] /\ at = [w \in Workers |-> Nothing]
  /\ polled = [w \in Workers |-> <<>>]
  /\ work = 0
  /\ op = [o \in Ops |-> NoOp] /\ status = [o \in Ops |-> "new"]
  /\ result = [o \in Ops |-> "none"]
  /\ received = [k \in Sockets |-> 0]
  /\ got = [k \in Sockets |-> [o \in Ops |-> 0]]
  /\ shut = FALSE

----------------------------------------------------------------------------
(* The kernel *)

ReadyEvents(k) == {j \in OpTypes : \/ j = "read" /\ (unread[k] > 0 \/ ended[k])
                                   \/ j = "write" /\ room[k] > 0
                                   \/ j = "except" /\ urgent[k]}

\* An edge for event j: epoll lists the socket if it looks for j.
Edge(k, j) == listed' = [listed EXCEPT ![k] = @ \/ j \in mask[k]]

\* epoll_ctl ADD and MOD look at the readiness there is.
Control(k, ev) ==
  /\ mask' = [mask EXCEPT ![k] = ev]
  /\ listed' = [listed EXCEPT ![k] = @ \/ ev \cap ReadyEvents(k) # {}]

Connected(k) == mask[k] # {} /\ ~shut

PeerSends(k) ==
  /\ Connected(k) /\ ~ended[k] /\ unread[k] < MaxData
  /\ unread' = [unread EXCEPT ![k] = @ + 1]
  /\ Edge(k, "read")
  /\ UNCHANGED <<sockVars, files, ended, urgent, room, mask, stateVars,
                 schedVars, work, opVars, streamVars, shut>>

PeerSendsUrgent(k) ==
  /\ Connected(k) /\ ~ended[k] /\ "urgent" \in KindsIn(program) /\ ~urgent[k]
  /\ urgent' = [urgent EXCEPT ![k] = TRUE]
  /\ Edge(k, "except")
  /\ UNCHANGED <<sockVars, files, unread, ended, room, mask, stateVars,
                 schedVars, work, opVars, streamVars, shut>>

PeerEnds(k) ==
  /\ Connected(k) /\ ~ended[k]
  /\ ended' = [ended EXCEPT ![k] = TRUE]
  /\ Edge(k, "read")
  /\ UNCHANGED <<sockVars, files, unread, urgent, room, mask, stateVars,
                 schedVars, work, opVars, streamVars, shut>>

\* The peer receives what was sent: an edge only if the buffer was full.
PeerReceives(k) ==
  /\ Connected(k) /\ room[k] < MaxRoom
  /\ room' = [room EXCEPT ![k] = MaxRoom]
  /\ IF room[k] = 0 THEN Edge(k, "write") ELSE UNCHANGED listed
  /\ UNCHANGED <<sockVars, files, unread, ended, urgent, mask, stateVars,
                 schedVars, work, opVars, streamVars, shut>>

----------------------------------------------------------------------------
(* Performing operations: ks are the kinds of those queued for one event *)

Before(ks, i, kind) == Cardinality({n \in 1 .. i - 1 : ks[n] = kind})
Available(k, ks, i) == unread[k] - Before(ks, i, "read")
RoomLeft(k, ks, i) ==
  IF k \in files THEN MaxRoom
                  ELSE room[k] - WriteSize * Before(ks, i, "write")
UrgentThere(k, ks, i) == urgent[k] /\ Before(ks, i, "urgent") = 0

\* reactor_op::perform of the operation at i, after those before it, returns
\* not_done.  A wait is always done, and so is an urgent receive, if only with
\* an error.
NotDone(k, ks, i) ==
  \/ ks[i] = "read" /\ Available(k, ks, i) = 0 /\ ~ended[k]
  \/ ks[i] = "write" /\ RoomLeft(k, ks, i) = 0

\* It returns done_and_exhausted: nothing was received, or not all was sent.
Exhausts(k, ks, i) ==
  \/ ks[i] = "read" /\ Available(k, ks, i) = 0
  \/ ks[i] = "write" /\ RoomLeft(k, ks, i) < WriteSize
  \/ ks[i] = "urgent" /\ ~UrgentThere(k, ks, i)

\* How many operations the loop of perform_io completes.
Performed(k, ks) ==
  Max({n \in 0 .. Len(ks) :
         \A i \in 1 .. n :
           ~NotDone(k, ks, i) /\ (i < n => ~Exhausts(k, ks, i))})

Outcome(k, ks, i) ==
  CASE ks[i] = "wait" -> "ready"
    [] ks[i] = "write" -> "sent"
    [] ks[i] = "urgent" -> IF UrgentThere(k, ks, i) THEN "received"
                                                    ELSE "invalid"
    [] OTHER -> IF Available(k, ks, i) > 0 THEN "received" ELSE "ended"

\* The unit that the read at i receives, of all of the connection.
UnitFor(k, ks, i) == received[k] + Before(ks, i, "read") + 1

\* What n[kind] operations of each kind, when they are performed, do to the
\* socket.
Consume(k, n) ==
  /\ unread' = [unread EXCEPT ![k] = Max({0, @ - n["read"]})]
  /\ room' = [room EXCEPT ![k] =
                IF k \in files THEN @ ELSE Max({0, @ - WriteSize * n["write"]})]
  /\ urgent' = [urgent EXCEPT ![k] = @ /\ n["urgent"] = 0]
  /\ received' = [received EXCEPT ![k] = @ + Min({unread[k], n["read"]})]

----------------------------------------------------------------------------
(* Operations *)

TypeOf(kind) == CASE kind = "write" -> "write"
                  [] kind = "urgent" -> "except"
                  [] OTHER -> "read"

\* async_read_some and async_write_some may be performed at once, a wait and
\* an urgent receive may not.
AllowsSpeculative(kind) == kind \in {"read", "write"}

NewOps == {o \in Ops : status[o] = "new"}
NextOp == Min(NewOps)

\* The operation starts, and is posted or queued: either way it is work.
Starts(k, kind, how, res) ==
  /\ op' = [op EXCEPT ![NextOp] = [sock |-> k, kind |-> kind]]
  /\ status' = [status EXCEPT ![NextOp] = how]
  /\ result' = [result EXCEPT ![NextOp] = res]
  /\ work' = work + 1

CanStart(k, kind) == NewOps # {} /\ ~shut /\ kind \in program[NextOp]

\* The socket is not open: reactor_data_ is null.
StartClosed(k, kind) ==
  /\ CanStart(k, kind) /\ phase[k] = "closed"
  /\ Starts(k, kind, "posted", "bad_descriptor")
  /\ UNCHANGED <<sockVars, kernelVars, stateVars, schedVars, streamVars, shut>>

Queued(k, j) == opQueue[data[k]][j]

\* Seeded bug: an operation is performed although others of its type wait.
MayPerformOvertaking(k, kind) == AllowsSpeculative(kind)

\* start_op may perform the operation, and need not look for its event.
MayPerform(k, kind) ==
  /\ Queued(k, TypeOf(kind)) = <<>>
  /\ AllowsSpeculative(kind)
  /\ kind = "read" => Queued(k, "except") = <<>>

Performs(k, kind) ==
  /\ MayPerform(k, kind)
  /\ TypeOf(kind) \in trySpeculative[data[k]]
  /\ ~NotDone(k, <<kind>>, 1)

\* It is performed at once.
StartPerformed(k, kind) ==
  /\ CanStart(k, kind) /\ phase[k] = "open"
  /\ Performs(k, kind)
  /\ Consume(k, [x \in AllKinds |-> IF x = kind THEN 1 ELSE 0])
  /\ trySpeculative' = [trySpeculative EXCEPT ![data[k]] =
       IF Exhausts(k, <<kind>>, 1) /\ registered[data[k]] # {}
         THEN @ \ {TypeOf(kind)} ELSE @]
  /\ Starts(k, kind, "posted", Outcome(k, <<kind>>, 1))
  /\ got' = IF kind = "read" /\ Outcome(k, <<kind>>, 1) = "received"
              THEN [got EXCEPT ![k][NextOp] = UnitFor(k, <<kind>>, 1)] ELSE got
  /\ UNCHANGED <<sockVars, files, ended, mask, listed, opQueue, registered,
                 down, live, schedVars, shut>>

\* The descriptor is one epoll does not support.
StartNotSupported(k, kind) ==
  /\ CanStart(k, kind) /\ phase[k] = "open"
  /\ ~Performs(k, kind)
  /\ Queued(k, TypeOf(kind)) = <<>> /\ registered[data[k]] = {}
  /\ Starts(k, kind, "posted", "not_supported")
  /\ UNCHANGED <<sockVars, kernelVars, stateVars, schedVars, streamVars, shut>>

\* Seeded bug: an operation that may be performed never asks epoll.
AsksEpollNever(k, kind) ==
  Queued(k, TypeOf(kind)) = <<>> /\ ~MayPerform(k, kind)

\* epoll looks for the event of the operation from now on, or looks again.
AsksEpoll(k, kind) ==
  /\ Queued(k, TypeOf(kind)) = <<>>
  /\ MayPerform(k, kind) => kind = "write" /\ "write" \notin registered[data[k]]

\* Seeded bug: op_queue_ is a stack.
PushFront(q, o) == <<o>> \o q

PushBack(q, o) == Append(q, o)

\* It waits for an event.
StartQueued(k, kind) ==
  /\ CanStart(k, kind) /\ phase[k] = "open"
  /\ ~Performs(k, kind)
  /\ Queued(k, TypeOf(kind)) = <<>> => registered[data[k]] # {}
  /\ opQueue' = [opQueue EXCEPT ![data[k]][TypeOf(kind)] = PushBack(@, NextOp)]
  /\ IF AsksEpoll(k, kind)
       THEN LET ev == registered[data[k]] \cup ({TypeOf(kind)} \cap {"write"})
            IN  /\ registered' = [registered EXCEPT ![data[k]] = ev]
                /\ Control(k, ev)
       ELSE UNCHANGED <<registered, mask, listed>>
  /\ Starts(k, kind, "queued", "none")
  /\ UNCHANGED <<sockVars, files, unread, ended, urgent, room, trySpeculative,
                 down, live, schedVars, streamVars, shut>>

\* The operations of S are posted as aborted: they were work already.
Abort(S) ==
  /\ status' = [o \in Ops |-> IF o \in S THEN "posted" ELSE status[o]]
  /\ result' = [o \in Ops |-> IF o \in S THEN "aborted" ELSE result[o]]
  /\ UNCHANGED <<op, work>>

\* Seeded bug: the loop over the queues ends before the last of them.
AllQueuesButLast == OpTypes \ {"except"}

\* The queues that cancel, close and shutdown empty.
AllQueues == OpTypes

QueuedIn(d) == UNION {ToSet(opQueue[d][j]) : j \in OpTypes}
Emptied(d) == UNION {ToSet(opQueue[d][j]) : j \in AllQueues}

\* The queues of a state after that.
EmptyQueues(q) == [j \in OpTypes |-> IF j \in AllQueues THEN <<>> ELSE q[j]]

CancelOps(k, S) ==
  /\ phase[k] = "open" /\ ~shut
  /\ Abort(S)
  /\ UNCHANGED <<sockVars, kernelVars, trySpeculative, registered, down, live,
                 schedVars, streamVars, shut>>

Cancel(k) ==
  /\ CancelOps(k, Emptied(data[k]))
  /\ opQueue' = [opQueue EXCEPT ![data[k]] = EmptyQueues(@)]

\* The operation at i of one queue has the key.
CancelByKey(k, j, i) ==
  /\ phase[k] = "open" /\ i \in DOMAIN Queued(k, j)
  /\ CancelOps(k, {Queued(k, j)[i]})
  /\ opQueue' = [opQueue EXCEPT ![data[k]][j] = RemoveAt(@, i)]

----------------------------------------------------------------------------
(* Opening and closing *)

\* do_open and do_assign: register_descriptor, with a state that may be
\* recycled.  Nothing is unread in a regular file here: its end is at once.
Open(k, d, isFile) ==
  /\ phase[k] = "closed" /\ ~shut /\ d \notin live
  /\ phase' = [phase EXCEPT ![k] = "open"]
  /\ data' = [data EXCEPT ![k] = d]
  /\ live' = live \cup {d} /\ down' = down \ {d}
  /\ trySpeculative' = [trySpeculative EXCEPT ![d] = OpTypes]
  /\ files' = IF isFile THEN files \cup {k} ELSE files
  /\ ended' = [ended EXCEPT ![k] = isFile]
  /\ LET ev == IF isFile THEN {} ELSE {"read", "except"}
     IN  /\ registered' = [registered EXCEPT ![d] = ev]
         /\ Control(k, ev)
  /\ UNCHANGED <<unread, urgent, room, opQueue, schedVars, work, opVars,
                 streamVars, shut>>

\* Seeded bug: a state freed by shutdown() stays with its socket.
DataKept(k) == data[k]

\* reactor_data_ after deregister_descriptor: null when the context has freed
\* the state.
DataLeft(k) == IF data[k] \in down THEN NoState ELSE data[k]

\* close(), first: deregister_descriptor.  A descriptor that may be shared is
\* removed from epoll, any other is when it is closed.
Deregister(k, closing) ==
  /\ phase[k] = "open"
  /\ phase' = [phase EXCEPT ![k] = "deregistered"]
  /\ data' = [data EXCEPT ![k] = DataLeft(k)]
  /\ IF data[k] \in down
       THEN UNCHANGED <<mask, listed, opQueue, down, opVars, work>>
       ELSE /\ mask' = [mask EXCEPT ![k] = IF closing THEN @ ELSE {}]
            /\ listed' = [listed EXCEPT ![k] = closing /\ @]
            /\ opQueue' = [opQueue EXCEPT ![data[k]] = EmptyQueues(@)]
            /\ down' = down \cup {data[k]}
            /\ Abort(Emptied(data[k]))
  /\ UNCHANGED <<files, unread, ended, urgent, room, trySpeculative, registered,
                 live, schedVars, streamVars, shut>>

\* Then the descriptor is closed, and what was not received is lost.
CloseDescriptor(k) ==
  /\ phase[k] = "deregistered"
  /\ phase' = [phase EXCEPT ![k] = "unlinked"]
  /\ mask' = [mask EXCEPT ![k] = {}] /\ listed' = [listed EXCEPT ![k] = FALSE]
  /\ unread' = [unread EXCEPT ![k] = 0]
  /\ ended' = [ended EXCEPT ![k] = FALSE] /\ files' = files \ {k}
  /\ urgent' = [urgent EXCEPT ![k] = FALSE]
  /\ room' = [room EXCEPT ![k] = MaxRoom]
  /\ received' = [received EXCEPT ![k] = 0]
  /\ got' = [got EXCEPT ![k] = [o \in Ops |-> 0]]
  /\ UNCHANGED <<data, stateVars, schedVars, work, opVars, shut>>

\* Then cleanup_descriptor_data frees the state.
Cleanup(k) ==
  /\ phase[k] = "unlinked"
  /\ phase' = [phase EXCEPT ![k] = "closed"]
  /\ data' = [data EXCEPT ![k] = NoState]
  /\ live' = live \ {data[k]}
  /\ UNCHANGED <<kernelVars, opQueue, trySpeculative, registered, down,
                 schedVars, work, opVars, streamVars, shut>>

----------------------------------------------------------------------------
(* The scheduler's threads *)

Listed == {k \in Sockets : listed[k] /\ mask[k] \cap ReadyEvents(k) # {}}

\* A thread takes the task and runs it: epoll_wait returns, and every state
\* with an event goes to the private queue.  Nothing else is put in the
\* scheduler's queue while the task is out of it, so that it does not matter
\* when the task was taken.
Poll(w) ==
  /\ pc[w] = "idle" /\ queue # <<>> /\ Head(queue) = Task
  /\ queue' = Tail(queue)
  /\ pc' = [pc EXCEPT ![w] = "polled"]
  /\ listed' = [k \in Sockets |-> FALSE]
  /\ polled' = [polled EXCEPT ![w] =
       SetToSeq({Entry(data[k], mask[k] \cap ReadyEvents(k)) : k \in Listed})]
  /\ UNCHANGED <<sockVars, files, unread, ended, urgent, room, mask, stateVars,
                 at, work, opVars, streamVars, shut>>

\* Seeded bug: the task goes back before the states it has returned.
WithTaskInFront(states) == <<Task>> \o states

\* The scheduler queues the task behind the descriptor operations.
WithTask(states) == Append(states, Task)

\* task_cleanup.
TaskCleanup(w) ==
  /\ pc[w] = "polled"
  /\ queue' = queue \o WithTask(polled[w])
  /\ polled' = [polled EXCEPT ![w] = <<>>]
  /\ pc' = [pc EXCEPT ![w] = "idle"]
  /\ UNCHANGED <<sockVars, kernelVars, stateVars, at, work,
                 opVars, streamVars, shut>>

\* do_run_one takes a descriptor_state off the queue, with its events.
TakeState(w) ==
  /\ pc[w] = "idle" /\ queue # <<>> /\ Head(queue) # Task
  /\ queue' = Tail(queue)
  /\ pc' = [pc EXCEPT ![w] = "perform"]
  /\ at' = [at EXCEPT ![w] = Head(queue)]
  /\ UNCHANGED <<sockVars, kernelVars, stateVars, polled, work, opVars,
                 streamVars, shut>>

\* Seeded bug: the operation that completes here is not counted as this one.
CompensationAlways(done) == 1

\* compensating_work_started, when no operation takes the place of this one.
Compensation(done) == IF done = <<>> THEN 1 ELSE 0

KindsOf(q) == [i \in DOMAIN q |-> op[q[i]].kind]

\* perform_io: the operations of type j that it completes, of all those of the
\* state d of the socket k.
DoneOf(k, d, ev, j) ==
  LET q == opQueue[d][j]
  IN  IF j \in ev THEN SubSeq(q, 1, Performed(k, KindsOf(q))) ELSE <<>>

DoneOfKind(k, d, ev, kind) ==
  LET j == TypeOf(kind)
  IN  Before(KindsOf(opQueue[d][j]), Len(DoneOf(k, d, ev, j)) + 1, kind)

\* Exceptional events go first.
DoneBy(k, d, ev) ==
  DoneOf(k, d, ev, "except") \o DoneOf(k, d, ev, "write")
    \o DoneOf(k, d, ev, "read")

Exhausted(k, d, ev) ==
  {j \in ev : LET n == Len(DoneOf(k, d, ev, j))
              IN  n > 0 /\ Exhausts(k, KindsOf(opQueue[d][j]), n)}

\* What becomes of those operations: the first completes here, and its handler
\* runs; the others are posted.
Complete(k, d, ev) ==
  LET all == DoneBy(k, d, ev)
      here == IF all = <<>> THEN {} ELSE {Head(all)}
      posted == ToSet(all) \ here
      QueueOf(o) == opQueue[d][TypeOf(op[o].kind)]
      PlaceOf(o) == CHOOSE i \in DOMAIN QueueOf(o) : QueueOf(o)[i] = o
      OutcomeOf(o) == Outcome(k, KindsOf(QueueOf(o)), PlaceOf(o))
      Receives(o) == o \in ToSet(all) /\ op[o].kind = "read"
                                      /\ OutcomeOf(o) = "received"
  IN  /\ op' = [o \in Ops |-> IF o \in here THEN NoOp ELSE op[o]]
      /\ status' = [o \in Ops |-> CASE o \in here -> "done"
                                    [] o \in posted -> "posted"
                                    [] OTHER -> status[o]]
      /\ result' = [o \in Ops |->
           IF o \in posted THEN OutcomeOf(o) ELSE result[o]]
      /\ got' = [got EXCEPT ![k] = [o \in Ops |->
           IF Receives(o) THEN UnitFor(k, KindsOf(QueueOf(o)), PlaceOf(o))
                          ELSE @[o]]]
      /\ opQueue' = [opQueue EXCEPT ![d] =
           [j \in OpTypes |->
              SubSeq(@[j], Len(DoneOf(k, d, ev, j)) + 1, Len(@[j]))]]
      /\ work' = work + Compensation(all) - 1
      /\ Consume(k, [x \in AllKinds |-> DoneOfKind(k, d, ev, x)])

\* descriptor_state::do_complete and perform_io, and the end of the operation
\* that a descriptor_state is for the scheduler: work_finished.
PerformIo(w) ==
  /\ pc[w] = "perform"
  /\ pc' = [pc EXCEPT ![w] = "idle"]
  /\ at' = [at EXCEPT ![w] = Nothing]
  /\ LET d == at[w].state
         ev == at[w].events
     IN  \/ /\ QueuedIn(d) = {}
            /\ trySpeculative' = [trySpeculative EXCEPT ![d] = @ \cup ev]
            /\ work' = work + Compensation(<<>>) - 1
            /\ UNCHANGED <<unread, room, urgent, opQueue, opVars, streamVars>>
         \/ \E k \in Sockets :
              /\ QueuedIn(d) # {} /\ data[k] = d
              /\ trySpeculative' = [trySpeculative EXCEPT ![d] =
                                      (@ \cup ev) \ Exhausted(k, d, ev)]
              /\ Complete(k, d, ev)
  /\ UNCHANGED <<sockVars, files, ended, mask, listed, registered, down, live,
                 queue, polled, shut>>

\* A thread runs an operation that was posted.
RunPosted(o) ==
  /\ status[o] = "posted" /\ ~shut
  /\ \E w \in Workers : pc[w] = "idle"
  /\ op' = [op EXCEPT ![o] = NoOp]
  /\ status' = [status EXCEPT ![o] = "done"]
  /\ result' = [result EXCEPT ![o] = "none"]
  /\ work' = work - 1
  /\ UNCHANGED <<sockVars, kernelVars, stateVars, schedVars, streamVars, shut>>

\* The context is destroyed, with no thread in it: shutdown() of the reactor
\* frees every state, and every operation is destroyed.  Sockets may be closed
\* later.
Shutdown ==
  /\ ~shut /\ \A w \in Workers : pc[w] = "idle"
  /\ \A k \in Sockets : phase[k] \in {"closed", "open"}
  /\ shut' = TRUE
  /\ down' = down \cup live /\ live' = {}
  /\ opQueue' = [d \in States |-> IF d \in live THEN EmptyQueues(opQueue[d])
                                              ELSE opQueue[d]]
  /\ queue' = <<>>
  /\ status' = [o \in Ops |-> IF \/ \E d \in live : o \in Emptied(d)
                                 \/ status[o] = "posted"
                                THEN "destroyed" ELSE status[o]]
  /\ UNCHANGED <<sockVars, kernelVars, trySpeculative, registered, pc, at,
                 polled, work, op, result, streamVars>>

----------------------------------------------------------------------------

Thread(w) ==
  Poll(w) \/ TaskCleanup(w) \/ TakeState(w) \/ PerformIo(w)

Start(k, kind) ==
  \/ StartClosed(k, kind) \/ StartPerformed(k, kind)
  \/ StartNotSupported(k, kind) \/ StartQueued(k, kind)

Next ==
  /\ UNCHANGED program
  /\ \/ \E w \in Workers : Thread(w)
     \/ \E o \in Ops : RunPosted(o)
     \/ \E k \in Sockets :
          \/ PeerSends(k) \/ PeerSendsUrgent(k) \/ PeerEnds(k) \/ PeerReceives(k)
          \/ \E kind \in Kinds : Start(k, kind)
          \/ Cancel(k) \/ \E j \in OpTypes, i \in 1 .. MaxOp : CancelByKey(k, j, i)
          \/ \E d \in States, isFile \in BOOLEAN : Open(k, d, isFile)
          \/ \E closing \in BOOLEAN : Deregister(k, closing)
          \/ CloseDescriptor(k) \/ Cleanup(k)
     \/ Shutdown

Spec == Init /\ [][Next]_vars

----------------------------------------------------------------------------
(* Properties *)

\* The scheduler's queues link a descriptor_state once at most, and with it the
\* task: nobody sets the events of a state that is in a queue.
Once(q) == \A i, j \in DOMAIN q : q[i].state = q[j].state => i = j
Apart(p, q) == \A i \in DOMAIN p, j \in DOMAIN q : p[i].state # q[j].state

LinkedOnce ==
  /\ Once(queue)
  /\ \A w \in Workers : Once(polled[w]) /\ Apart(queue, polled[w])
  /\ \A v, w \in Workers : v # w => Apart(polled[v], polled[w])

\* Each operation of a socket waits in the state of that socket, at one place,
\* and states that are free have none: nothing of a closed socket is left to
\* the next one that gets its state.
OpsOfOwner ==
  /\ \A d \in States : \A o \in QueuedIn(d) :
       d \in live /\ data[op[o].sock] = d /\ phase[op[o].sock] = "open"
  /\ \A d, e \in States, h, j \in OpTypes :
       \A m \in DOMAIN opQueue[d][h], n \in DOMAIN opQueue[e][j] :
         opQueue[d][h][m] = opQueue[e][j][n] => d = e /\ h = j /\ m = n
  /\ \A o \in Ops : status[o] = "queued" <=> \E d \in States : o \in QueuedIn(d)

\* A socket that is about to free its state owns it alone, whether the context
\* is shut down or not: no state is freed twice.
FreesOwnState ==
  \A k \in Sockets :
    phase[k] \in {"deregistered", "unlinked"} /\ data[k] # NoState
      => data[k] \in live /\ \A l \in Sockets \ {k} : data[l] # data[k]

\* Outstanding work is exactly what is queued or posted, although no descriptor
\* operation is counted: the scheduler neither stops early nor runs for ever.
WorkIsOps ==
  ~shut => work = Cardinality({o \in Ops : status[o] \in {"queued", "posted"}})

\* Reads of a socket get its data in the order in which they were started,
\* whether they are tried at once, wait, or are completed together by one call of
\* perform_io: the units of a connection go to them in that order, and none goes
\* to a read while one that started earlier waits.
ReadsInOrder ==
  \A k \in Sockets : \A p \in {o \in Ops : got[k][o] > 0} :
    /\ \A o \in Ops : o < p /\ got[k][o] > 0 => got[k][o] < got[k][p]
    /\ \A o \in Ops : status[o] = "queued" /\ op[o].kind = "read"
                      /\ op[o].sock = k => p < o

\* The first operation that waits for j could be performed.  Once a read has
\* told the end of the stream, which clears try_speculative_, later ones may
\* wait for ever, as the README tells.
Performable(k, j) ==
  /\ phase[k] = "open" /\ ~shut
  /\ Queued(k, j) # <<>>
  /\ j \in ReadyEvents(k)
  /\ j = "read" => unread[k] > 0 \/ j \in trySpeculative[data[k]]

InQueues == ToSet(queue) \cup UNION {ToSet(polled[w]) : w \in Workers}

\* The event is on its way: in epoll, in a queue, or with a thread.
Notified(k, j) ==
  \/ listed[k] /\ j \in mask[k]
  \/ \E e \in InQueues \cup {at[w] : w \in Workers} :
       e.state = data[k] /\ j \in e.events

\* With edge-triggered events none is lost: while a waiting operation could be
\* performed, something is on its way to perform it.
NoLostEvent ==
  \A k \in Sockets, j \in OpTypes : Performable(k, j) => Notified(k, j)

============================================================================
