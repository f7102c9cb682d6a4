----------------------------- MODULE SignalSet -----------------------------
(***************************************************************************)
(* Signal sets: asio::detail::signal_set_service, one for each context,    *)
(* with the state that they share.  The signal handler writes the signal   *)
(* to a pipe.  Every service has the pipe registered with the reactor of   *)
(* its context; the thread that gets the event reads the pipe until it is  *)
(* empty, holding the descriptor's mutex, and delivers each signal to the  *)
(* sets of all services, holding the mutex of the shared state.            *)
(*                                                                         *)
(* One action is one critical section, one read of the pipe, or one signal.*)
(* A wait is named by its set and its number there.  What completes is     *)
(* posted, in no particular order.                                         *)
(***************************************************************************)
EXTENDS Naturals, Sequences, SequencesExt, FiniteSets, FiniteSetsExt

CONSTANTS
  Services,
  KeptFor,      \* of each service: itself, or the one that do_use_service
                \* found when it had made this one, which it then destroys
  Sets,
  ServiceOf,    \* the service of each set
  SignalNumbers,
  NoSignal,
  NoService,
  PipeSize,     \* how many signals the pipe holds
  MaxWaits,     \* bound on the number of waits on a set
  Programs      \* what the user does, see below

\* A program uses these services, sets and signals; it waits waits[x] times on
\* set x, raises that many signals, forks that many times, and makes the calls
\* of calls besides.
AllCalls ==
  {"remove", "clear", "cancel", "cancel_by_key", "shutdown"}

ASSUME SignalAssumption ==
  /\ KeptFor \in [Services -> Services] /\ ServiceOf \in [Sets -> Services]
  /\ \A s \in Services : KeptFor[KeptFor[s]] = KeptFor[s]
  /\ \A x \in Sets : KeptFor[ServiceOf[x]] = ServiceOf[x]
  /\ IsFiniteSet(Services) /\ IsFiniteSet(Sets) /\ IsFiniteSet(SignalNumbers)
  /\ SignalNumbers \subseteq Nat /\ NoSignal \notin SignalNumbers
  /\ NoService \notin Services /\ PipeSize \in Nat \ {0} /\ MaxWaits \in Nat
  /\ \A p \in Programs :
       /\ p.services \subseteq Services /\ p.sets \subseteq Sets
       /\ p.signals \subseteq SignalNumbers
       /\ p.waits \in [Sets -> 0 .. MaxWaits] /\ p.raises \in Nat /\ p.forks \in Nat
       /\ p.calls \subseteq AllCalls

Waits == Sets \X (1 .. MaxWaits)

VARIABLES
  program,      \* the one that runs
  mutex,        \* signal_state::mutex_: who keeps it from step to step
  list,         \* service_list_
  pipe, open,   \* the pipe; whether there is one
  forkPrepared, \* fork_prepared_
  count,        \* registration_count_
  handled,      \* the signals that have asio_signal_handler
  phase,        \* of each service
  watched,      \* those whose reactor watches the pipe
  edge,         \* those whose reactor has an event for it
  performing,   \* those whose pipe_read_op is performed
  hand,         \* the signal each has read and not delivered yet
  undelivered,  \* of each set: its registrations and their undelivered_
  queue,        \* of each set: queue_
  status,       \* of each wait: new, waiting, a signal, or how it ended
  raised,       \* the number of signals so far
  forked        \* the number of forks

stateVars == <<mutex, list, forkPrepared>>
pipeVars == <<pipe, open>>
handlerVars == <<count, handled>>
reactorVars == <<watched, edge, performing, hand>>
setVars == <<undelivered, queue, status>>
userVars == <<program, raised, forked>>
vars == <<userVars, stateVars, pipeVars, handlerVars, phase, reactorVars,
          setVars>>

\* How a wait is: with a signal, or without.
Got(g) == [how |-> "signal", signal |-> g]
Plain(how) == [how |-> how, signal |-> 0]

Init ==
  /\ program \in Programs
  /\ mutex = NoService /\ list = {} /\ forkPrepared = FALSE
  /\ pipe = <<>> /\ open = FALSE
  /\ count = [g \in SignalNumbers |-> 0] /\ handled = {}
  /\ phase = [s \in Services |-> "none"]
  /\ watched = {} /\ edge = {} /\ performing = {}
  /\ hand = [s \in Services |-> NoSignal]
  /\ undelivered = [x \in Sets |-> <<>>] /\ queue = [x \in Sets |-> <<>>]
  /\ status = [w \in Waits |-> Plain("new")]
  /\ raised = 0 /\ forked = 0

Makes(call) == call \in program.calls
MutexFree == mutex = NoService

----------------------------------------------------------------------------
(* The services *)

Duplicate(s) == KeptFor[s] # s

\* register_internal_descriptor: epoll tells of what is in the pipe already.
Watch(s, contents) ==
  /\ watched' = watched \cup {s}
  /\ edge' = edge \cup {r \in {s} : contents # <<>>}
  /\ UNCHANGED <<performing, hand>>

\* deregister_internal_descriptor takes the descriptor's mutex, and an event
\* that comes all the same finds no operation.
Unwatch(s) ==
  /\ s \notin performing
  /\ watched' = watched \ {s} /\ edge' = edge \ {s}
  /\ UNCHANGED <<performing, hand>>

\* The constructor's add_service, until the mutex is released.
AddService(s) ==
  /\ MutexFree /\ ~forkPrepared
  /\ s \in program.services /\ phase[s] = "none"
  /\ phase' = [phase EXCEPT ![s] = "listed"]
  /\ list' = list \cup {s}
  /\ open' = TRUE /\ pipe' = IF list = {} THEN <<>> ELSE pipe
  /\ UNCHANGED <<userVars, mutex, forkPrepared, handlerVars, reactorVars,
                 setVars>>

AddToReactor(s) ==
  /\ phase[s] = "listed"
  /\ phase' = [phase EXCEPT ![s] = "up"]
  /\ Watch(s, pipe)
  /\ UNCHANGED <<userVars, stateVars, pipeVars, handlerVars, setVars>>

\* Seeded bug: the mutex is kept while the descriptor is deregistered.
KeptForRemoval(s) == s

\* Who has the mutex when remove_service waits for the descriptor's.
HeldForRemoval(s) == NoService

\* shutdown(), when no thread is in the context, or the destructor of a
\* service that is not needed, while the context runs: remove_service.
RemoveService(s) ==
  /\ MutexFree /\ ~forkPrepared /\ phase[s] = "up"
  /\ IF Duplicate(s)
       THEN phase[KeptFor[s]] = "up"
       ELSE /\ Makes("shutdown") /\ s \notin performing
            /\ \A r \in Services \ {s} :
                 KeptFor[r] = s => phase[r] \in {"none", "down"}
  /\ phase' = [phase EXCEPT ![s] = "removing"]
  /\ mutex' = HeldForRemoval(s)
  /\ UNCHANGED <<userVars, list, forkPrepared, pipeVars, handlerVars,
                 reactorVars, setVars>>

RemoveFromReactor(s) ==
  /\ phase[s] = "removing"
  /\ phase' = [phase EXCEPT ![s] = "removed"]
  /\ Unwatch(s)
  /\ UNCHANGED <<userVars, stateVars, pipeVars, handlerVars, setVars>>

SetsOf(s) == {x \in Sets : ServiceOf[x] = s}

\* The waits of S complete with this result.
Complete(S, result) ==
  status' = [w \in Waits |-> IF w \in S THEN result ELSE status[w]]

\* The second critical section of remove_service.  Then shutdown() abandons
\* what waits on the sets it finds in the table of registrations.
Unlist(s) ==
  /\ mutex \in {s, NoService} /\ phase[s] = "removed"
  /\ phase' = [phase EXCEPT ![s] = "down"]
  /\ mutex' = NoService
  /\ list' = list \ {s}
  /\ IF list' = {} THEN open' = FALSE /\ pipe' = <<>> ELSE UNCHANGED pipeVars
  /\ LET found == {x \in SetsOf(s) : undelivered[x] # <<>>}
     IN  /\ queue' = [x \in Sets |-> IF x \in found THEN <<>> ELSE queue[x]]
         /\ Complete(UNION {ToSet(queue[x]) : x \in found},
                 Plain("destroyed"))
  /\ UNCHANGED <<userVars, forkPrepared, handlerVars, reactorVars,
                 undelivered>>

----------------------------------------------------------------------------
(* Signals *)

\* asio_signal_handler: a write that fails is not noticed.
Raise(g) ==
  /\ raised < program.raises /\ g \in handled
  /\ raised' = raised + 1
  /\ IF open /\ Len(pipe) < PipeSize
       THEN pipe' = Append(pipe, g) /\ edge' = edge \cup watched
       ELSE UNCHANGED <<pipe, edge>>
  /\ UNCHANGED <<program, stateVars, open, handlerVars, phase, watched,
                 performing, hand, setVars, forked>>

\* A thread that runs the context has an event for the pipe.  A context is not
\* run while it is shut down.
StartPerform(s) ==
  /\ s \in edge \ performing
  /\ phase[s] = "up" \/ (phase[s] = "removing" /\ Duplicate(s))
  /\ performing' = performing \cup {s} /\ edge' = edge \ {s}
  /\ UNCHANGED <<userVars, stateVars, pipeVars, handlerVars, phase, watched,
                 hand, setVars>>

ReadPipe(s) ==
  /\ s \in performing /\ hand[s] = NoSignal /\ pipe # <<>>
  /\ hand' = [hand EXCEPT ![s] = Head(pipe)] /\ pipe' = Tail(pipe)
  /\ UNCHANGED <<userVars, stateVars, open, handlerVars, phase, watched, edge,
                 performing, setVars>>

\* The pipe is empty.  The operation stays in the descriptor's queue.
EndPerform(s) ==
  /\ s \in performing /\ hand[s] = NoSignal /\ pipe = <<>>
  /\ performing' = performing \ {s}
  /\ UNCHANGED <<userVars, stateVars, pipeVars, handlerVars, phase, watched,
                 edge, hand, setVars>>

\* Seeded bug: one signal is read, as if another event would come.
PerformOnce(s) == performing \ {s}

\* do_perform goes on reading.
StillPerforming(s) == performing

\* Seeded bug: a signal goes to the sets of the service that has read it.
OwnReceivers(s, g) == {x \in SetsOf(s) : g \in DOMAIN undelivered[x]}

\* The registrations for g of all services in the list.
Receivers(s, g) ==
  {x \in Sets : ServiceOf[x] \in list /\ g \in DOMAIN undelivered[x]}

\* deliver_signal: all that waits on a set completes, and where nothing waits
\* the signal is counted.
Deliver(s) ==
  /\ MutexFree /\ hand[s] # NoSignal
  /\ LET g == hand[s]
         receivers == Receivers(s, g)
     IN  /\ undelivered' = [x \in Sets |->
                              IF x \in receivers /\ queue[x] = <<>>
                                THEN [undelivered[x] EXCEPT ![g] = @ + 1]
                                ELSE undelivered[x]]
         /\ queue' = [x \in Sets |-> IF x \in receivers THEN <<>> ELSE queue[x]]
         /\ Complete(UNION {ToSet(queue[x]) : x \in receivers}, Got(g))
  /\ hand' = [hand EXCEPT ![s] = NoSignal]
  /\ performing' = StillPerforming(s)
  /\ UNCHANGED <<userVars, stateVars, pipeVars, handlerVars, phase, watched,
                 edge>>

----------------------------------------------------------------------------
(* The calls on a set *)

Uses(x) == x \in program.sets /\ phase[ServiceOf[x]] = "up"

\* add() installs the handler with the first registration of a signal.
AddSignal(x, g) ==
  /\ MutexFree /\ Uses(x)
  /\ g \in program.signals \ DOMAIN undelivered[x]
  /\ undelivered' = [undelivered EXCEPT ![x] =
                       [h \in DOMAIN @ \cup {g} |-> IF h = g THEN 0 ELSE @[h]]]
  /\ count' = [count EXCEPT ![g] = @ + 1]
  /\ handled' = handled \cup {g}
  /\ UNCHANGED <<userVars, stateVars, pipeVars, phase, reactorVars, queue,
                 status>>

\* Seeded bug: the handler is removed with any registration.
ReleasedAlways(S) == S

\* The signals of S, one registration of each less, that have none then.
Released(S) == {g \in S : count[g] = 1}

\* The registrations for the signals of S are deleted, and with the last one
\* the default handler is restored.
Drop(x, S) ==
  /\ undelivered' = [undelivered EXCEPT ![x] =
                       [h \in DOMAIN @ \ S |-> @[h]]]
  /\ count' = [g \in SignalNumbers |->
                 IF g \in S THEN count[g] - 1 ELSE count[g]]
  /\ handled' = handled \ Released(S)
  /\ UNCHANGED <<userVars, stateVars, pipeVars, phase, reactorVars, queue,
                 status>>

RemoveSignal(x, g) ==
  /\ Makes("remove") /\ MutexFree /\ Uses(x)
  /\ g \in DOMAIN undelivered[x]
  /\ Drop(x, {g})

\* What is left to a set when its context has been shut down is to be
\* destroyed, by clear() and then cancel().
MayBeDestroyed(x) == x \in program.sets /\ phase[ServiceOf[x]] = "down"

Clear(x) ==
  /\ MutexFree
  /\ (Makes("clear") /\ Uses(x)) \/ MayBeDestroyed(x)
  /\ undelivered[x] # <<>>
  /\ Drop(x, DOMAIN undelivered[x])

\* A scheduler that is shut down destroys what is posted to it.
Aborted(x) == IF phase[ServiceOf[x]] = "down" THEN "destroyed" ELSE "aborted"

\* The waits of S are taken out of the queue of the set, and left are not.
Abort(x, S, left) ==
  /\ queue' = [queue EXCEPT ![x] = left]
  /\ Complete(S, Plain(Aborted(x)))
  /\ UNCHANGED <<userVars, stateVars, pipeVars, handlerVars, phase,
                 reactorVars, undelivered>>

Cancel(x) ==
  /\ MutexFree
  /\ (Makes("cancel") /\ Uses(x)) \/ MayBeDestroyed(x)
  /\ queue[x] # <<>>
  /\ Abort(x, ToSet(queue[x]), <<>>)

\* The cancellation handler of a wait, while its slot holds it.
CancelOpsByKey(w) ==
  /\ Makes("cancel_by_key") /\ MutexFree /\ Uses(w[1])
  /\ \E i \in DOMAIN queue[w[1]] :
       /\ queue[w[1]][i] = w
       /\ Abort(w[1], {w}, RemoveAt(queue[w[1]], i))

NewWaits(x) == {k \in 1 .. program.waits[x] : status[<<x, k>>].how = "new"}

\* Seeded bug: only the first registration of the set is looked at.
FirstUndelivered(x) ==
  {g \in DOMAIN undelivered[x] :
     undelivered[x][g] > 0 /\ g = Min(DOMAIN undelivered[x])}

Undelivered(x) == {g \in DOMAIN undelivered[x] : undelivered[x][g] > 0}

\* start_wait_op takes a signal that was counted, in ascending order, or joins
\* the queue.
StartWaitOp(x) ==
  /\ MutexFree /\ Uses(x) /\ NewWaits(x) # {}
  /\ LET w == <<x, Min(NewWaits(x))>>
         counted == Undelivered(x)
     IN  IF counted # {}
         THEN /\ undelivered' = [undelivered EXCEPT ![x][Min(counted)] = @ - 1]
              /\ Complete({w}, Got(Min(counted)))
              /\ UNCHANGED queue
         ELSE /\ queue' = [queue EXCEPT ![x] = Append(@, w)]
              /\ Complete({w}, Plain("waiting"))
              /\ UNCHANGED undelivered
  /\ UNCHANGED <<userVars, stateVars, pipeVars, handlerVars, phase,
                 reactorVars>>

----------------------------------------------------------------------------
(* A fork, with no thread in the only context, in which no service is made *)
(* or removed until the second notification *)

\* notify_fork(fork_prepare)
ForkPrepare(s) ==
  /\ forked < program.forks /\ MutexFree /\ ~forkPrepared
  /\ phase[s] = "up" /\ ~Duplicate(s) /\ list = {s}
  /\ forkPrepared' = TRUE /\ forked' = forked + 1
  /\ Unwatch(s)
  /\ UNCHANGED <<program, mutex, list, pipeVars, handlerVars, phase, setVars,
                 raised>>

\* Seeded bug: the parent does not watch the pipe again.
WatchNever(s, contents) == UNCHANGED reactorVars

WatchAgain(s, contents) == Watch(s, contents)

\* notify_fork(fork_parent)
ForkParent(s) ==
  /\ MutexFree /\ forkPrepared /\ list = {s}
  /\ forkPrepared' = FALSE
  /\ WatchAgain(s, pipe)
  /\ UNCHANGED <<userVars, mutex, list, pipeVars, handlerVars, phase, setVars>>

\* notify_fork(fork_child): the pipe is the parent's, this process gets a new
\* one.
ForkChild(s) ==
  /\ MutexFree /\ forkPrepared /\ list = {s}
  /\ forkPrepared' = FALSE
  /\ pipe' = <<>>
  /\ Watch(s, <<>>)
  /\ UNCHANGED <<userVars, mutex, list, open, handlerVars, phase, setVars>>

----------------------------------------------------------------------------

Perform(s) == StartPerform(s) \/ ReadPipe(s) \/ EndPerform(s) \/ Deliver(s)
ServiceStep(s) == AddToReactor(s) \/ RemoveFromReactor(s) \/ Unlist(s)
Fork(s) == ForkParent(s) \/ ForkChild(s)

Next ==
  \/ \E s \in Services :
       \/ AddService(s) \/ RemoveService(s) \/ ServiceStep(s)
       \/ Perform(s) \/ ForkPrepare(s) \/ Fork(s)
  \/ \E g \in SignalNumbers :
       \/ Raise(g)
       \/ \E x \in Sets : AddSignal(x, g) \/ RemoveSignal(x, g)
  \/ \E x \in Sets : Clear(x) \/ Cancel(x) \/ StartWaitOp(x)
  \/ \E w \in Waits : CancelOpsByKey(w)

Spec == Init /\ [][Next]_vars

\* The contexts are run, what a call has begun it ends, and a fork is followed
\* by one of the two other notifications.
FairSpec ==
  /\ Spec
  /\ \A s \in Services :
       WF_vars(Perform(s)) /\ WF_vars(ServiceStep(s)) /\ WF_vars(Fork(s))

----------------------------------------------------------------------------
(* Properties *)

\* No signal is counted while somebody waits for it: whatever is added,
\* delivered and cancelled in between, a wait never misses a notification that
\* its set has.
NoneMissed ==
  \A x \in Sets : queue[x] # <<>> =>
    \A g \in DOMAIN undelivered[x] : undelivered[x][g] = 0

\* The process handles a signal as long as some set has it, of whatever
\* context, and no longer.
HandlersMatch ==
  \A g \in SignalNumbers :
    LET sets == {x \in Sets : g \in DOMAIN undelivered[x]}
    IN  count[g] = Cardinality(sets) /\ (g \in handled <=> sets # {})

\* As long as there is a signal in the pipe every reactor that watches it knows:
\* it has an event, or a thread that has yet to find the pipe empty.  And
\* nobody watches a pipe that is closed.
PipeNotified ==
  /\ pipe # <<>> => watched \subseteq edge \cup performing
  /\ watched \subseteq list /\ (open <=> list # {})

\* Signals that are on their way.
InFlight(g) ==
  Cardinality({i \in DOMAIN pipe : pipe[i] = g})
    + Cardinality({s \in Services : hand[s] = g})
Flying == [g \in SignalNumbers |-> InFlight(g)]
AllInFlight == Len(pipe) + Cardinality({s \in Services : hand[s] # NoSignal})

\* SignalSet implements Signals.
Abstract == INSTANCE Signals WITH
  Group <- Services, Set <- Sets, GroupOf <- ServiceOf, Signal <- SignalNumbers,
  Wait <- Waits, Capacity <- PipeSize, groups <- list,
  flying <- Flying, total <- AllInFlight,
  queued <- undelivered, waiting <- queue

ImplementsSignals == Abstract!Spec

\* Again and again no signal is on its way: what the pipe holds is delivered,
\* though a service leaves, or the process forks.
SignalsArrive == []<>(\A g \in SignalNumbers : InFlight(g) = 0)

\* A service that is being removed is gone in the end: the thread that
\* delivers, with the descriptor's mutex, and the one that removes never wait
\* for each other.
RemoveEnds == []<>(\A s \in Services : phase[s] \notin {"removing", "removed"})
============================================================================
