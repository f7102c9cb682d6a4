--------------------------- MODULE StrandExecutor ---------------------------
(***************************************************************************)
(* asio::strand: strand_executor_service (detail/impl/                     *)
(* strand_executor_service.ipp and .hpp).  A strand_impl has a flag        *)
(* locked_, a queue of functions that wait and a queue of functions that   *)
(* are ready.  Only the thread that holds the strand touches the ready     *)
(* queue, without the mutex; it holds the strand from the call that set    *)
(* locked_, through the invoker it gives to the inner executor, to the     *)
(* exit of an invoker that finds nothing more to do.                       *)
(*                                                                         *)
(* A thread is a stack of frames, so that dispatch() may run a function or *)
(* a whole invoker inside a function.  One action is one critical section  *)
(* of the strand's mutex, or one step outside it.                          *)
(*                                                                         *)
(* The inner executor is external: a pool of submitted invokers, run by    *)
(* any of its threads.                                                     *)
(***************************************************************************)
EXTENDS Integers, Sequences, FiniteSets, SequencesExt

CONSTANTS
  Workers,   \* threads of the inner executor
  Outside,   \* other threads, which only submit functions
  Strands, Funcs,
  NoThread, NoFunc,
  Throws     \* whether functions may exit by an exception

ASSUME StrandAssumption ==
  /\ Workers \cap Outside = {}
  /\ NoThread \notin Workers \cup Outside
  /\ NoFunc \notin Funcs
  /\ Throws \in BOOLEAN

Threads == Workers \cup Outside

VARIABLES
  locked,    \* strand_impl::locked_
  shutdown,  \* strand_impl::shutdown_, the same for all: set in one go
  waiting,   \* strand_impl::waiting_queue_
  ready,     \* strand_impl::ready_queue_
  pool,      \* strands whose invoker is submitted to the inner executor
  stack,     \* the frames of each thread, innermost last
  fresh,     \* functions not yet submitted
  finished,  \* functions that ended or were destroyed
  order      \* history: per strand, the functions in the order of enqueue()

vars == <<locked, shutdown, waiting, ready, pool, stack, fresh, finished, order>>

(* Frames.  A thread in a call that must schedule the strand has, in turn,  *)
(* "acquired" (locked_ is set, the function is not yet in the ready queue)  *)
(* and "schedule".  An invoker is "invoker", and "exit" when a function has *)
(* thrown; when it must submit itself again it is "again".  A function is   *)
(* "function".                                                              *)
Frame(kind, s, f, inline) == [kind |-> kind, strand |-> s, func |-> f,
                              inline |-> inline]

Top(t) == stack[t][Len(stack[t])]
TopIs(t, kind) == stack[t] # <<>> /\ Top(t).kind = kind
Push(t, fr) == stack' = [stack EXCEPT ![t] = Append(@, fr)]
Pop(t) == stack' = [stack EXCEPT ![t] = Front(@)]
Become(t, fr) == stack' = [stack EXCEPT ![t] = Append(Front(@), fr)]

\* running_in_this_thread: call_stack<strand_impl>::contains.  The context is
\* there for run_ready_handlers, not for the exit of the invoker.
RunningInThisThread(t, s) ==
  \E i \in DOMAIN stack[t] :
    stack[t][i].kind = "invoker" /\ stack[t][i].strand = s

Init ==
  /\ locked = [s \in Strands |-> FALSE]
  /\ shutdown = FALSE
  /\ waiting = [s \in Strands |-> <<>>]
  /\ ready = [s \in Strands |-> <<>>]
  /\ pool = <<>>
  /\ stack = [t \in Threads |-> <<>>]
  /\ fresh = Funcs /\ finished = {}
  /\ order = [s \in Strands |-> <<>>]

----------------------------------------------------------------------------
(* Submitting a function *)

\* A call comes from a function, or from a thread outside the executor.
CanCall(t) == \/ TopIs(t, "function")
              \/ t \in Outside /\ stack[t] = <<>>

\* dispatch, and execute when blocking is possible, in the strand: the
\* function runs at once.
RunInline(t, s, f) ==
  /\ CanCall(t) /\ f \in fresh
  /\ RunningInThisThread(t, s)
  /\ fresh' = fresh \ {f}
  /\ Push(t, Frame("function", s, f, TRUE))
  /\ UNCHANGED <<locked, shutdown, waiting, ready, pool, finished, order>>

\* Seeded bug: an empty ready queue is taken for a free strand.
TakesStrandIfNothingReady(s) == ready[s] = <<>>

TakesStrand(s) == ~locked[s]

\* enqueue().  mayBlock tells dispatch and execute from post and defer, which
\* matters to RunInline and to how the invoker is submitted.
Enqueue(t, s, f, mayBlock) ==
  /\ CanCall(t) /\ f \in fresh
  /\ mayBlock => ~RunningInThisThread(t, s)
  /\ fresh' = fresh \ {f}
  /\ IF shutdown
       THEN /\ finished' = finished \cup {f}
            /\ UNCHANGED <<locked, waiting, stack, order>>
       ELSE /\ order' = [order EXCEPT ![s] = Append(@, f)]
            /\ IF TakesStrand(s)
                 THEN /\ locked' = [locked EXCEPT ![s] = TRUE]
                      /\ Push(t, Frame("acquired", s, f, mayBlock))
                      /\ UNCHANGED waiting
                 ELSE /\ waiting' = [waiting EXCEPT ![s] = Append(@, f)]
                      /\ UNCHANGED <<locked, stack>>
            /\ UNCHANGED finished
  /\ UNCHANGED <<shutdown, ready, pool>>

\* The end of enqueue(), after the mutex is released.
PushReady(t) ==
  /\ TopIs(t, "acquired")
  /\ LET fr == Top(t) IN
       /\ ready' = [ready EXCEPT ![fr.strand] = Append(@, fr.func)]
       /\ Become(t, Frame("schedule", fr.strand, NoFunc, fr.inline))
  /\ UNCHANGED <<locked, shutdown, waiting, pool, fresh, finished, order>>

\* The invoker goes to the inner executor: dispatch and execute run it at once
\* on a thread of that executor.
Schedule(t) ==
  /\ TopIs(t, "schedule")
  /\ LET fr == Top(t) IN
       IF fr.inline /\ t \in Workers
         THEN /\ Become(t, Frame("invoker", fr.strand, NoFunc, FALSE))
              /\ UNCHANGED pool
         ELSE /\ Pop(t)
              /\ pool' = Append(pool, fr.strand)
  /\ UNCHANGED <<locked, shutdown, waiting, ready, fresh, finished, order>>

----------------------------------------------------------------------------
(* Running the strand *)

\* The inner executor runs an invoker.
RunInvoker(t) ==
  /\ t \in Workers /\ stack[t] = <<>>
  /\ pool # <<>>
  /\ pool' = Tail(pool)
  /\ Push(t, Frame("invoker", Head(pool), NoFunc, FALSE))
  /\ UNCHANGED <<locked, shutdown, waiting, ready, fresh, finished, order>>

\* run_ready_handlers takes the next ready function, without the mutex.
RunNext(t) ==
  /\ TopIs(t, "invoker")
  /\ LET s == Top(t).strand IN
       /\ ready[s] # <<>>
       /\ ready' = [ready EXCEPT ![s] = Tail(@)]
       /\ Push(t, Frame("function", s, Head(ready[s]), FALSE))
  /\ UNCHANGED <<locked, shutdown, waiting, pool, fresh, finished, order>>

\* A function returns to the invoker, or to the function that dispatched it.
Return(t) ==
  /\ TopIs(t, "function")
  /\ finished' = finished \cup {Top(t).func}
  /\ Pop(t)
  /\ UNCHANGED <<locked, shutdown, waiting, ready, pool, fresh, order>>

\* A function throws.  Its invoker unwinds into on_invoker_exit; a function
\* that dispatched it may catch, and otherwise throws in its turn.
Throw(t) ==
  /\ Throws
  /\ TopIs(t, "function")
  /\ finished' = finished \cup {Top(t).func}
  /\ IF Top(t).inline
       THEN Pop(t)
       ELSE LET below == Front(stack[t]) IN
              stack' = [stack EXCEPT ![t] =
                Append(Front(below), Frame("exit", Top(t).strand, NoFunc, FALSE))]
  /\ UNCHANGED <<locked, shutdown, waiting, ready, pool, fresh, order>>

\* Seeded bug: functions that waited overtake those an exception left ready.
MergedInFront(s) == waiting[s] \o ready[s]

Merged(s) == ready[s] \o waiting[s]

\* Seeded bug: the strand is released although an exception left functions in
\* the ready queue.
MoreIfWaiting(s) == waiting[s] # <<>>

MoreToDo(s) == Merged(s) # <<>>

\* on_invoker_exit: push_waiting_to_ready, under the mutex.
Exit(t) ==
  /\ \/ TopIs(t, "exit")
     \/ TopIs(t, "invoker") /\ ready[Top(t).strand] = <<>>
  /\ LET s == Top(t).strand IN
       /\ ready' = [ready EXCEPT ![s] = Merged(s)]
       /\ waiting' = [waiting EXCEPT ![s] = <<>>]
       /\ locked' = [locked EXCEPT ![s] = MoreToDo(s)]
       /\ IF MoreToDo(s) THEN Become(t, Frame("again", s, NoFunc, FALSE))
                         ELSE Pop(t)
  /\ UNCHANGED <<shutdown, pool, fresh, finished, order>>

\* The invoker submits itself again, never to run at once.
Again(t) ==
  /\ TopIs(t, "again")
  /\ pool' = Append(pool, Top(t).strand)
  /\ Pop(t)
  /\ UNCHANGED <<locked, shutdown, waiting, ready, fresh, finished, order>>

\* shutdown(), when the context is destroyed and no thread is left in it: the
\* queues of every strand are destroyed, as are the invokers in the pool.
Shutdown ==
  /\ ~shutdown
  /\ \A t \in Threads : stack[t] = <<>>
  /\ shutdown' = TRUE
  /\ finished' = finished \cup UNION {ToSet(ready[s]) \cup ToSet(waiting[s]) : s \in Strands}
  /\ ready' = [s \in Strands |-> <<>>]
  /\ waiting' = [s \in Strands |-> <<>>]
  /\ pool' = <<>>
  /\ UNCHANGED <<locked, stack, fresh, order>>

----------------------------------------------------------------------------

Advance(t) ==
  \/ PushReady(t) \/ Schedule(t) \/ RunInvoker(t) \/ RunNext(t)
  \/ Return(t) \/ Throw(t) \/ Exit(t) \/ Again(t)

\* The next function submitted: which is of no importance.
NextFunc == CHOOSE f \in fresh : TRUE

Submit(t, s) ==
  /\ fresh # {}
  /\ \/ RunInline(t, s, NextFunc)
     \/ \E mayBlock \in BOOLEAN : Enqueue(t, s, NextFunc, mayBlock)

Next ==
  \/ \E t \in Threads : \/ Advance(t)
                        \/ \E s \in Strands : Submit(t, s)
  \/ Shutdown

Spec == Init /\ [][Next]_vars

\* Threads that can go on do, and functions end; nobody has to submit.
FairSpec == Spec /\ \A t \in Threads : WF_vars(Advance(t))

----------------------------------------------------------------------------
(* Properties *)

Frames == [kind : {"acquired", "schedule", "invoker", "exit", "again", "function"},
           strand : Strands, func : Funcs \cup {NoFunc}, inline : BOOLEAN]

\* Every variable keeps its type; a function frame always has a function.
TypeOK ==
  /\ locked \in [Strands -> BOOLEAN] /\ shutdown \in BOOLEAN
  /\ waiting \in [Strands -> Seq(Funcs)] /\ ready \in [Strands -> Seq(Funcs)]
  /\ pool \in Seq(Strands)
  /\ stack \in [Threads -> Seq(Frames)]
  /\ fresh \in SUBSET Funcs /\ finished \in SUBSET Funcs
  /\ order \in [Strands -> Seq(Funcs)]
  /\ \A t \in Threads : \A i \in DOMAIN stack[t] :
       stack[t][i].kind \in {"function", "acquired"} => stack[t][i].func # NoFunc

RunningIn(t, s) ==
  \E i \in DOMAIN stack[t] :
    stack[t][i].kind = "function" /\ stack[t][i].strand = s

\* Functions of one strand never run on two threads at a time.
NonConcurrent ==
  \A s \in Strands, t, u \in Threads :
    RunningIn(t, s) /\ RunningIn(u, s) => t = u

\* Every enqueued function runs in the end, or is destroyed by shutdown.
EnqueuedRuns ==
  \A s \in Strands, f \in Funcs : (f \in ToSet(order[s])) ~> (f \in finished)

----------------------------------------------------------------------------
(* The service implements the abstract strand. *)

Acquiring(s) ==
  {fr \in UNION {ToSet(stack[t]) : t \in Threads} :
     fr.kind = "acquired" /\ fr.strand = s}

Pending ==
  [s \in Strands |->
     SetToSeq({fr.func : fr \in Acquiring(s)}) \o ready[s] \o waiting[s]]

Running ==
  [s \in Strands |->
     {fr.func : fr \in {g \in UNION {ToSet(stack[t]) : t \in Threads} :
                          g.kind = "function" /\ g.strand = s}}]

Holder ==
  [s \in Strands |->
     IF \E t \in Threads : RunningIn(t, s)
       THEN CHOOSE t \in Threads : RunningIn(t, s) ELSE NoThread]

Abstract == INSTANCE Strand WITH
  pending <- Pending, running <- Running, holder <- Holder, over <- finished

ImplementsStrand == Abstract!Spec
============================================================================
