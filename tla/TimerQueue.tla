----------------------------- MODULE TimerQueue -----------------------------
(***************************************************************************)
(* asio::detail::timer_queue (detail/timer_queue.hpp), as functions from   *)
(* queues to queues.  A queue q is a record of                             *)
(*   heap   heap_, a sequence of entries [time, timer], of which the one   *)
(*          at i has its parent at i \div 2;                               *)
(*   head   timers_, the first of the list of active timers;               *)
(* and of the per_timer_data of every timer that uses it:                  *)
(*   index  heap_index_, 0 when the timer is not in the heap (positions    *)
(*          count from 1 here);                                            *)
(*   next, prev  its neighbours in the list;                               *)
(*   ops    its op_queue_.                                                 *)
(***************************************************************************)
EXTENDS Naturals, Sequences, SequencesExt

CONSTANTS NoTimer

EmptyQueue(timers) ==
  [heap |-> <<>>, head |-> NoTimer,
   index |-> [t \in timers |-> 0],
   next |-> [t \in timers |-> NoTimer], prev |-> [t \in timers |-> NoTimer],
   ops |-> [t \in timers |-> <<>>]]

\* The n-th iterate of a step: a loop of at most n rounds, when a step from
\* where the loop ends changes nothing.  The singletons make TLC evaluate each
\* round once.
Iterate(Step(_), x, n) ==
  LET it[k \in 0 .. n] ==
        IF k = 0 THEN x ELSE CHOOSE y \in {Step(z) : z \in {it[k - 1]}} : TRUE
  IN  it[n]

----------------------------------------------------------------------------
(* The heap *)

Before(q, i, j) == q.heap[i].time < q.heap[j].time

SwapHeap(q, i, j) ==
  [q EXCEPT !.heap = [@ EXCEPT ![i] = q.heap[j], ![j] = q.heap[i]],
            !.index = [@ EXCEPT ![q.heap[j].timer] = i,
                                ![q.heap[i].timer] = j]]

\* The loops carry the queue and the position of the entry they move.
At(q, i) == [queue |-> q, i |-> i]

UpStep(s) ==
  LET parent == s.i \div 2
  IN  IF s.i > 1 /\ Before(s.queue, s.i, parent)
        THEN At(SwapHeap(s.queue, s.i, parent), parent) ELSE s

UpHeap(q, start) == Iterate(UpStep, At(q, start), Len(q.heap)).queue

\* The smaller child, the right one when they are equal.
MinChild(q, i) ==
  IF 2 * i = Len(q.heap) \/ Before(q, 2 * i, 2 * i + 1) THEN 2 * i
                                                         ELSE 2 * i + 1

DownStep(s) ==
  LET child == MinChild(s.queue, s.i)
  IN  IF 2 * s.i <= Len(s.queue.heap) /\ ~Before(s.queue, s.i, child)
        THEN At(SwapHeap(s.queue, s.i, child), child) ELSE s

DownHeap(q, start) == Iterate(DownStep, At(q, start), Len(q.heap)).queue

PopBack(q) == [q EXCEPT !.heap = Front(@), !.index[Last(q.heap).timer] = 0]

\* Seeded bug: what took the place of the removed entry only goes down.
RestoreDownOnly(q, i) == IF i > Len(q.heap) THEN q ELSE DownHeap(q, i)

\* What took the place of a removed entry goes up or down.
Restore(q, i) ==
  IF i > Len(q.heap) THEN q
  ELSE IF i > 1 /\ Before(q, i, i \div 2) THEN UpHeap(q, i)
  ELSE DownHeap(q, i)

RemoveFromHeap(q, t) ==
  LET i == q.index[t]
  IN  IF i \in 1 .. Len(q.heap)
        THEN Restore(PopBack(SwapHeap(q, i, Len(q.heap))), i)
        ELSE q

----------------------------------------------------------------------------
(* The list of active timers *)

IsActive(q, t) == q.prev[t] # NoTimer \/ q.head = t

LinkFirst(q, t) ==
  [q EXCEPT !.head = t, !.next[t] = q.head,
            !.prev = [s \in DOMAIN @ |-> CASE s = t -> NoTimer
                                           [] s = q.head -> t
                                           [] OTHER -> @[s]]]

\* The neighbours of t in the list point to n and p instead of t.
Relink(q, t, n, p) ==
  [q EXCEPT !.head = IF @ = t THEN n ELSE @,
            !.next = [s \in DOMAIN @ |-> IF s = q.prev[t] THEN n ELSE @[s]],
            !.prev = [s \in DOMAIN @ |-> IF s = q.next[t] THEN p ELSE @[s]]]

Detach(q, t) == [q EXCEPT !.next[t] = NoTimer, !.prev[t] = NoTimer]

Unlink(q, t) == Detach(Relink(q, t, q.next[t], q.prev[t]), t)

RemoveTimer(q, t) == Unlink(RemoveFromHeap(q, t), t)

----------------------------------------------------------------------------
(* The operations of the queue *)

PushEntry(q, time, t) ==
  LET n == Len(q.heap) + 1
  IN  UpHeap([q EXCEPT !.heap = Append(@, [time |-> time, timer |-> t]),
                       !.index[t] = n], n)

EnqueueTimer(q, time, t, op) ==
  LET active == IF IsActive(q, t) THEN q ELSE LinkFirst(PushEntry(q, time, t), t)
  IN  [active EXCEPT !.ops[t] = Append(@, op)]

\* What enqueue_timer returns: whether the reactor waits for something else.
IsEarliest(q, t, op) == q.index[t] = 1 /\ Head(q.ops[t]) = op

\* The time until the earliest timer, at most max.
WaitDuration(q, now, max) ==
  IF q.heap = <<>> THEN max
  ELSE IF q.heap[1].time <= now THEN 0
  ELSE IF q.heap[1].time - now > max THEN max
  ELSE q.heap[1].time - now

\* The ready timer in front gives up its operations, and leaves.
ReadyStep(q, now) ==
  IF q.heap # <<>> /\ q.heap[1].time <= now
    THEN RemoveTimer([q EXCEPT !.ops[q.heap[1].timer] = <<>>],
                     q.heap[1].timer)
    ELSE q

GetReadyTimers(q, now) ==
  Iterate(LAMBDA r : ReadyStep(r, now), q, Len(q.heap))

\* The heap indices stay as they are.
GetAllTimers(q) ==
  [EmptyQueue(DOMAIN q.index) EXCEPT !.index = q.index]

\* Seeded bug: a timer without operations stays in the heap.
RemoveIfUnusedNever(q, t) == q

RemoveIfUnused(q, t) == IF q.ops[t] = <<>> THEN RemoveTimer(q, t) ELSE q

\* The first n operations of the timer, or all when there are fewer, leave it.
CancelTimer(q, t, n) ==
  IF IsActive(q, t)
    THEN RemoveIfUnused([q EXCEPT !.ops[t] =
           IF n < Len(@) THEN SubSeq(@, n + 1, Len(@)) ELSE <<>>], t)
    ELSE q

\* The key is that of one wait.
CancelTimerByKey(q, t, op) ==
  IF IsActive(q, t)
    THEN RemoveIfUnused([q EXCEPT !.ops[t] =
           RemoveFirst(@, op)], t)
    ELSE q

\* Seeded bug: the list still points to the timer that was moved from.
MoveLinksLeft(q, target, source) == q

\* The target takes the place of the source in the list.
MoveLinks(q, target, source) ==
  Detach([Relink(q, source, target, target) EXCEPT
            !.next[target] = q.next[source], !.prev[target] = q.prev[source]],
         source)

MoveTimer(q, target, source) ==
  LET i == q.index[source]
      heaped == [q EXCEPT
        !.ops = [q.ops EXCEPT ![target] = @ \o q.ops[source], ![source] = <<>>],
        !.index = [@ EXCEPT ![target] = i, ![source] = 0],
        !.heap = IF i \in DOMAIN @ THEN [@ EXCEPT ![i].timer = target] ELSE @]
  IN  MoveLinks(heaped, target, source)
============================================================================
