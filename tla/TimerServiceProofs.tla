-------------------------- MODULE TimerServiceProofs --------------------------
(***************************************************************************)
(* That the timer queue is sound, that no wait is lost, that the alarm is  *)
(* set for the earliest timer and that TimerService implements Timers, for *)
(* any timers, queues, programs, times, and numbers of waits.              *)
(*                                                                         *)
(* The first half is about the operations of one queue.  Its loops are     *)
(* iterated steps, so that a loop keeps what its step keeps, and has ended *)
(* when each step that changes something brings it nearer to the end.  A   *)
(* loop of the heap leaves it in order but for one entry.  The list is     *)
(* sound because the timers can be ranked along it: a list that is linked  *)
(* both ways could otherwise hold a timer that is its own neighbour.       *)
(*                                                                         *)
(* The second half is about the service.  Its invariant says of each queue *)
(* that it is sound with the times the timers have now, of the waits that  *)
(* each one that waits is on one timer and once, and of the reactor that   *)
(* its alarm comes in time.                                                *)
(***************************************************************************)
EXTENDS TimerService, FiniteSetTheorems, WellFoundedInduction,
        SequenceTheorems, TLAPS

----------------------------------------------------------------------------
(* Loops *)

\* A set of numbers has a least one.
LEMMA LeastNumber ==
  ASSUME NEW S, S \subseteq Nat, S # {}
  PROVE  \E m \in S : \A k \in S : m <= k
<1>1. \E m \in S : \A k \in S : ~(<<k, m>> \in OpToRel(<, Nat))
  BY NatLessThanWellFounded, WFMin
<1>2. \A k, m \in Nat : k < m => <<k, m>> \in OpToRel(<, Nat)
  BY DEF OpToRel
<1>3. PICK m \in S : \A k \in S : ~(<<k, m>> \in OpToRel(<, Nat))
  BY <1>1
<1>4. \A k \in S : ~(k < m)
  BY <1>2, <1>3
<1>5. QED
  BY <1>4

\* Induction up to n, with a set for the predicate.
LEMMA UpTo ==
  ASSUME NEW n \in Nat, NEW G, 0 \in G,
         \A k \in 0 .. n : k \in G /\ k < n => k + 1 \in G
  PROVE  \A k \in 0 .. n : k \in G
<1> DEFINE Bad == {k \in 0 .. n : k \notin G}
<1>1. SUFFICES ASSUME Bad # {} PROVE FALSE
  OBVIOUS
<1>2. PICK m \in Bad : \A k \in Bad : m <= k
  <2>1. Bad \subseteq Nat
    OBVIOUS
  <2>2. QED
    BY <1>1, <2>1, LeastNumber
<1>3. m \in 0 .. n /\ m # 0
  BY <1>2
<1>4. m - 1 \in 0 .. n /\ m - 1 < n /\ m - 1 < m /\ (m - 1) + 1 = m
  BY <1>3
<1>5. m - 1 \in G
  BY <1>2, <1>4
<1>6. QED
  BY <1>2, <1>4, <1>5

\* What an iteration of a function gives: there is one, and no other.
Iteration(it, F, x, n) ==
  it = [k \in 0 .. n |-> IF k = 0 THEN x ELSE F[it[k - 1]]]

\* A function of a set into itself can be iterated.
LEMMA IterationExists ==
  ASSUME NEW S, NEW F \in [S -> S], NEW x \in S, NEW n \in Nat
  PROVE  \E it \in [0 .. n -> S] : Iteration(it, F, x, n)
<1> DEFINE G == {m \in 0 .. n : \E it \in [0 .. m -> S] : Iteration(it, F, x, m)}
<1>1. 0 \in G
  <2> DEFINE it == [k \in 0 .. 0 |-> x]
  <2>1. it \in [0 .. 0 -> S] /\ Iteration(it, F, x, 0)
    BY DEF Iteration
  <2>2. QED
    BY <2>1
<1>2. ASSUME NEW m \in 0 .. n, m \in G, m < n PROVE m + 1 \in G
  <2>1. PICK it \in [0 .. m -> S] : Iteration(it, F, x, m)
    BY <1>2
  <2> DEFINE jt == [k \in 0 .. m + 1 |-> IF k = m + 1 THEN F[it[m]] ELSE it[k]]
  <2>2. it[m] \in S /\ F[it[m]] \in S
    OBVIOUS
  <2>3. jt \in [0 .. m + 1 -> S]
    BY <2>2
  <2>4. \A k \in 0 .. m + 1 : jt[k] = IF k = 0 THEN x ELSE F[jt[k - 1]]
    <3>1. TAKE k \in 0 .. m + 1
    <3>2. CASE k = m + 1
      BY <3>2
    <3>3. CASE k # m + 1
      <4>1. k \in 0 .. m /\ jt[k] = it[k]
        BY <3>3
      <4>2. it[k] = IF k = 0 THEN x ELSE F[it[k - 1]]
        BY <2>1, <4>1 DEF Iteration
      <4>3. k # 0 => jt[k - 1] = it[k - 1]
        BY <4>1
      <4>4. QED
        BY <4>1, <4>2, <4>3
    <3>4. QED
      BY <3>2, <3>3
  <2>5. Iteration(jt, F, x, m + 1)
    BY <2>3, <2>4 DEF Iteration
  <2>6. m + 1 \in 0 .. n
    BY <1>2
  <2>7. QED
    BY <2>3, <2>5, <2>6
<1>3. n \in 0 .. n
  OBVIOUS
<1> HIDE DEF G
<1>4. n \in G
  BY <1>1, <1>2, <1>3, UpTo
<1>5. QED
  BY <1>4 DEF G

\* It follows F from x for n rounds, as long as it stays in S.
Follows(it, F, S, x, n) ==
  it[0] = x /\ \A k \in 0 .. n : k < n /\ it[k] \in S => it[k + 1] = F[it[k]]

Nearer(F, left, S) == \A s \in S : F[s] = s \/ left[F[s]] < left[s]

\* What each round keeps, the loop keeps; and it has ended when each round that
\* changes something brings it nearer to the end.
LEMMA IterationEnds ==
  ASSUME NEW S, NEW F \in [S -> S], NEW x \in S, NEW n \in Nat, NEW it,
         Follows(it, F, S, x, n),
         NEW left \in [S -> Nat], left[x] <= n, Nearer(F, left, S)
  PROVE  it[n] \in S /\ F[it[n]] = it[n]
<1> DEFINE G == {k \in 0 .. n : /\ it[k] \in S
                                /\ F[it[k]] = it[k] \/ left[it[k]] <= n - k}
<1>1. 0 \in G
  BY DEF Follows
<1>2. ASSUME NEW k \in 0 .. n, k \in G, k < n PROVE k + 1 \in G
  <2>1. k + 1 \in 0 .. n
    BY <1>2
  <2>2. it[k] \in S /\ F[it[k]] \in S
    BY <1>2
  <2>3. it[k + 1] = F[it[k]]
    BY <1>2, <2>2 DEF Follows
  <2>4. left[it[k]] \in Nat /\ left[F[it[k]]] \in Nat
    BY <2>2
  <2>5. CASE F[it[k]] = it[k]
    BY <2>1, <2>2, <2>3, <2>5
  <2>6. CASE F[it[k]] # it[k]
    <3>1. left[F[it[k]]] < left[it[k]] /\ left[it[k]] <= n - k
      BY <1>2, <2>2, <2>6 DEF Nearer
    <3>2. left[F[it[k]]] <= n - (k + 1)
      BY <2>1, <2>4, <3>1
    <3>3. QED
      BY <2>1, <2>2, <2>3, <3>2
  <2>7. QED
    BY <2>5, <2>6
<1>3. n \in 0 .. n
  OBVIOUS
<1> HIDE DEF G
<1>4. n \in G
  BY <1>1, <1>2, <1>3, UpTo
<1>5. it[n] \in S /\ (F[it[n]] = it[n] \/ left[it[n]] <= 0)
  BY <1>4 DEF G
<1>6. left[it[n]] \in Nat /\ left[F[it[n]]] \in Nat
  BY <1>5
<1>7. F[it[n]] = it[n] \/ left[F[it[n]]] < left[it[n]]
  BY <1>5 DEF Nearer
<1>8. QED
  BY <1>5, <1>6, <1>7

\* The model evaluates each round through a singleton.
LEMMA TheOne == \A S, v : S = {v} => (CHOOSE y \in S : TRUE) = v
OBVIOUS

\* The loops of the model, each over a set that it does not leave.
LEMMA UpLoop ==
  ASSUME NEW S, NEW x \in S, NEW n \in Nat, \A s \in S : UpStep(s) \in S,
         NEW left \in [S -> Nat], left[x] <= n,
         \A s \in S : UpStep(s) = s \/ left[UpStep(s)] < left[s]
  PROVE  LET last == Iterate(UpStep, x, n)
         IN  last \in S /\ UpStep(last) = last
<1> DEFINE F == [s \in S |-> UpStep(s)]
           Round(it, k) == IF k = 0 THEN x
             ELSE CHOOSE y \in {UpStep(z) : z \in {it[k - 1]}} : TRUE
           jt == CHOOSE it : it = [k \in 0 .. n |-> Round(it, k)]
<1>1. Iterate(UpStep, x, n) = jt[n]
  BY DEF Iterate
<1>2. \A it, k : Round(it, k) = IF k = 0 THEN x ELSE UpStep(it[k - 1])
  <2>1. TAKE it, k
  <2>2. {UpStep(z) : z \in {it[k - 1]}} = {UpStep(it[k - 1])}
    OBVIOUS
  <2>3. QED
    BY <2>2, TheOne
<1>3. F \in [S -> S]
  OBVIOUS
<1>4. PICK it \in [0 .. n -> S] : Iteration(it, F, x, n)
  BY <1>3, IterationExists
<1>5. it = [k \in 0 .. n |-> Round(it, k)]
  <2>1. \A k \in 0 .. n : it[k] = IF k = 0 THEN x ELSE F[it[k - 1]]
    BY <1>4 DEF Iteration
  <2>2. \A k \in 0 .. n : k # 0 => k - 1 \in 0 .. n
    OBVIOUS
  <2>3. \A k \in 0 .. n : it[k] = Round(it, k)
    BY <1>2, <2>1, <2>2
  <2>4. QED
    BY <2>3
<1>6. \A k \in 0 .. n : jt[k] = Round(jt, k)
  <2>1. jt = [k \in 0 .. n |-> Round(jt, k)]
    BY <1>5
  <2>2. QED
    BY <2>1
<1> HIDE DEF Round, jt
<1>7. jt[0] = x
  <2>1. jt[0] = Round(jt, 0)
    BY <1>6
  <2>2. QED
    BY <1>2, <2>1
<1>8. \A k \in 0 .. n : k < n /\ jt[k] \in S => jt[k + 1] = F[jt[k]]
  <2> SUFFICES ASSUME NEW k \in 0 .. n, k < n, jt[k] \in S
               PROVE  jt[k + 1] = F[jt[k]]
    OBVIOUS
  <2>1. k + 1 \in 0 .. n
    OBVIOUS
  <2>2. jt[k + 1] = Round(jt, k + 1) /\ k + 1 # 0 /\ (k + 1) - 1 = k
    BY <1>6, <2>1
  <2>3. QED
    BY <1>2, <2>2
<1>9. Nearer(F, left, S)
  BY DEF Nearer
<1> HIDE DEF F
<1>10. Follows(jt, F, S, x, n)
  BY <1>7, <1>8 DEF Follows
<1>11. jt[n] \in S /\ F[jt[n]] = jt[n]
  BY <1>3, <1>9, <1>10, IterationEnds
<1>12. QED
  BY <1>1, <1>11 DEF F

\* As for UpLoop.
LEMMA DownLoop ==
  ASSUME NEW S, NEW x \in S, NEW n \in Nat, \A s \in S : DownStep(s) \in S,
         NEW left \in [S -> Nat], left[x] <= n,
         \A s \in S : DownStep(s) = s \/ left[DownStep(s)] < left[s]
  PROVE  LET last == Iterate(DownStep, x, n)
         IN  last \in S /\ DownStep(last) = last
<1> DEFINE F == [s \in S |-> DownStep(s)]
           Round(it, k) == IF k = 0 THEN x
             ELSE CHOOSE y \in {DownStep(z) : z \in {it[k - 1]}} : TRUE
           jt == CHOOSE it : it = [k \in 0 .. n |-> Round(it, k)]
<1>1. Iterate(DownStep, x, n) = jt[n]
  BY DEF Iterate
<1>2. \A it, k : Round(it, k) = IF k = 0 THEN x ELSE DownStep(it[k - 1])
  <2>1. TAKE it, k
  <2>2. {DownStep(z) : z \in {it[k - 1]}} = {DownStep(it[k - 1])}
    OBVIOUS
  <2>3. QED
    BY <2>2, TheOne
<1>3. F \in [S -> S]
  OBVIOUS
<1>4. PICK it \in [0 .. n -> S] : Iteration(it, F, x, n)
  BY <1>3, IterationExists
<1>5. it = [k \in 0 .. n |-> Round(it, k)]
  <2>1. \A k \in 0 .. n : it[k] = IF k = 0 THEN x ELSE F[it[k - 1]]
    BY <1>4 DEF Iteration
  <2>2. \A k \in 0 .. n : k # 0 => k - 1 \in 0 .. n
    OBVIOUS
  <2>3. \A k \in 0 .. n : it[k] = Round(it, k)
    BY <1>2, <2>1, <2>2
  <2>4. QED
    BY <2>3
<1>6. \A k \in 0 .. n : jt[k] = Round(jt, k)
  <2>1. jt = [k \in 0 .. n |-> Round(jt, k)]
    BY <1>5
  <2>2. QED
    BY <2>1
<1> HIDE DEF Round, jt
<1>7. jt[0] = x
  <2>1. jt[0] = Round(jt, 0)
    BY <1>6
  <2>2. QED
    BY <1>2, <2>1
<1>8. \A k \in 0 .. n : k < n /\ jt[k] \in S => jt[k + 1] = F[jt[k]]
  <2> SUFFICES ASSUME NEW k \in 0 .. n, k < n, jt[k] \in S
               PROVE  jt[k + 1] = F[jt[k]]
    OBVIOUS
  <2>1. k + 1 \in 0 .. n
    OBVIOUS
  <2>2. jt[k + 1] = Round(jt, k + 1) /\ k + 1 # 0 /\ (k + 1) - 1 = k
    BY <1>6, <2>1
  <2>3. QED
    BY <1>2, <2>2
<1>9. Nearer(F, left, S)
  BY DEF Nearer
<1> HIDE DEF F
<1>10. Follows(jt, F, S, x, n)
  BY <1>7, <1>8 DEF Follows
<1>11. jt[n] \in S /\ F[jt[n]] = jt[n]
  BY <1>3, <1>9, <1>10, IterationEnds
<1>12. QED
  BY <1>1, <1>11 DEF F

\* As for UpLoop.
LEMMA ReadyLoop ==
  ASSUME NEW S, NEW x \in S, Len(x.heap) \in Nat, NEW time,
         \A s \in S : ReadyStep(s, time) \in S,
         NEW left \in [S -> Nat], left[x] <= Len(x.heap),
         \A s \in S : ReadyStep(s, time) = s \/ left[ReadyStep(s, time)] < left[s]
  PROVE  LET last == GetReadyTimers(x, time)
         IN  last \in S /\ ReadyStep(last, time) = last
<1> DEFINE n == Len(x.heap)
           F == [s \in S |-> ReadyStep(s, time)]
           Round(it, k) == IF k = 0 THEN x
             ELSE CHOOSE y \in {ReadyStep(z, time) : z \in {it[k - 1]}} : TRUE
           jt == CHOOSE it : it = [k \in 0 .. n |-> Round(it, k)]
<1>1. GetReadyTimers(x, time) = jt[n]
  BY DEF GetReadyTimers, Iterate
<1>2. n \in Nat /\ left[x] <= n
  OBVIOUS
<1> HIDE DEF n
<1>3. \A it, k : Round(it, k) = IF k = 0 THEN x ELSE ReadyStep(it[k - 1], time)
  <2>1. TAKE it, k
  <2>2. {ReadyStep(z, time) : z \in {it[k - 1]}} = {ReadyStep(it[k - 1], time)}
    OBVIOUS
  <2>3. QED
    BY <2>2, TheOne
<1>4. F \in [S -> S]
  OBVIOUS
<1>5. PICK it \in [0 .. n -> S] : Iteration(it, F, x, n)
  BY <1>4, <1>2, IterationExists
<1>6. it = [k \in 0 .. n |-> Round(it, k)]
  <2>1. \A k \in 0 .. n : it[k] = IF k = 0 THEN x ELSE F[it[k - 1]]
    BY <1>5 DEF Iteration
  <2>2. \A k \in 0 .. n : k # 0 => k - 1 \in 0 .. n
    BY <1>2
  <2>3. \A k \in 0 .. n : it[k] = Round(it, k)
    BY <1>3, <2>1, <2>2
  <2>4. QED
    BY <2>3
<1>7. \A k \in 0 .. n : jt[k] = Round(jt, k)
  <2>1. jt = [k \in 0 .. n |-> Round(jt, k)]
    BY <1>6
  <2>2. QED
    BY <2>1
<1> HIDE DEF Round, jt
<1>8. jt[0] = x
  <2>1. jt[0] = Round(jt, 0)
    BY <1>7, <1>2
  <2>2. QED
    BY <1>3, <2>1
<1>9. \A k \in 0 .. n : k < n /\ jt[k] \in S => jt[k + 1] = F[jt[k]]
  <2> SUFFICES ASSUME NEW k \in 0 .. n, k < n, jt[k] \in S
               PROVE  jt[k + 1] = F[jt[k]]
    OBVIOUS
  <2>1. k + 1 \in 0 .. n
    BY <1>2
  <2>2. jt[k + 1] = Round(jt, k + 1) /\ k + 1 # 0 /\ (k + 1) - 1 = k
    BY <1>7, <1>2, <2>1
  <2>3. QED
    BY <1>3, <2>2
<1>10. Nearer(F, left, S)
  BY DEF Nearer
<1> HIDE DEF F
<1>11. Follows(jt, F, S, x, n)
  BY <1>8, <1>9 DEF Follows
<1>12. jt[n] \in S /\ F[jt[n]] = jt[n]
  BY <1>4, <1>10, <1>11, <1>2, IterationEnds
<1>13. QED
  BY <1>1, <1>12 DEF F

----------------------------------------------------------------------------
(* The heap *)

\* The queues that the timers of T use.
Entry(T) == [time : Nat, timer : T]
QueueType(T) ==
  [heap : Seq(Entry(T)), head : T \cup {NoTimer}, index : [T -> Nat],
   next : [T -> T \cup {NoTimer}], prev : [T -> T \cup {NoTimer}],
   ops : [T -> Seq(Waits)]]

Entries(q) == {q.heap[i] : i \in 1 .. Len(q.heap)}

\* The timers know where they are in the heap.
Indexed(q) ==
  /\ \A i \in 1 .. Len(q.heap) : q.index[q.heap[i].timer] = i
  /\ \A t \in DOMAIN q.index : q.index[t] # 0 =>
       q.index[t] \in 1 .. Len(q.heap) /\ q.heap[q.index[t]].timer = t

InOrder(q, j) == q.heap[j \div 2].time <= q.heap[j].time
Ordered(q) == \A j \in 2 .. Len(q.heap) : InOrder(q, j)

\* The parent of an entry, and its children.
LEMMA Half ==
  ASSUME NEW j \in Nat, j > 1
  PROVE  j \div 2 \in Nat /\ 1 <= j \div 2 /\ j \div 2 < j
         /\ (j = 2 * (j \div 2) \/ j = 2 * (j \div 2) + 1)
OBVIOUS

\* The entries whose parent is at i.
LEMMA HalfOf ==
  ASSUME NEW i \in Nat, NEW j \in Nat
  PROVE  j \div 2 = i <=> j = 2 * i \/ j = 2 * i + 1
OBVIOUS

\* What a queue is besides its heap.
Beside(p, q) ==
  p.head = q.head /\ p.next = q.next /\ p.prev = q.prev /\ p.ops = q.ops

\* The queues that differ from q only in the order of their heap.
Heaps(T, q) ==
  {p \in QueueType(T) : /\ Indexed(p) /\ Beside(p, q)
                        /\ Len(p.heap) = Len(q.heap) /\ Entries(p) = Entries(q)}

\* The parts of a queue have their types.
LEMMA TypeIs ==
  ASSUME NEW T, NEW q \in QueueType(T)
  PROVE  /\ q.heap \in Seq(Entry(T)) /\ Len(q.heap) \in Nat
         /\ \A i \in 1 .. Len(q.heap) : /\ q.heap[i] \in Entry(T)
                                        /\ q.heap[i].time \in Nat
                                        /\ q.heap[i].timer \in T
         /\ q.index \in [T -> Nat] /\ q.ops \in [T -> Seq(Waits)]
         /\ q.next \in [T -> T \cup {NoTimer}]
         /\ q.prev \in [T -> T \cup {NoTimer}] /\ q.head \in T \cup {NoTimer}
<1>1. /\ q.heap \in Seq(Entry(T)) /\ q.index \in [T -> Nat]
      /\ q.ops \in [T -> Seq(Waits)] /\ q.next \in [T -> T \cup {NoTimer}]
      /\ q.prev \in [T -> T \cup {NoTimer}] /\ q.head \in T \cup {NoTimer}
  BY DEF QueueType
<1>2. Len(q.heap) \in Nat /\ \A i \in 1 .. Len(q.heap) : q.heap[i] \in Entry(T)
  BY <1>1
<1>3. \A e \in Entry(T) : e.time \in Nat /\ e.timer \in T
  BY DEF Entry
<1>4. QED
  BY <1>1, <1>2, <1>3

\* p has the entries of q, but for those at i and j, which have changed places.
Swapped(p, q, i, j) ==
  \A k \in 1 .. Len(q.heap) :
    p.heap[k] = IF k = i THEN q.heap[j]
                ELSE IF k = j THEN q.heap[i] ELSE q.heap[k]

\* The timers still know where they are after a swap.
LEMMA SwapIs ==
  ASSUME NEW T, NEW q \in QueueType(T), Indexed(q),
         NEW i \in 1 .. Len(q.heap), NEW j \in 1 .. Len(q.heap)
  PROVE  SwapHeap(q, i, j) \in Heaps(T, q) /\ Swapped(SwapHeap(q, i, j), q, i, j)
<1> DEFINE p == SwapHeap(q, i, j)
           n == Len(q.heap)
<1>1. /\ q.heap \in Seq(Entry(T)) /\ n \in Nat
      /\ \A k \in 1 .. n : q.heap[k] \in Entry(T) /\ q.heap[k].timer \in T
      /\ q.index \in [T -> Nat]
  BY TypeIs
<1>2. /\ p = [q EXCEPT !.heap = p.heap, !.index = p.index]
      /\ p.heap = [q.heap EXCEPT ![i] = q.heap[j], ![j] = q.heap[i]]
      /\ p.index = [q.index EXCEPT ![q.heap[j].timer] = i, ![q.heap[i].timer] = j]
  BY DEF SwapHeap, QueueType
<1> HIDE DEF p
<1>3. p.heap \in Seq(Entry(T)) /\ Len(p.heap) = n
  BY <1>1, <1>2
<1>4. \A k \in 1 .. n : p.heap[k] = IF k = i THEN q.heap[j]
                                    ELSE IF k = j THEN q.heap[i] ELSE q.heap[k]
  BY <1>1, <1>2
<1>5. p.index \in [T -> Nat]
  BY <1>1, <1>2
<1>6. p \in QueueType(T) /\ Beside(p, q)
  BY <1>2, <1>3, <1>5 DEF QueueType, Beside
<1>7. \A t \in T : p.index[t] = IF t = q.heap[i].timer THEN j
                                ELSE IF t = q.heap[j].timer THEN i ELSE q.index[t]
  BY <1>1, <1>2
<1>8. Indexed(p)
  <2>1. \A k \in 1 .. n : q.index[q.heap[k].timer] = k
    BY DEF Indexed
  <2>2. ASSUME NEW k \in 1 .. n PROVE p.index[p.heap[k].timer] = k
    <3>1. \A m \in 1 .. n : m # k => q.heap[m].timer # q.heap[k].timer
      BY <2>1
    <3>2. q.heap[i].timer \in T /\ q.heap[j].timer \in T /\ q.heap[k].timer \in T
      BY <1>1
    <3>3. CASE k = i
      BY <1>4, <1>7, <2>1, <3>2, <3>3
    <3>4. CASE k = j /\ k # i
      BY <1>4, <1>7, <3>2, <3>4
    <3>5. CASE k # i /\ k # j
      <4>1. p.heap[k] = q.heap[k]
        BY <1>4, <3>5
      <4>2. QED
        BY <1>7, <2>1, <3>1, <3>2, <3>5, <4>1
    <3>6. QED
      BY <3>3, <3>4, <3>5
  <2>3. ASSUME NEW t \in T, p.index[t] # 0
        PROVE  p.index[t] \in 1 .. n /\ p.heap[p.index[t]].timer = t
    <3>1. q.index[t] # 0 => q.index[t] \in 1 .. n /\ q.heap[q.index[t]].timer = t
      BY <1>1 DEF Indexed
    <3>2. QED
      BY <1>1, <1>4, <1>7, <2>1, <2>3, <3>1
  <2>4. QED
    BY <1>3, <1>5, <2>2, <2>3 DEF Indexed
<1>9. Entries(p) = Entries(q)
  <2>1. Entries(p) = {p.heap[k] : k \in 1 .. n}
    BY <1>3 DEF Entries
  <2>2. \A k \in 1 .. n : p.heap[k] \in Entries(q)
    BY <1>4 DEF Entries
  <2>3. \A k \in 1 .. n : q.heap[k] \in {p.heap[m] : m \in 1 .. n}
    BY <1>4
  <2>4. QED
    BY <2>1, <2>2, <2>3 DEF Entries
<1>10. QED
  BY <1>3, <1>4, <1>6, <1>8, <1>9 DEF Heaps, Swapped, p

\* Swapping entries keeps the rest of the queue.
LEMMA HeapsSame ==
  ASSUME NEW T, NEW q \in QueueType(T), NEW p \in Heaps(T, q)
  PROVE  /\ p \in QueueType(T) /\ Indexed(p) /\ Beside(p, q)
         /\ Len(p.heap) = Len(q.heap) /\ Entries(p) = Entries(q)
         /\ \A r \in Heaps(T, p) : r \in Heaps(T, q)
<1>1. /\ p \in QueueType(T) /\ Indexed(p) /\ Beside(p, q)
      /\ Len(p.heap) = Len(q.heap) /\ Entries(p) = Entries(q)
  BY DEF Heaps
<1>2. ASSUME NEW r \in Heaps(T, p) PROVE r \in Heaps(T, q)
  <2>1. /\ r \in QueueType(T) /\ Indexed(r) /\ Beside(r, p)
        /\ Len(r.heap) = Len(p.heap) /\ Entries(r) = Entries(p)
    BY DEF Heaps
  <2>2. Beside(r, q)
    BY <1>1, <2>1 DEF Beside
  <2>3. QED
    BY <1>1, <2>1, <2>2 DEF Heaps
<1>3. QED
  BY <1>1, <1>2

\* A heap but for the entry at i, which may be before its parent, or after its
\* children; what is below it is in order with what is above it.
OpenAbove(q, i) ==
  \A j \in 2 .. Len(q.heap) :
    /\ j # i => InOrder(q, j)
    /\ j \div 2 = i /\ i > 1 => q.heap[i \div 2].time <= q.heap[j].time
OpenBelow(q, i) ==
  \A j \in 2 .. Len(q.heap) :
    /\ j \div 2 # i => InOrder(q, j)
    /\ j \div 2 = i /\ i > 1 => q.heap[i \div 2].time <= q.heap[j].time

Places(T, q) == [queue : Heaps(T, q), i : 1 .. Len(q.heap)]

\* A round of up_heap leaves only the entry it moves out of order with its
\* parent, and ends when it is not.
LEMMA UpStepIs ==
  ASSUME NEW T, NEW q \in QueueType(T), NEW s \in Places(T, q),
         OpenAbove(s.queue, s.i)
  PROVE  /\ UpStep(s) \in Places(T, q)
         /\ OpenAbove(UpStep(s).queue, UpStep(s).i)
         /\ UpStep(s) = s \/ UpStep(s).i < s.i
         /\ UpStep(s) = s => Ordered(s.queue)
<1> DEFINE p == s.queue
           i == s.i
           m == i \div 2
           r == SwapHeap(p, i, m)
           n == Len(q.heap)
<1>1. p \in Heaps(T, q) /\ i \in 1 .. n /\ n \in Nat
  BY TypeIs DEF Places
<1>2. p \in QueueType(T) /\ Indexed(p) /\ Len(p.heap) = n
  BY <1>1, HeapsSame
<1>3. \A j \in 2 .. n : j \div 2 \in 1 .. n /\ j \div 2 < j
  BY <1>1, Half
<1>4. \A j \in 1 .. n : p.heap[j].time \in Nat
  BY <1>2, TypeIs
<1>5. CASE i > 1 /\ Before(p, i, m)
  <2>1. UpStep(s) = At(r, m)
    BY <1>5 DEF UpStep
  <2>2. m \in 1 .. n /\ m < i
    BY <1>1, <1>3, <1>5
  <2>3. r \in Heaps(T, p)
        /\ \A k \in 1 .. n : r.heap[k] = IF k = i THEN p.heap[m]
                                         ELSE IF k = m THEN p.heap[i] ELSE p.heap[k]
    <3>1. i \in 1 .. Len(p.heap) /\ m \in 1 .. Len(p.heap)
      BY <1>1, <1>2, <2>2
    <3>2. r \in Heaps(T, p) /\ Swapped(r, p, i, m)
      BY <1>2, <3>1, SwapIs
    <3>3. QED
      BY <1>2, <3>2 DEF Swapped
  <2>4. r \in Heaps(T, q) /\ Len(r.heap) = n
    BY <1>1, <1>2, <2>3, HeapsSame
  <2>5. p.heap[i].time < p.heap[m].time
    BY <1>5 DEF Before
  <2> HIDE DEF p, i, r, n
  <2>6. ASSUME NEW j \in 2 .. n, j # m PROVE r.heap[j \div 2].time <= r.heap[j].time
    <3>1. j # i => p.heap[j \div 2].time <= p.heap[j].time
      BY <1>2 DEF OpenAbove, InOrder, p, i
    <3>2. j \div 2 = i /\ i > 1 => p.heap[m].time <= p.heap[j].time
      BY <1>2 DEF OpenAbove, p, i
    <3>3. j \in 1 .. n /\ j \div 2 \in 1 .. n /\ j \div 2 < j
      BY <1>3
    <3>4. CASE j = i
      BY <1>4, <2>2, <2>3, <2>5, <3>3, <3>4
    <3>5. CASE j \div 2 = i
      BY <1>4, <1>5, <2>2, <2>3, <3>2, <3>3, <3>5
    <3>6. CASE j \div 2 = m /\ j # i
      BY <1>1, <1>4, <2>2, <2>3, <2>5, <2>6, <3>1, <3>3, <3>6
    <3>7. CASE j # i /\ j \div 2 # i /\ j \div 2 # m
      BY <2>3, <2>6, <3>1, <3>3, <3>7
    <3>8. QED
      BY <3>4, <3>5, <3>6, <3>7
  <2>7. ASSUME NEW j \in 2 .. n, j \div 2 = m, m > 1
        PROVE  r.heap[m \div 2].time <= r.heap[j].time
    <3>1. p.heap[m \div 2].time <= p.heap[m].time
      <4>1. m \in 2 .. n /\ m # i
        BY <1>1, <2>2, <2>7
      <4>2. QED
        BY <1>2, <4>1 DEF OpenAbove, InOrder, p, i
    <3>2. m \div 2 \in 1 .. n /\ m \div 2 < m
      BY <1>3, <2>2, <2>7
    <3>3. r.heap[m \div 2] = p.heap[m \div 2]
      BY <2>2, <2>3, <3>2
    <3>4. j \in 1 .. n /\ j # m
      BY <1>3, <2>7
    <3>5. CASE j = i
      BY <2>3, <3>1, <3>3, <3>4, <3>5
    <3>6. CASE j # i
      <4>1. p.heap[m].time <= p.heap[j].time
        BY <1>2, <2>7, <3>6 DEF OpenAbove, InOrder, p, i
      <4>2. r.heap[j] = p.heap[j]
        BY <2>3, <3>4, <3>6
      <4>3. QED
        BY <1>4, <2>2, <3>1, <3>2, <3>3, <3>4, <4>1, <4>2
    <3>7. QED
      BY <3>5, <3>6
  <2>8. OpenAbove(r, m)
    BY <2>4, <2>6, <2>7 DEF OpenAbove, InOrder
  <2>9. At(r, m) \in Places(T, q) /\ At(r, m).queue = r /\ At(r, m).i = m
    BY <2>2, <2>4 DEF Places, At, n
  <2>10. At(r, m) # s
    BY <2>2, <2>9 DEF i
  <2>11. QED
    BY <2>1, <2>2, <2>8, <2>9, <2>10 DEF i
<1>6. CASE ~(i > 1 /\ Before(p, i, m))
  <2>1. UpStep(s) = s
    BY <1>6 DEF UpStep
  <2>2. ASSUME NEW j \in 2 .. n PROVE InOrder(p, j)
    <3>1. CASE j = i
      <4>1. p.heap[i].time \in Nat /\ p.heap[m].time \in Nat
        BY <1>1, <1>3, <1>4, <3>1
      <4>2. i > 1 /\ ~(p.heap[i].time < p.heap[m].time)
        BY <1>1, <1>6, <3>1 DEF Before
      <4>3. QED
        BY <3>1, <4>1, <4>2 DEF InOrder
    <3>2. CASE j # i
      BY <1>2, <3>2 DEF OpenAbove
    <3>3. QED
      BY <3>1, <3>2
  <2>3. QED
    BY <1>2, <2>1, <2>2 DEF Ordered
<1>7. QED
  BY <1>5, <1>6

\* up_heap restores the order when only one entry may be before its parent.
LEMMA UpHeapIs ==
  ASSUME NEW T, NEW q \in QueueType(T), Indexed(q),
         NEW i \in 1 .. Len(q.heap), OpenAbove(q, i)
  PROVE  UpHeap(q, i) \in Heaps(T, q) /\ Ordered(UpHeap(q, i))
<1> DEFINE S == {s \in Places(T, q) : OpenAbove(s.queue, s.i)}
           left == [s \in S |-> s.i]
           n == Len(q.heap)
           x == At(q, i)
<1>1. x \in S /\ x.i = i
  <2>1. q \in Heaps(T, q)
    BY DEF Heaps, Beside
  <2>2. QED
    BY <2>1 DEF Places, At
<1>2. \A s \in S : UpStep(s) \in S
  BY UpStepIs
<1>3. n \in Nat /\ left \in [S -> Nat] /\ left[x] <= n
  <2>1. n \in Nat
    BY TypeIs
  <2>2. \A s \in S : s.i \in Nat
    BY <2>1 DEF Places
  <2>3. QED
    BY <1>1, <2>1, <2>2
<1>4. \A s \in S : UpStep(s) = s \/ left[UpStep(s)] < left[s]
  BY <1>2, UpStepIs
<1> DEFINE last == Iterate(UpStep, x, n)
<1> HIDE DEF S, left, n, x
<1>5. last \in S /\ UpStep(last) = last
  BY <1>1, <1>2, <1>3, <1>4, UpLoop
<1> HIDE DEF last
<1>6. last.queue \in Heaps(T, q) /\ Ordered(last.queue)
  BY <1>5, UpStepIs DEF S, Places
<1>7. QED
  BY <1>6 DEF UpHeap, last, n, x

\* No child is before the smaller child.
LEMMA MinChildIs ==
  ASSUME NEW T, NEW q \in QueueType(T), NEW i \in 1 .. Len(q.heap),
         2 * i <= Len(q.heap)
  PROVE  /\ MinChild(q, i) \in i + 1 .. Len(q.heap)
         /\ MinChild(q, i) \div 2 = i
         /\ \A j \in 2 .. Len(q.heap) :
              j \div 2 = i => q.heap[MinChild(q, i)].time <= q.heap[j].time
<1> DEFINE c == MinChild(q, i)
           n == Len(q.heap)
<1>1. n \in Nat /\ \A j \in 1 .. n : q.heap[j].time \in Nat
  BY TypeIs
<1>2. c = 2 * i \/ (c = 2 * i + 1 /\ 2 * i # n)
  BY DEF MinChild
<1>3. c \in i + 1 .. n /\ c \in Nat
  BY <1>1, <1>2
<1>4. c \div 2 = i
  BY <1>2, <1>3, HalfOf
<1>5. ASSUME NEW j \in 2 .. n, j \div 2 = i
      PROVE  q.heap[c].time <= q.heap[j].time
  <2>1. j = 2 * i \/ j = 2 * i + 1
    BY <1>1, <1>5, HalfOf
  <2>2. j \in 1 .. n /\ 2 * i \in 1 .. n
    BY <1>1
  <2>3. q.heap[j].time \in Nat /\ q.heap[2 * i].time \in Nat
    BY <1>1, <2>2
  <2>4. CASE 2 * i = n
    <3>1. c = 2 * i /\ j = 2 * i
      BY <1>1, <2>1, <2>4 DEF MinChild
    <3>2. QED
      BY <2>3, <3>1
  <2>5. CASE 2 * i # n
    <3>1. 2 * i + 1 \in 1 .. n
      BY <1>1, <2>5
    <3>2. q.heap[2 * i + 1].time \in Nat
      BY <1>1, <3>1
    <3>3. CASE Before(q, 2 * i, 2 * i + 1)
      <4>1. c = 2 * i /\ q.heap[2 * i].time < q.heap[2 * i + 1].time
        BY <3>3 DEF MinChild, Before
      <4>2. QED
        BY <2>1, <2>3, <3>2, <4>1
    <3>4. CASE ~Before(q, 2 * i, 2 * i + 1)
      <4>1. c = 2 * i + 1 /\ ~(q.heap[2 * i].time < q.heap[2 * i + 1].time)
        BY <2>5, <3>4 DEF MinChild, Before
      <4>2. QED
        BY <2>1, <2>3, <3>2, <4>1
    <3>5. QED
      BY <3>3, <3>4
  <2>6. QED
    BY <2>4, <2>5
<1>6. QED
  BY <1>3, <1>4, <1>5

\* As for UpStepIs, with the children.
LEMMA DownStepIs ==
  ASSUME NEW T, NEW q \in QueueType(T), NEW s \in Places(T, q),
         OpenBelow(s.queue, s.i)
  PROVE  /\ DownStep(s) \in Places(T, q)
         /\ OpenBelow(DownStep(s).queue, DownStep(s).i)
         /\ DownStep(s) = s \/ DownStep(s).i > s.i
         /\ DownStep(s) = s => Ordered(s.queue)
<1> DEFINE p == s.queue
           i == s.i
           c == MinChild(p, i)
           r == SwapHeap(p, i, c)
           n == Len(q.heap)
<1>1. p \in Heaps(T, q) /\ i \in 1 .. n /\ n \in Nat
  BY TypeIs DEF Places
<1>2. p \in QueueType(T) /\ Indexed(p) /\ Len(p.heap) = n
  BY <1>1, HeapsSame
<1>3. \A j \in 2 .. n : j \in 1 .. n /\ j \div 2 \in 1 .. n /\ j \div 2 < j
  BY <1>1, Half
<1>4. \A j \in 1 .. n : p.heap[j].time \in Nat
  BY <1>2, TypeIs
<1>5. 2 * i <= n => /\ c \in i + 1 .. n /\ c \div 2 = i
                    /\ \A j \in 2 .. n :
                         j \div 2 = i => p.heap[c].time <= p.heap[j].time
  BY <1>1, <1>2, MinChildIs
<1>6. CASE 2 * i <= n /\ ~Before(p, i, c)
  <2>1. DownStep(s) = At(r, c)
    BY <1>2, <1>6 DEF DownStep
  <2>2. c \in 1 .. n /\ c \in 2 .. n /\ c > i /\ c \div 2 = i
    BY <1>1, <1>5, <1>6
  <2>3. r \in Heaps(T, p)
        /\ \A k \in 1 .. n : r.heap[k] = IF k = i THEN p.heap[c]
                                         ELSE IF k = c THEN p.heap[i] ELSE p.heap[k]
    <3>1. i \in 1 .. Len(p.heap) /\ c \in 1 .. Len(p.heap)
      BY <1>1, <1>2, <2>2
    <3>2. r \in Heaps(T, p) /\ Swapped(r, p, i, c)
      BY <1>2, <3>1, SwapIs
    <3>3. QED
      BY <1>2, <3>2 DEF Swapped
  <2>4. r \in Heaps(T, q) /\ Len(r.heap) = n
    BY <1>1, <1>2, <2>3, HeapsSame
  <2>5. p.heap[c].time <= p.heap[i].time
    BY <1>1, <1>4, <1>6, <2>2 DEF Before
  <2>6. \A j \in 2 .. n : j \div 2 = i => p.heap[c].time <= p.heap[j].time
    BY <1>5, <1>6
  <2> HIDE DEF p, i, r, n, c
  <2>7. ASSUME NEW j \in 2 .. n, j \div 2 # c
        PROVE  r.heap[j \div 2].time <= r.heap[j].time
    <3>1. j \div 2 # i => p.heap[j \div 2].time <= p.heap[j].time
      BY <1>2 DEF OpenBelow, InOrder, p, i
    <3>2. j \in 1 .. n /\ j \div 2 \in 1 .. n /\ j \div 2 < j
      BY <1>3
    <3>3. CASE j = c
      BY <2>2, <2>3, <2>5, <3>2, <3>3
    <3>4. CASE j \div 2 = i /\ j # c
      BY <1>1, <2>3, <2>6, <3>2, <3>4
    <3>5. CASE j = i
      <4>1. i > 1 /\ p.heap[i \div 2].time <= p.heap[c].time
        BY <1>2, <2>2, <3>5 DEF OpenBelow, p, i
      <4>2. r.heap[i \div 2] = p.heap[i \div 2]
        BY <2>2, <2>3, <3>2, <3>5
      <4>3. QED
        BY <1>1, <2>3, <3>5, <4>1, <4>2
    <3>6. CASE j # c /\ j \div 2 # i /\ j # i
      BY <2>3, <2>7, <3>1, <3>2, <3>6
    <3>7. QED
      BY <3>3, <3>4, <3>5, <3>6
  <2>8. ASSUME NEW j \in 2 .. n, j \div 2 = c
        PROVE  r.heap[c \div 2].time <= r.heap[j].time
    <3>1. j \in 1 .. n /\ j # c /\ j # i
      BY <1>3, <2>2, <2>8
    <3>2. p.heap[c].time <= p.heap[j].time
      BY <1>2, <2>2, <2>8 DEF OpenBelow, InOrder, p, i
    <3>3. r.heap[i] = p.heap[c] /\ r.heap[j] = p.heap[j]
      BY <1>1, <2>3, <3>1
    <3>4. QED
      BY <2>2, <3>2, <3>3
  <2>9. OpenBelow(r, c)
    BY <2>4, <2>7, <2>8 DEF OpenBelow, InOrder
  <2>10. At(r, c) \in Places(T, q) /\ At(r, c).queue = r /\ At(r, c).i = c
    BY <2>2, <2>4 DEF Places, At, n
  <2>11. At(r, c) # s
    BY <2>2, <2>10 DEF i
  <2>12. QED
    BY <2>1, <2>2, <2>9, <2>10, <2>11 DEF i
<1>7. CASE ~(2 * i <= n /\ ~Before(p, i, c))
  <2>1. DownStep(s) = s
    BY <1>2, <1>7 DEF DownStep
  <2>2. ASSUME NEW j \in 2 .. n PROVE InOrder(p, j)
    <3>1. CASE j \div 2 = i
      <4>1. 2 * i <= n
        <5>1. j = 2 * i \/ j = 2 * i + 1
          BY <1>1, <3>1, HalfOf
        <5>2. QED
          BY <1>1, <5>1
      <4>2. c \in 1 .. n /\ p.heap[c].time <= p.heap[j].time
        <5>1. c \in i + 1 .. n
          BY <1>5, <4>1
        <5>2. p.heap[c].time <= p.heap[j].time
          BY <1>5, <3>1, <4>1
        <5>3. QED
          BY <1>1, <5>1, <5>2
      <4>3. p.heap[i].time < p.heap[c].time
        BY <1>7, <4>1 DEF Before
      <4>4. p.heap[c].time \in Nat /\ p.heap[i].time \in Nat /\ p.heap[j].time \in Nat
        BY <1>1, <1>3, <1>4, <4>2
      <4>5. p.heap[i].time <= p.heap[j].time
        BY <4>2, <4>3, <4>4
      <4>6. QED
        BY <3>1, <4>5, Zenon DEF InOrder
    <3>2. CASE j \div 2 # i
      BY <1>2, <3>2 DEF OpenBelow
    <3>3. QED
      BY <3>1, <3>2
  <2>3. QED
    BY <1>2, <2>1, <2>2 DEF Ordered
<1>8. QED
  BY <1>6, <1>7

\* down_heap restores the order when only one entry may be after its children.
LEMMA DownHeapIs ==
  ASSUME NEW T, NEW q \in QueueType(T), Indexed(q),
         NEW i \in 1 .. Len(q.heap), OpenBelow(q, i)
  PROVE  DownHeap(q, i) \in Heaps(T, q) /\ Ordered(DownHeap(q, i))
<1> DEFINE n == Len(q.heap)
           S == {s \in Places(T, q) : OpenBelow(s.queue, s.i)}
           left == [s \in S |-> n - s.i]
           x == At(q, i)
<1>1. x \in S /\ x.i = i
  <2>1. q \in Heaps(T, q)
    BY DEF Heaps, Beside
  <2>2. QED
    BY <2>1 DEF Places, At
<1>2. \A s \in S : DownStep(s) \in S
  BY DownStepIs
<1>3. n \in Nat /\ \A s \in S : s.i \in 1 .. n
  BY TypeIs DEF Places
<1>4. left \in [S -> Nat] /\ left[x] <= n
  BY <1>1, <1>3
<1>5. \A s \in S : DownStep(s) = s \/ left[DownStep(s)] < left[s]
  <2>1. \A s \in S : DownStep(s) = s \/ DownStep(s).i > s.i
    BY DownStepIs
  <2>2. QED
    BY <1>2, <1>3, <2>1
<1> DEFINE last == Iterate(DownStep, x, n)
<1> HIDE DEF S, left, n, x
<1>6. last \in S /\ DownStep(last) = last
  BY <1>1, <1>2, <1>3, <1>4, <1>5, DownLoop
<1> HIDE DEF last
<1>7. last.queue \in Heaps(T, q) /\ Ordered(last.queue)
  BY <1>6, DownStepIs DEF S, Places
<1>8. QED
  BY <1>7 DEF DownHeap, last, n, x

\* The heap of a queue is sound in itself.
GoodHeap(T, q) == q \in QueueType(T) /\ Indexed(q) /\ Ordered(q)

\* The first entry is not after any other.
LEMMA FirstIsLeast ==
  ASSUME NEW T, NEW q \in QueueType(T), Ordered(q), NEW k \in 1 .. Len(q.heap)
  PROVE  q.heap[1].time <= q.heap[k].time
<1> DEFINE n == Len(q.heap)
           Bad == {j \in 1 .. n : ~(q.heap[1].time <= q.heap[j].time)}
<1>1. n \in Nat /\ \A j \in 1 .. n : q.heap[j].time \in Nat
  BY TypeIs
<1>2. SUFFICES ASSUME Bad # {} PROVE FALSE
  OBVIOUS
<1>3. PICK m \in Bad : \A j \in Bad : m <= j
  <2>1. Bad \subseteq Nat
    OBVIOUS
  <2>2. QED
    BY <1>2, <2>1, LeastNumber
<1>4. m \in 1 .. n /\ m > 1
  BY <1>1, <1>3
<1>5. m \div 2 \in 1 .. n /\ m \div 2 < m
  BY <1>1, <1>4, Half
<1>6. q.heap[1].time <= q.heap[m \div 2].time
  BY <1>3, <1>4, <1>5
<1>7. q.heap[m \div 2].time <= q.heap[m].time
  BY <1>1, <1>4 DEF Ordered, InOrder
<1>8. 1 \in 1 .. n /\ ~(q.heap[1].time <= q.heap[m].time)
  BY <1>1, <1>3, <1>4
<1>9. q.heap[1].time \in Nat /\ q.heap[m].time \in Nat /\ q.heap[m \div 2].time \in Nat
  BY <1>1, <1>4, <1>5, <1>8
<1>10. QED
  BY <1>6, <1>7, <1>8, <1>9

\* A new entry finds its place.
LEMMA PushEntryIs ==
  ASSUME NEW T, NEW q, GoodHeap(T, q), NEW t \in T, q.index[t] = 0, NEW time \in Nat
  PROVE  LET p == PushEntry(q, time, t)
         IN  /\ GoodHeap(T, p) /\ Beside(p, q)
             /\ Entries(p) = Entries(q) \cup {[time |-> time, timer |-> t]}
<1> DEFINE n == Len(q.heap)
           e == [time |-> time, timer |-> t]
           r == [q EXCEPT !.heap = Append(@, e), !.index[t] = n + 1]
<1>1. /\ q \in QueueType(T) /\ Indexed(q) /\ Ordered(q)
      /\ q.heap \in Seq(Entry(T)) /\ q.index \in [T -> Nat] /\ n \in Nat
  BY TypeIs DEF GoodHeap
<1>2. e \in Entry(T)
  BY DEF Entry
<1>3. /\ r.heap = Append(q.heap, e) /\ r.index = [q.index EXCEPT ![t] = n + 1]
      /\ r = [q EXCEPT !.heap = r.heap, !.index = r.index] /\ Beside(r, q)
  BY <1>1 DEF QueueType, Beside
<1>4. PushEntry(q, time, t) = UpHeap(r, n + 1)
  BY DEF PushEntry
<1> HIDE DEF r, e
<1>5. /\ r.heap \in Seq(Entry(T)) /\ Len(r.heap) = n + 1
      /\ r.heap[n + 1] = e /\ \A k \in 1 .. n : r.heap[k] = q.heap[k]
  BY <1>1, <1>2, <1>3
<1>6. r.index \in [T -> Nat]
      /\ \A s \in T : r.index[s] = IF s = t THEN n + 1 ELSE q.index[s]
  BY <1>1, <1>3
<1>7. r \in QueueType(T)
  BY <1>1, <1>3, <1>5, <1>6 DEF QueueType
<1>8. e.timer = t /\ e.time = time
  BY DEF e
<1>9. \A k \in 1 .. n : q.heap[k].timer \in T /\ q.heap[k].timer # t
  <2>1. \A k \in 1 .. n : q.heap[k].timer \in T /\ q.index[q.heap[k].timer] = k
    BY <1>1, TypeIs DEF Indexed
  <2>2. QED
    BY <2>1
<1>10. Indexed(r)
  <2>1. ASSUME NEW k \in 1 .. n + 1 PROVE r.index[r.heap[k].timer] = k
    <3>1. CASE k = n + 1
      BY <1>5, <1>6, <1>8, <3>1
    <3>2. CASE k # n + 1
      <4>1. k \in 1 .. n
        BY <1>1, <3>2
      <4>2. q.index[q.heap[k].timer] = k
        BY <1>1, <4>1 DEF Indexed
      <4>3. QED
        BY <1>5, <1>6, <1>9, <4>1, <4>2
    <3>3. QED
      BY <3>1, <3>2
  <2>2. ASSUME NEW s \in T, r.index[s] # 0
        PROVE  r.index[s] \in 1 .. n + 1 /\ r.heap[r.index[s]].timer = s
    <3>1. CASE s = t
      BY <1>1, <1>5, <1>6, <1>8, <3>1
    <3>2. CASE s # t
      <4>1. q.index[s] \in 1 .. n /\ q.heap[q.index[s]].timer = s
        BY <1>1, <1>6, <2>2, <3>2 DEF Indexed
      <4>2. QED
        BY <1>1, <1>5, <1>6, <3>2, <4>1
    <3>3. QED
      BY <3>1, <3>2
  <2>3. QED
    BY <1>5, <1>6, <2>1, <2>2 DEF Indexed
<1>11. OpenAbove(r, n + 1)
  <2>1. ASSUME NEW j \in 2 .. n + 1, j # n + 1 PROVE InOrder(r, j)
    <3>1. j \in 2 .. n /\ j \in 1 .. n /\ j \div 2 \in 1 .. n
      BY <1>1, <2>1, Half
    <3>2. q.heap[j \div 2].time <= q.heap[j].time
      BY <1>1, <3>1 DEF Ordered, InOrder
    <3>3. r.heap[j \div 2] = q.heap[j \div 2] /\ r.heap[j] = q.heap[j]
      BY <1>5, <3>1
    <3>4. QED
      BY <3>2, <3>3, Zenon DEF InOrder
  <2>2. \A j \in 2 .. n + 1 : j \div 2 # n + 1
    BY <1>1, Half
  <2>3. QED
    BY <1>5, <2>1, <2>2 DEF OpenAbove
<1>12. n + 1 \in 1 .. Len(r.heap)
  BY <1>1, <1>5
<1>13. UpHeap(r, n + 1) \in Heaps(T, r) /\ Ordered(UpHeap(r, n + 1))
  BY <1>7, <1>10, <1>11, <1>12, UpHeapIs
<1> DEFINE p == UpHeap(r, n + 1)
<1> HIDE DEF p
<1>14. /\ p \in QueueType(T) /\ Indexed(p) /\ Beside(p, r)
       /\ Entries(p) = Entries(r) /\ Ordered(p)
  BY <1>7, <1>13, HeapsSame DEF p
<1>15. Beside(p, q)
  BY <1>3, <1>14 DEF Beside
<1>16. Entries(r) = Entries(q) \cup {e}
  <2>1. \A k \in 1 .. n + 1 : k \in 1 .. n \/ k = n + 1
    BY <1>1
  <2>2. n + 1 \in 1 .. n + 1 /\ \A k \in 1 .. n : k \in 1 .. n + 1
    BY <1>1
  <2>3. Entries(r) = {r.heap[k] : k \in 1 .. n + 1}
    BY <1>5 DEF Entries
  <2>4. QED
    BY <1>5, <2>1, <2>2, <2>3 DEF Entries
<1>17. QED
  BY <1>4, <1>14, <1>15, <1>16 DEF GoodHeap, p, e

\* A heap without its last entry.
LEMMA FrontIs ==
  ASSUME NEW S, NEW s \in Seq(S), Len(s) > 0
  PROVE  /\ Front(s) \in Seq(S) /\ Len(Front(s)) = Len(s) - 1
         /\ \A k \in 1 .. Len(s) - 1 : Front(s)[k] = s[k]
         /\ Last(s) = s[Len(s)]
<1>1. Len(s) - 1 \in Int /\ 1 \in Int /\ \A k \in 1 .. Len(s) - 1 : s[k] \in S
  OBVIOUS
<1> DEFINE n == Len(s) - 1
           f == SubSeq(s, 1, n)
<1>2. n \in Nat
  OBVIOUS
<1> HIDE DEF n
<1>3. /\ f \in Seq(S) /\ Len(f) = IF 1 <= n THEN n - 1 + 1 ELSE 0
      /\ \A k \in 1 .. n - 1 + 1 : f[k] = s[1 + k - 1]
  BY <1>1, SubSeqProperties DEF n
<1>4. Len(f) = n
  BY <1>2, <1>3
<1>5. \A k \in 1 .. n : f[k] = s[k]
  BY <1>2, <1>3
<1>6. QED
  BY <1>3, <1>4, <1>5 DEF Front, Last, n

\* remove_timer takes the entry of the timer and no other, and restores the
\* order upwards or downwards.
LEMMA RemoveFromHeapIs ==
  ASSUME NEW T, NEW q, GoodHeap(T, q), NEW t \in T, q.index[t] # 0
  PROVE  LET p == RemoveFromHeap(q, t)
         IN  /\ GoodHeap(T, p) /\ Beside(p, q)
             /\ Entries(p) = {e \in Entries(q) : e.timer # t}
             /\ Len(p.heap) = Len(q.heap) - 1
<1> DEFINE n == Len(q.heap)
           i == q.index[t]
           r == SwapHeap(q, i, n)
           s == PopBack(r)
<1>1. /\ q \in QueueType(T) /\ Indexed(q) /\ Ordered(q)
      /\ q.index \in [T -> Nat] /\ n \in Nat
  BY TypeIs DEF GoodHeap
<1>2. i \in 1 .. n /\ n \in 1 .. n /\ q.heap[i].timer = t
  BY <1>1 DEF Indexed
<1>3. \A k \in 1 .. n : q.heap[k].time \in Nat
  BY <1>1, TypeIs
<1>4. RemoveFromHeap(q, t) = Restore(s, i)
  BY <1>2 DEF RemoveFromHeap
<1>5. r \in Heaps(T, q) /\ Swapped(r, q, i, n)
  BY <1>1, <1>2, SwapIs
<1> HIDE DEF r, i
<1>6. /\ r \in QueueType(T) /\ Indexed(r) /\ Beside(r, q)
      /\ Len(r.heap) = n /\ Entries(r) = Entries(q)
  BY <1>1, <1>5, HeapsSame
<1>7. r.heap \in Seq(Entry(T)) /\ r.index \in [T -> Nat]
      /\ \A k \in 1 .. n : r.heap[k].timer \in T
  BY <1>6, TypeIs
<1>8. \A k \in 1 .. n : r.heap[k] = IF k = i THEN q.heap[n]
                                    ELSE IF k = n THEN q.heap[i] ELSE q.heap[k]
  BY <1>5 DEF Swapped
<1>9. r.heap[n].timer = t
  BY <1>2, <1>8
<1>10. /\ s.heap = Front(r.heap) /\ s.index = [r.index EXCEPT ![t] = 0]
       /\ s = [r EXCEPT !.heap = s.heap, !.index = s.index] /\ Beside(s, r)
  <2>1. Last(r.heap).timer = t
    BY <1>6, <1>9 DEF Last
  <2>2. QED
    BY <1>6, <2>1 DEF PopBack, QueueType, Beside
<1> HIDE DEF s
<1>11. /\ s.heap \in Seq(Entry(T)) /\ Len(s.heap) = n - 1
       /\ \A k \in 1 .. n - 1 : s.heap[k] = r.heap[k]
  <2>1. Len(r.heap) > 0
    BY <1>1, <1>2, <1>6
  <2>2. /\ Front(r.heap) \in Seq(Entry(T)) /\ Len(Front(r.heap)) = Len(r.heap) - 1
        /\ \A k \in 1 .. Len(r.heap) - 1 : Front(r.heap)[k] = r.heap[k]
    BY <1>7, <2>1, FrontIs
  <2>3. QED
    BY <1>6, <1>10, <2>2
<1>12. s.index \in [T -> Nat]
       /\ \A u \in T : s.index[u] = IF u = t THEN 0 ELSE r.index[u]
  BY <1>7, <1>10
<1>13. s \in QueueType(T)
  BY <1>6, <1>10, <1>11, <1>12 DEF QueueType
<1>14. \A k \in 1 .. n : r.index[r.heap[k].timer] = k
  BY <1>6 DEF Indexed
<1>15. \A k \in 1 .. n - 1 : k \in 1 .. n /\ k # n /\ r.heap[k].timer # t
  BY <1>1, <1>2, <1>9, <1>14
<1>16. Indexed(s)
  <2>1. ASSUME NEW k \in 1 .. n - 1 PROVE s.index[s.heap[k].timer] = k
    BY <1>7, <1>11, <1>12, <1>14, <1>15
  <2>2. ASSUME NEW u \in T, s.index[u] # 0
        PROVE  s.index[u] \in 1 .. n - 1 /\ s.heap[s.index[u]].timer = u
    <3>1. u # t /\ s.index[u] = r.index[u]
      BY <1>12, <2>2
    <3>2. r.index[u] \in 1 .. n /\ r.heap[r.index[u]].timer = u
      BY <1>6, <1>7, <2>2, <3>1 DEF Indexed
    <3>3. r.index[u] # n
      BY <1>9, <3>1, <3>2
    <3>4. QED
      BY <1>1, <1>11, <3>1, <3>2, <3>3
  <2>3. QED
    BY <1>11, <1>12, <2>1, <2>2 DEF Indexed
<1>17. Entries(s) = {e \in Entries(q) : e.timer # t}
  <2>1. Entries(s) = {s.heap[k] : k \in 1 .. n - 1}
    BY <1>11 DEF Entries
  <2>2. \A k \in 1 .. n - 1 : s.heap[k] \in Entries(q) /\ s.heap[k].timer # t
    <3>1. \A k \in 1 .. n - 1 : s.heap[k] \in Entries(r) /\ s.heap[k].timer # t
      BY <1>6, <1>11, <1>15 DEF Entries
    <3>2. QED
      BY <1>6, <3>1
  <2>3. \A k \in 1 .. n : r.heap[k].timer # t => k \in 1 .. n - 1
    BY <1>1, <1>9
  <2>4. \A e \in Entries(q) : e.timer # t => e \in {s.heap[k] : k \in 1 .. n - 1}
    <3>1. \A e \in Entries(r) : e.timer # t => e \in {s.heap[k] : k \in 1 .. n - 1}
      BY <1>6, <1>11, <2>3 DEF Entries
    <3>2. QED
      BY <1>6, <3>1
  <2>5. QED
    BY <2>1, <2>2, <2>4
<1>18. \A k \in 1 .. n - 1 : s.heap[k] = IF k = i THEN q.heap[n] ELSE q.heap[k]
  BY <1>8, <1>11, <1>15
<1>19. \A j \in 2 .. n : /\ j \in 1 .. n /\ j \div 2 \in 1 .. n /\ j \div 2 < j
                         /\ q.heap[j \div 2].time <= q.heap[j].time
  BY <1>1, Half DEF Ordered, InOrder
<1>20. ASSUME NEW j \in 2 .. n - 1, j # i, j \div 2 # i PROVE InOrder(s, j)
  <2>1. j \in 2 .. n /\ j \in 1 .. n - 1 /\ j \div 2 \in 1 .. n - 1
    BY <1>1, <1>19
  <2>2. s.heap[j] = q.heap[j] /\ s.heap[j \div 2] = q.heap[j \div 2]
    BY <1>18, <1>20, <2>1
  <2>3. q.heap[j \div 2].time <= q.heap[j].time
    BY <1>19, <2>1
  <2>4. QED
    BY <2>2, <2>3, Zenon DEF InOrder
<1>21. ASSUME NEW j \in 2 .. n - 1, j \div 2 = i
       PROVE  /\ s.heap[j].time = q.heap[j].time
              /\ q.heap[i].time <= q.heap[j].time
              /\ i > 1 => /\ q.heap[i \div 2].time <= q.heap[i].time
                          /\ s.heap[i \div 2].time = q.heap[i \div 2].time
                          /\ s.heap[i \div 2].time <= s.heap[j].time
  <2>1. j \in 2 .. n /\ j \in 1 .. n - 1 /\ j # i
    BY <1>1, <1>19, <1>21
  <2>2. s.heap[j] = q.heap[j]
    BY <1>18, <2>1
  <2>3. q.heap[i].time <= q.heap[j].time
    BY <1>19, <1>21, <2>1
  <2>4. ASSUME i > 1
        PROVE  /\ q.heap[i \div 2].time <= q.heap[i].time
               /\ s.heap[i \div 2] = q.heap[i \div 2] /\ i \div 2 \in 1 .. n
    <3>1. i \in 2 .. n
      BY <1>2, <2>4
    <3>2. i \div 2 \in 1 .. n /\ i \div 2 < i
          /\ q.heap[i \div 2].time <= q.heap[i].time
      BY <1>19, <3>1
    <3>3. i \div 2 \in 1 .. n - 1 /\ i \div 2 # i
      BY <1>1, <1>2, <3>2
    <3>4. QED
      BY <1>18, <3>2, <3>3
  <2>5. q.heap[j].time \in Nat /\ q.heap[i].time \in Nat
    BY <1>2, <1>3, <1>19, <2>1
  <2>6. i > 1 => q.heap[i \div 2].time \in Nat
    BY <1>3, <2>4
  <2>7. ASSUME i > 1 PROVE s.heap[i \div 2].time <= s.heap[j].time
    <3>1. q.heap[i \div 2].time <= q.heap[j].time
      BY <2>3, <2>4, <2>5, <2>6, <2>7
    <3>2. QED
      BY <2>2, <2>4, <2>7, <3>1, Zenon
  <2>8. QED
    BY <2>2, <2>3, <2>4, <2>7
<1> DEFINE p == Restore(s, i)
<1>22. CASE i = n
  <2>1. p = s
    <3>1. i > Len(s.heap)
      BY <1>1, <1>11, <1>22
    <3>2. QED
      BY <3>1 DEF Restore
  <2>2. \A j \in 2 .. n - 1 : j # i /\ j \div 2 # i
    BY <1>1, <1>22, Half
  <2>3. Ordered(s)
    BY <1>11, <1>20, <2>2 DEF Ordered
  <2>4. Beside(s, q)
    BY <1>6, <1>10 DEF Beside
  <2>5. QED
    BY <1>4, <1>11, <1>13, <1>16, <1>17, <2>1, <2>3, <2>4 DEF GoodHeap
<1>23. CASE i # n
  <2>1. i \in 1 .. Len(s.heap)
    BY <1>1, <1>2, <1>11, <1>23
  <2>2. \A k \in 1 .. n - 1 : s.heap[k].time \in Nat
    BY <1>11, <1>13, TypeIs
  <2>3. s.heap[i].time \in Nat
    BY <1>11, <2>1, <2>2
  <2>4. p \in Heaps(T, s) /\ Ordered(p)
    <3>1. CASE i > 1 /\ Before(s, i, i \div 2)
      <4>1. p = UpHeap(s, i)
        BY <2>1, <3>1 DEF Restore
      <4>2. ASSUME NEW j \in 2 .. n - 1, j # i PROVE InOrder(s, j)
        <5>1. CASE j \div 2 = i
          <6>1. /\ s.heap[j].time = q.heap[j].time
                /\ s.heap[i \div 2].time <= s.heap[j].time
            BY <1>21, <3>1, <5>1
          <6>2. s.heap[i].time < s.heap[i \div 2].time
            BY <3>1 DEF Before
          <6>3. j \in 1 .. n - 1 /\ i \div 2 \in 1 .. n - 1
            BY <1>1, <1>2, <1>11, <1>19, <2>1, <3>1, Half
          <6>4. s.heap[j].time \in Nat /\ s.heap[i \div 2].time \in Nat
            BY <2>2, <6>3
          <6>5. s.heap[i].time <= s.heap[j].time
            BY <2>3, <6>1, <6>2, <6>4
          <6>6. QED
            BY <5>1, <6>5, Zenon DEF InOrder
        <5>2. QED
          BY <1>20, <4>2, <5>1
      <4>3. OpenAbove(s, i)
        BY <1>11, <1>21, <4>2 DEF OpenAbove
      <4>4. QED
        BY <1>13, <1>16, <2>1, <4>1, <4>3, UpHeapIs
    <3>2. CASE ~(i > 1 /\ Before(s, i, i \div 2))
      <4>1. p = DownHeap(s, i)
        BY <1>1, <1>2, <1>11, <2>1, <3>2 DEF Restore
      <4>2. ASSUME NEW j \in 2 .. n - 1, j \div 2 # i PROVE InOrder(s, j)
        <5>1. CASE j = i
          <6>1. i > 1 /\ i \div 2 \in 1 .. n - 1
            BY <1>1, <1>19, <5>1
          <6>2. ~(s.heap[i].time < s.heap[i \div 2].time)
            BY <3>2, <6>1 DEF Before
          <6>3. s.heap[i \div 2].time \in Nat
            BY <2>2, <6>1
          <6>4. s.heap[i \div 2].time <= s.heap[i].time
            BY <2>3, <6>2, <6>3
          <6>5. QED
            BY <5>1, <6>4, Zenon DEF InOrder
        <5>2. QED
          BY <1>20, <4>2, <5>1
      <4>3. OpenBelow(s, i)
        BY <1>11, <1>21, <4>2 DEF OpenBelow
      <4>4. QED
        BY <1>13, <1>16, <2>1, <4>1, <4>3, DownHeapIs
    <3>3. QED
      BY <3>1, <3>2
  <2> HIDE DEF p
  <2>5. /\ p \in QueueType(T) /\ Indexed(p) /\ Beside(p, s)
        /\ Len(p.heap) = Len(s.heap) /\ Entries(p) = Entries(s)
    BY <1>13, <2>4, HeapsSame
  <2>6. Beside(p, q)
    BY <1>6, <1>10, <2>5 DEF Beside
  <2>7. QED
    BY <1>4, <1>11, <1>17, <2>4, <2>5, <2>6 DEF GoodHeap, p
<1>24. QED
  BY <1>22, <1>23

----------------------------------------------------------------------------
(* The list *)

\* The list is linked both ways, and r grows along it: it has no cycle, and
\* whoever is in it is reached from the head.
NextOK(T, q, r) ==
  \A t \in T : q.next[t] # NoTimer =>
    q.prev[q.next[t]] = t /\ r[t] < r[q.next[t]] /\ IsActive(q, t)
PrevOK(T, q) == \A t \in T : q.prev[t] # NoTimer => q.next[q.prev[t]] = t
HeadOK(q) == q.head # NoTimer => q.prev[q.head] = NoTimer

LinkedBy(T, q, r) == r \in [T -> Int] /\ NextOK(T, q, r) /\ PrevOK(T, q) /\ HeadOK(q)
Linked(T, q) == \E r : LinkedBy(T, q, r)

\* What a queue is besides its list.
Within(p, q) == p.heap = q.heap /\ p.index = q.index /\ p.ops = q.ops

\* A timer becomes the first of the list.
LEMMA LinkFirstIs ==
  ASSUME NEW T, NoTimer \notin T, NEW q \in QueueType(T), Linked(T, q),
         NEW t \in T, ~IsActive(q, t)
  PROVE  LET p == LinkFirst(q, t)
         IN  /\ p \in QueueType(T) /\ Within(p, q) /\ Linked(T, p)
             /\ \A s \in T : IsActive(p, s) <=> IsActive(q, s) \/ s = t
<1> DEFINE p == LinkFirst(q, t)
           h == q.head
<1>1. /\ q.next \in [T -> T \cup {NoTimer}] /\ q.prev \in [T -> T \cup {NoTimer}]
      /\ h \in T \cup {NoTimer}
  BY TypeIs
<1>2. /\ p = [q EXCEPT !.head = t, !.next = p.next, !.prev = p.prev]
      /\ p.head = t /\ p.next = [q.next EXCEPT ![t] = h] /\ Within(p, q)
      /\ p.prev = [s \in T |-> IF s = t THEN NoTimer
                               ELSE IF s = h THEN t ELSE q.prev[s]]
  <2>1. h # t
    BY DEF IsActive
  <2>2. \A s \in T : (CASE s = t -> NoTimer [] s = h -> t [] OTHER -> q.prev[s]) =
                      IF s = t THEN NoTimer ELSE IF s = h THEN t ELSE q.prev[s]
    BY <2>1
  <2>3. [s \in DOMAIN q.prev |-> CASE s = t -> NoTimer [] s = h -> t
                                   [] OTHER -> q.prev[s]] =
        [s \in T |-> IF s = t THEN NoTimer ELSE IF s = h THEN t ELSE q.prev[s]]
    BY <1>1, <2>2
  <2> DEFINE prev == [s \in DOMAIN q.prev |-> CASE s = t -> NoTimer [] s = h -> t
                                                [] OTHER -> q.prev[s]]
  <2>4. p = [q EXCEPT !.head = t, !.next = [q.next EXCEPT ![t] = h], !.prev = prev]
    BY DEF LinkFirst, QueueType
  <2> HIDE DEF prev, h, p
  <2>5. /\ p.head = t /\ p.next = [q.next EXCEPT ![t] = h] /\ p.prev = prev
        /\ Within(p, q) /\ p = [q EXCEPT !.head = t, !.next = p.next, !.prev = p.prev]
    BY <2>4 DEF QueueType, Within
  <2>6. QED
    BY <2>3, <2>5 DEF prev
<1>3. PICK r : r \in [T -> Int] /\ NextOK(T, q, r) /\ PrevOK(T, q) /\ HeadOK(q)
  BY DEF Linked, LinkedBy
<1> HIDE DEF p, h
<1>4. q.prev[t] = NoTimer /\ h # t /\ q.next[t] = NoTimer
  BY <1>3 DEF IsActive, NextOK, h
<1>5. p.next \in [T -> T \cup {NoTimer}] /\ p.prev \in [T -> T \cup {NoTimer}]
  BY <1>1, <1>2
<1>6. p \in QueueType(T)
  BY <1>2, <1>5 DEF QueueType
<1>7. \A s \in T : /\ p.next[s] = IF s = t THEN h ELSE q.next[s]
                   /\ p.prev[s] = IF s = t THEN NoTimer
                                  ELSE IF s = h THEN t ELSE q.prev[s]
  BY <1>1, <1>2
<1>8. \A s \in T : IsActive(p, s) <=> IsActive(q, s) \/ s = t
  BY <1>2, <1>7 DEF IsActive, h
<1> DEFINE k == [r EXCEPT ![t] = IF h = NoTimer THEN 0 ELSE r[h] - 1]
<1>9. k \in [T -> Int]
  BY <1>1, <1>3
<1>10. (\A s \in T : s # t => k[s] = r[s]) /\ (h # NoTimer => k[t] = r[h] - 1)
  BY <1>3
<1> HIDE DEF k
<1>11. ASSUME NEW u \in T, p.next[u] # NoTimer
       PROVE  p.prev[p.next[u]] = u /\ k[u] < k[p.next[u]] /\ IsActive(p, u)
  <2>1. CASE u = t
    <3>1. p.next[u] = h /\ h \in T
      BY <1>1, <1>7, <1>11, <2>1
    <3>2. r[h] \in Int /\ k[h] = r[h] /\ k[t] = r[h] - 1
      BY <1>3, <1>4, <1>10, <1>11, <3>1
    <3>3. QED
      BY <1>4, <1>7, <1>8, <2>1, <3>1, <3>2
  <2>2. CASE u # t
    <3>1. p.next[u] = q.next[u] /\ q.next[u] \in T
      BY <1>1, <1>7, <1>11, <2>2
    <3>2. q.prev[q.next[u]] = u /\ r[u] < r[q.next[u]] /\ IsActive(q, u)
      BY <1>3, <1>11, <3>1 DEF NextOK
    <3>3. q.next[u] # t /\ q.next[u] # h
      BY <1>3, <1>4, <3>1, <3>2 DEF HeadOK, h
    <3>4. QED
      BY <1>7, <1>8, <1>10, <2>2, <3>1, <3>2, <3>3
  <2>3. QED
    BY <2>1, <2>2
<1>12. ASSUME NEW u \in T, p.prev[u] # NoTimer PROVE p.next[p.prev[u]] = u
  <2>1. CASE u = h
    BY <1>4, <1>7, <2>1
  <2>2. CASE u # h
    <3>1. u # t /\ p.prev[u] = q.prev[u] /\ q.prev[u] \in T
      BY <1>1, <1>7, <1>12, <2>2
    <3>2. q.next[q.prev[u]] = u
      BY <1>3, <3>1 DEF PrevOK
    <3>3. q.prev[u] # t
      BY <1>4, <3>2
    <3>4. QED
      BY <1>7, <3>1, <3>2, <3>3
  <2>3. QED
    BY <2>1, <2>2
<1>13. p.prev[p.head] = NoTimer
  BY <1>2, <1>7
<1>14. Linked(T, p)
  BY <1>9, <1>11, <1>12, <1>13 DEF Linked, LinkedBy, NextOK, PrevOK, HeadOK
<1>15. QED
  BY <1>2, <1>6, <1>8, <1>14 DEF p

\* A timer leaves the list.
LEMMA UnlinkIs ==
  ASSUME NEW T, NoTimer \notin T, NEW q \in QueueType(T), Linked(T, q),
         NEW t \in T, IsActive(q, t)
  PROVE  LET p == Unlink(q, t)
         IN  /\ p \in QueueType(T) /\ Within(p, q) /\ Linked(T, p)
             /\ \A s \in T : IsActive(p, s) <=> IsActive(q, s) /\ s # t
<1> DEFINE p == Unlink(q, t)
           b == q.prev[t]
           n == q.next[t]
<1>1. /\ q.next \in [T -> T \cup {NoTimer}] /\ q.prev \in [T -> T \cup {NoTimer}]
      /\ q.head \in T \cup {NoTimer}
  BY TypeIs
<1>2. /\ p = [q EXCEPT !.head = p.head, !.next = p.next, !.prev = p.prev]
      /\ p.head = (IF q.head = t THEN n ELSE q.head) /\ Within(p, q)
      /\ p.next = [s \in T |-> IF s = t THEN NoTimer
                               ELSE IF s = b THEN n ELSE q.next[s]]
      /\ p.prev = [s \in T |-> IF s = t THEN NoTimer
                               ELSE IF s = n THEN b ELSE q.prev[s]]
  BY <1>1 DEF Unlink, Detach, Relink, QueueType, Within
<1>3. PICK r : r \in [T -> Int] /\ NextOK(T, q, r) /\ PrevOK(T, q) /\ HeadOK(q)
  BY DEF Linked, LinkedBy
<1>4. b \in T \cup {NoTimer} /\ n \in T \cup {NoTimer}
  BY <1>1
<1> HIDE DEF p
<1>5. p.next \in [T -> T \cup {NoTimer}] /\ p.prev \in [T -> T \cup {NoTimer}]
      /\ p.head \in T \cup {NoTimer}
  BY <1>1, <1>2, <1>4
<1>6. p \in QueueType(T)
  BY <1>2, <1>5 DEF QueueType
<1>7. \A s \in T : /\ p.next[s] = IF s = t THEN NoTimer
                                  ELSE IF s = b THEN n ELSE q.next[s]
                   /\ p.prev[s] = IF s = t THEN NoTimer
                                  ELSE IF s = n THEN b ELSE q.prev[s]
  BY <1>2
<1>8. n # NoTimer => q.prev[n] = t /\ r[t] < r[n]
  BY <1>3 DEF NextOK
<1>9. b # NoTimer => q.next[b] = t /\ r[b] < r[t] /\ IsActive(q, b)
  <2> SUFFICES ASSUME b # NoTimer
               PROVE  q.next[b] = t /\ r[b] < r[t] /\ IsActive(q, b)
    OBVIOUS
  <2>1. b \in T /\ q.next[b] = t
    BY <1>3, <1>4 DEF PrevOK
  <2>2. t # NoTimer
    OBVIOUS
  <2>3. QED
    BY <1>3, <2>1, <2>2 DEF NextOK
<1>10. n # t /\ b # t /\ (n # NoTimer => n # b)
  BY <1>3, <1>4, <1>8, <1>9
<1>11. b = NoTimer => q.head = t
  BY DEF IsActive
<1>12. q.head = t => b = NoTimer
  BY <1>3 DEF HeadOK
<1> HIDE DEF b, n
<1>13. \A s \in T : IsActive(p, s) <=> IsActive(q, s) /\ s # t
  BY <1>2, <1>4, <1>7, <1>8, <1>10, <1>11, <1>12 DEF IsActive
<1>14. ASSUME NEW u \in T, p.next[u] # NoTimer
       PROVE  p.prev[p.next[u]] = u /\ r[u] < r[p.next[u]] /\ IsActive(p, u)
  <2>1. u # t
    BY <1>7, <1>14
  <2>2. CASE u = b
    <3>1. p.next[u] = n /\ n \in T
      BY <1>4, <1>7, <1>14, <2>1, <2>2
    <3>2. r[b] < r[t] /\ r[t] < r[n] /\ IsActive(q, b)
      BY <1>8, <1>9, <2>2, <3>1
    <3>3. r[b] \in Int /\ r[t] \in Int /\ r[n] \in Int
      BY <1>3, <2>2, <3>1
    <3>4. QED
      BY <1>7, <1>10, <1>13, <2>1, <2>2, <3>1, <3>2, <3>3
  <2>3. CASE u # b
    <3>1. p.next[u] = q.next[u] /\ q.next[u] \in T
      BY <1>1, <1>7, <1>14, <2>1, <2>3
    <3>2. q.prev[q.next[u]] = u /\ r[u] < r[q.next[u]] /\ IsActive(q, u)
      BY <1>3, <1>14, <3>1 DEF NextOK
    <3>3. q.next[u] # t /\ q.next[u] # n
      BY <1>8, <2>1, <2>3, <3>1, <3>2 DEF b
    <3>4. QED
      BY <1>7, <1>13, <2>1, <3>1, <3>2, <3>3
  <2>4. QED
    BY <2>2, <2>3
<1>15. ASSUME NEW u \in T, p.prev[u] # NoTimer PROVE p.next[p.prev[u]] = u
  <2>1. u # t
    BY <1>7, <1>15
  <2>2. CASE u = n
    <3>1. p.prev[u] = b /\ b \in T
      BY <1>4, <1>7, <1>15, <2>1, <2>2
    <3>2. QED
      BY <1>7, <1>10, <2>2, <3>1
  <2>3. CASE u # n
    <3>1. p.prev[u] = q.prev[u] /\ q.prev[u] \in T
      BY <1>1, <1>7, <1>15, <2>1, <2>3
    <3>2. q.next[q.prev[u]] = u
      BY <1>3, <3>1 DEF PrevOK
    <3>3. q.prev[u] # t /\ q.prev[u] # b
      BY <1>9, <2>1, <2>3, <3>1, <3>2 DEF n
    <3>4. QED
      BY <1>7, <3>1, <3>2, <3>3
  <2>4. QED
    BY <2>2, <2>3
<1>16. ASSUME p.head # NoTimer PROVE p.prev[p.head] = NoTimer
  <2>1. CASE q.head = t
    BY <1>2, <1>4, <1>7, <1>10, <1>12, <1>16, <2>1
  <2>2. CASE q.head # t
    <3>1. p.head = q.head /\ q.head \in T /\ q.prev[q.head] = NoTimer
      BY <1>1, <1>2, <1>3, <1>16, <2>2 DEF HeadOK
    <3>2. q.head # n
      BY <1>8, <3>1
    <3>3. QED
      BY <1>7, <2>2, <3>1, <3>2
  <2>3. QED
    BY <2>1, <2>2
<1>17. Linked(T, p)
  BY <1>3, <1>14, <1>15, <1>16 DEF Linked, LinkedBy, NextOK, PrevOK, HeadOK
<1>18. QED
  BY <1>2, <1>6, <1>13, <1>17 DEF p

\* A timer takes the place of another in the list.
LEMMA MoveLinksIs ==
  ASSUME NEW T, NoTimer \notin T, NEW q \in QueueType(T), Linked(T, q),
         NEW a \in T, NEW b \in T, a # b, ~IsActive(q, a)
  PROVE  LET p == MoveLinks(q, a, b)
         IN  /\ p \in QueueType(T) /\ Within(p, q) /\ Linked(T, p)
             /\ \A s \in T : IsActive(p, s) <=>
                  IF s = a THEN IsActive(q, b) ELSE IsActive(q, s) /\ s # b
<1> DEFINE p == MoveLinks(q, a, b)
           c == q.prev[b]
           n == q.next[b]
<1>1. /\ q.next \in [T -> T \cup {NoTimer}] /\ q.prev \in [T -> T \cup {NoTimer}]
      /\ q.head \in T \cup {NoTimer}
  BY TypeIs
<1>2. /\ p = [q EXCEPT !.head = p.head, !.next = p.next, !.prev = p.prev]
      /\ p.head = (IF q.head = b THEN a ELSE q.head) /\ Within(p, q)
      /\ p.next = [s \in T |-> IF s = b THEN NoTimer ELSE IF s = a THEN n
                               ELSE IF s = c THEN a ELSE q.next[s]]
      /\ p.prev = [s \in T |-> IF s = b THEN NoTimer ELSE IF s = a THEN c
                               ELSE IF s = n THEN a ELSE q.prev[s]]
  <2> DEFINE head == IF q.head = b THEN a ELSE q.head
             next == [s \in T |-> IF s = c THEN a ELSE q.next[s]]
             prev == [s \in T |-> IF s = n THEN a ELSE q.prev[s]]
             m == [q EXCEPT !.head = head, !.next = next, !.prev = prev]
             o == [m EXCEPT !.next = [next EXCEPT ![a] = n],
                            !.prev = [prev EXCEPT ![a] = c]]
  <2>1. Relink(q, b, a, a) = m
    BY <1>1 DEF Relink
  <2> HIDE DEF c, n
  <2>2. /\ m.head = head /\ m.next = next /\ m.prev = prev
        /\ m = [q EXCEPT !.head = m.head, !.next = m.next, !.prev = m.prev]
        /\ Within(m, q)
    BY DEF QueueType, Within
  <2>3. [Relink(q, b, a, a) EXCEPT !.next[a] = n, !.prev[a] = c] = o
    <3> HIDE DEF m, next, prev, head
    <3>1. [m EXCEPT !.next[a] = n, !.prev[a] = c] =
          [m EXCEPT !.next = [m.next EXCEPT ![a] = n], !.prev = [m.prev EXCEPT ![a] = c]]
      OBVIOUS
    <3>2. QED
      BY <2>1, <2>2, <3>1
  <2> DEFINE next2 == [next EXCEPT ![a] = n]
             prev2 == [prev EXCEPT ![a] = c]
  <2> HIDE DEF m, next, prev, head, next2, prev2
  <2>4. /\ o.head = head /\ o.next = next2 /\ o.prev = prev2
        /\ o = [q EXCEPT !.head = head, !.next = next2, !.prev = prev2]
        /\ Within(o, q)
    BY <2>2 DEF QueueType, Within, next2, prev2
  <2> HIDE DEF o
  <2>5. p = [o EXCEPT !.next = [next2 EXCEPT ![b] = NoTimer],
                      !.prev = [prev2 EXCEPT ![b] = NoTimer]]
    <3>1. p = Detach([Relink(q, b, a, a) EXCEPT !.next[a] = n, !.prev[a] = c], b)
      BY DEF MoveLinks, c, n
    <3>2. Detach(o, b) = [o EXCEPT !.next = [next2 EXCEPT ![b] = NoTimer],
                                   !.prev = [prev2 EXCEPT ![b] = NoTimer]]
      BY <2>4 DEF Detach
    <3>3. QED
      BY <2>3, <3>1, <3>2
  <2> HIDE DEF p
  <2>6. /\ p.head = head /\ p.next = [next2 EXCEPT ![b] = NoTimer]
        /\ p.prev = [prev2 EXCEPT ![b] = NoTimer]
        /\ p = [q EXCEPT !.head = p.head, !.next = p.next, !.prev = p.prev]
        /\ Within(p, q)
    BY <2>4, <2>5 DEF QueueType, Within
  <2>7. /\ [next2 EXCEPT ![b] = NoTimer] =
           [s \in T |-> IF s = b THEN NoTimer ELSE IF s = a THEN n
                        ELSE IF s = c THEN a ELSE q.next[s]]
        /\ [prev2 EXCEPT ![b] = NoTimer] =
           [s \in T |-> IF s = b THEN NoTimer ELSE IF s = a THEN c
                        ELSE IF s = n THEN a ELSE q.prev[s]]
    BY DEF next2, prev2, next, prev
  <2>8. QED
    BY <2>6, <2>7 DEF head
<1>3. PICK r : r \in [T -> Int] /\ NextOK(T, q, r) /\ PrevOK(T, q) /\ HeadOK(q)
  BY DEF Linked, LinkedBy
<1>4. c \in T \cup {NoTimer} /\ n \in T \cup {NoTimer}
  BY <1>1
<1> HIDE DEF p
<1>5. p.next \in [T -> T \cup {NoTimer}] /\ p.prev \in [T -> T \cup {NoTimer}]
      /\ p.head \in T \cup {NoTimer}
  BY <1>1, <1>2, <1>4
<1>6. p \in QueueType(T)
  BY <1>2, <1>5 DEF QueueType
<1>7. \A s \in T : /\ p.next[s] = IF s = b THEN NoTimer ELSE IF s = a THEN n
                                  ELSE IF s = c THEN a ELSE q.next[s]
                   /\ p.prev[s] = IF s = b THEN NoTimer ELSE IF s = a THEN c
                                  ELSE IF s = n THEN a ELSE q.prev[s]
  BY <1>2
<1>8. n # NoTimer => q.prev[n] = b /\ r[b] < r[n] /\ IsActive(q, b)
  BY <1>3 DEF NextOK
<1>9. c # NoTimer => q.next[c] = b /\ r[c] < r[b] /\ IsActive(q, c)
  <2> SUFFICES ASSUME c # NoTimer
               PROVE  q.next[c] = b /\ r[c] < r[b] /\ IsActive(q, c)
    OBVIOUS
  <2>1. c \in T /\ q.next[c] = b
    BY <1>3, <1>4 DEF PrevOK
  <2>2. b # NoTimer
    OBVIOUS
  <2>3. QED
    BY <1>3, <2>1, <2>2 DEF NextOK
<1>10. q.prev[a] = NoTimer /\ q.head # a /\ q.next[a] = NoTimer
  BY <1>3 DEF IsActive, NextOK
<1>11. n # b /\ c # b /\ n # a /\ c # a /\ (n # NoTimer => n # c)
  <2>1. b # NoTimer /\ a # NoTimer
    OBVIOUS
  <2>2. n # a /\ c # a
    BY <1>8, <1>9, <1>10, <2>1
  <2>3. n # b /\ c # b /\ (n # NoTimer => n # c)
    BY <1>3, <1>4, <1>8, <1>9, <2>1
  <2>4. QED
    BY <2>2, <2>3
<1>12. /\ IsActive(q, b) <=> c # NoTimer \/ q.head = b
       /\ q.head = b => c = NoTimer
  BY <1>3 DEF HeadOK, IsActive
<1> HIDE DEF c, n
<1>13. ASSUME NEW s \in T
       PROVE  IsActive(p, s) <=>
                IF s = a THEN IsActive(q, b) ELSE IsActive(q, s) /\ s # b
  <2>1. CASE s = a
    BY <1>2, <1>7, <1>10, <1>12, <2>1 DEF IsActive
  <2>2. CASE s = b
    BY <1>2, <1>7, <2>2 DEF IsActive
  <2>3. CASE s = n /\ s # a /\ s # b
    BY <1>7, <1>8, <2>3 DEF IsActive
  <2>4. CASE s # n /\ s # a /\ s # b
    BY <1>2, <1>7, <2>4 DEF IsActive
  <2>5. QED
    BY <2>1, <2>2, <2>3, <2>4
<1> DEFINE k == [r EXCEPT ![a] = r[b]]
<1>14. k \in [T -> Int] /\ k[a] = r[b] /\ \A s \in T : s # a => k[s] = r[s]
  BY <1>3
<1> HIDE DEF k
<1>15. ASSUME NEW u \in T, p.next[u] # NoTimer
       PROVE  p.prev[p.next[u]] = u /\ k[u] < k[p.next[u]] /\ IsActive(p, u)
  <2>1. u # b
    BY <1>7, <1>15
  <2>2. CASE u = a
    <3>1. p.next[u] = n /\ n \in T
      BY <1>4, <1>7, <1>15, <2>1, <2>2
    <3>2. r[b] < r[n] /\ IsActive(q, b)
      BY <1>8, <1>15, <3>1
    <3>3. p.prev[n] = a
      BY <1>7, <1>11, <3>1
    <3>4. k[n] = r[n] /\ k[a] = r[b]
      BY <1>11, <1>14, <3>1
    <3>5. QED
      BY <1>13, <2>2, <3>1, <3>2, <3>3, <3>4
  <2>3. CASE u = c /\ u # a
    <3>1. p.next[u] = a /\ p.prev[a] = c
      BY <1>7, <2>1, <2>3
    <3>2. r[c] < r[b] /\ IsActive(q, c)
      BY <1>9, <2>3
    <3>3. k[a] = r[b] /\ k[c] = r[c]
      BY <1>14, <2>3
    <3>4. QED
      BY <1>13, <2>1, <2>3, <3>1, <3>2, <3>3
  <2>4. CASE u # a /\ u # c
    <3>1. p.next[u] = q.next[u] /\ q.next[u] \in T
      BY <1>1, <1>7, <1>15, <2>1, <2>4
    <3>2. q.prev[q.next[u]] = u /\ r[u] < r[q.next[u]] /\ IsActive(q, u)
      BY <1>3, <1>15, <3>1 DEF NextOK
    <3>3. q.next[u] # b /\ q.next[u] # n /\ q.next[u] # a
      BY <1>8, <1>10, <2>1, <2>4, <3>1, <3>2 DEF c
    <3>4. p.prev[q.next[u]] = u
      BY <1>7, <3>1, <3>2, <3>3
    <3>5. k[u] < k[q.next[u]]
      BY <1>14, <2>4, <3>1, <3>2, <3>3
    <3>6. QED
      BY <1>13, <2>1, <2>4, <3>1, <3>2, <3>4, <3>5
  <2>5. QED
    BY <2>2, <2>3, <2>4
<1>16. ASSUME NEW u \in T, p.prev[u] # NoTimer PROVE p.next[p.prev[u]] = u
  <2>1. u # b
    BY <1>7, <1>16
  <2>2. CASE u = a
    <3>1. p.prev[u] = c /\ c \in T
      BY <1>4, <1>7, <1>16, <2>1, <2>2
    <3>2. QED
      BY <1>7, <1>11, <2>2, <3>1
  <2>3. CASE u = n /\ u # a
    <3>1. p.prev[u] = a /\ p.next[a] = n
      BY <1>7, <2>1, <2>3
    <3>2. QED
      BY <2>3, <3>1
  <2>4. CASE u # a /\ u # n
    <3>1. p.prev[u] = q.prev[u] /\ q.prev[u] \in T
      BY <1>1, <1>7, <1>16, <2>1, <2>4
    <3>2. q.next[q.prev[u]] = u
      BY <1>3, <3>1 DEF PrevOK
    <3>3. q.prev[u] # b /\ q.prev[u] # c /\ q.prev[u] # a
      BY <1>9, <1>10, <2>1, <2>4, <3>1, <3>2 DEF n
    <3>4. QED
      BY <1>7, <3>1, <3>2, <3>3
  <2>5. QED
    BY <2>2, <2>3, <2>4
<1>17. ASSUME p.head # NoTimer PROVE p.prev[p.head] = NoTimer
  <2>1. CASE q.head = b
    BY <1>2, <1>7, <1>12, <2>1
  <2>2. CASE q.head # b
    <3>1. p.head = q.head /\ q.head \in T /\ q.prev[q.head] = NoTimer
      BY <1>1, <1>2, <1>3, <1>17, <2>2 DEF HeadOK
    <3>2. q.head # n /\ q.head # a
      BY <1>8, <1>10, <3>1
    <3>3. QED
      BY <1>7, <2>2, <3>1, <3>2
  <2>3. QED
    BY <2>1, <2>2
<1>18. Linked(T, p)
  BY <1>14, <1>15, <1>16, <1>17 DEF Linked, LinkedBy, NextOK, PrevOK, HeadOK
<1>19. QED
  BY <1>2, <1>6, <1>13, <1>18 DEF p

----------------------------------------------------------------------------
(* The queue *)

\* The timers with waits are those in the list and those in the heap, with the
\* times they were given.
ActiveIs(q, t) == /\ IsActive(q, t) <=> q.ops[t] # <<>>
                  /\ IsActive(q, t) <=> q.index[t] # 0
Timed(q, times) == \A e \in Entries(q) : e.time = times[e.timer]

GoodQueue(T, q, times) ==
  /\ GoodHeap(T, q) /\ Linked(T, q)
  /\ \A t \in T : ActiveIs(q, t)
  /\ Timed(q, times)

\* The same timers are in the list.
SameActive(T, p, q) == \A s \in T : IsActive(p, s) <=> IsActive(q, s)

\* What happens in the heap leaves the list alone.
LEMMA BesideSame ==
  ASSUME NEW T, NEW p, NEW q, Beside(p, q)
  PROVE  /\ Linked(T, p) <=> Linked(T, q)
         /\ SameActive(T, p, q) /\ p.ops = q.ops
<1>1. SameActive(T, p, q)
  BY DEF Beside, SameActive, IsActive
<1>2. ASSUME NEW r PROVE LinkedBy(T, p, r) <=> LinkedBy(T, q, r)
  BY <1>1 DEF Beside, SameActive, LinkedBy, NextOK, PrevOK, HeadOK
<1>3. QED
  BY <1>1, <1>2 DEF Linked, Beside

\* What happens in the list leaves the heap alone.
LEMMA WithinSame ==
  ASSUME NEW T, NEW p \in QueueType(T), NEW q, GoodHeap(T, q), Within(p, q)
  PROVE  GoodHeap(T, p) /\ Entries(p) = Entries(q) /\ Len(p.heap) = Len(q.heap)
<1>1. p.heap = q.heap /\ p.index = q.index
  BY DEF Within
<1>2. Entries(p) = Entries(q) /\ Ordered(p)
  BY <1>1 DEF Entries, Ordered, InOrder, GoodHeap
<1>3. Indexed(p)
  BY <1>1 DEF Indexed, GoodHeap
<1>4. QED
  BY <1>1, <1>2, <1>3 DEF GoodHeap

\* Only the operations of p are other than those of q.
SameButOps(p, q) ==
  /\ p.heap = q.heap /\ p.index = q.index
  /\ p.head = q.head /\ p.next = q.next /\ p.prev = q.prev

\* Waits come and go without moving their timer.
LEMMA SameButOpsIs ==
  ASSUME NEW T, NEW p \in QueueType(T), NEW q, GoodHeap(T, q), Linked(T, q),
         SameButOps(p, q)
  PROVE  /\ GoodHeap(T, p) /\ Linked(T, p) /\ SameActive(T, p, q)
         /\ Entries(p) = Entries(q) /\ p.heap = q.heap /\ p.index = q.index
<1>1. SameActive(T, p, q)
  BY DEF SameButOps, SameActive, IsActive
<1>2. ASSUME NEW r PROVE LinkedBy(T, p, r) <=> LinkedBy(T, q, r)
  BY <1>1 DEF SameButOps, SameActive, LinkedBy, NextOK, PrevOK, HeadOK
<1>3. Entries(p) = Entries(q) /\ Ordered(p) /\ Indexed(p)
  BY DEF SameButOps, Entries, Ordered, InOrder, GoodHeap, Indexed
<1>4. QED
  BY <1>1, <1>2, <1>3 DEF Linked, GoodHeap, SameButOps

\* A timer without waits leaves heap and list.
LEMMA RemoveTimerIs ==
  ASSUME NEW T, NoTimer \notin T, NEW q, GoodHeap(T, q), Linked(T, q),
         NEW t \in T, IsActive(q, t), q.index[t] # 0
  PROVE  LET p == RemoveTimer(q, t)
         IN  /\ GoodHeap(T, p) /\ Linked(T, p) /\ p.ops = q.ops
             /\ Entries(p) = {e \in Entries(q) : e.timer # t}
             /\ Len(p.heap) = Len(q.heap) - 1
             /\ \A s \in T : IsActive(p, s) <=> IsActive(q, s) /\ s # t
<1> DEFINE r == RemoveFromHeap(q, t)
           p == Unlink(r, t)
<1>1. /\ GoodHeap(T, r) /\ Beside(r, q)
      /\ Entries(r) = {e \in Entries(q) : e.timer # t}
      /\ Len(r.heap) = Len(q.heap) - 1
  BY RemoveFromHeapIs
<1> HIDE DEF r
<1>2. Linked(T, r) /\ SameActive(T, r, q) /\ r.ops = q.ops
  BY <1>1, BesideSame
<1>3. r \in QueueType(T) /\ IsActive(r, t)
  BY <1>1, <1>2 DEF GoodHeap, SameActive
<1>4. /\ p \in QueueType(T) /\ Within(p, r) /\ Linked(T, p)
      /\ \A s \in T : IsActive(p, s) <=> IsActive(r, s) /\ s # t
  BY <1>2, <1>3, UnlinkIs
<1> HIDE DEF p
<1>5. GoodHeap(T, p) /\ Entries(p) = Entries(r) /\ Len(p.heap) = Len(r.heap)
  BY <1>1, <1>4, WithinSame
<1>6. p.ops = r.ops
  BY <1>4 DEF Within
<1>7. RemoveTimer(q, t) = p
  BY DEF RemoveTimer, p, r
<1>8. \A s \in T : IsActive(p, s) <=> IsActive(q, s) /\ s # t
  BY <1>2, <1>4 DEF SameActive
<1>9. QED
  BY <1>1, <1>2, <1>4, <1>5, <1>6, <1>7, <1>8

\* The timers in the heap are those of its entries.
LEMMA IndexIs ==
  ASSUME NEW T, NEW q, GoodHeap(T, q), NEW t \in T
  PROVE  q.index[t] # 0 <=> \E e \in Entries(q) : e.timer = t
<1>1. /\ DOMAIN q.index = T /\ Len(q.heap) \in Nat
      /\ \A i \in 1 .. Len(q.heap) : q.index[q.heap[i].timer] = i
      /\ \A s \in T : q.index[s] # 0 =>
           q.index[s] \in 1 .. Len(q.heap) /\ q.heap[q.index[s]].timer = s
  BY TypeIs DEF GoodHeap, Indexed
<1>2. ASSUME q.index[t] # 0 PROVE \E e \in Entries(q) : e.timer = t
  BY <1>1, <1>2 DEF Entries
<1>3. ASSUME NEW e \in Entries(q), e.timer = t PROVE q.index[t] # 0
  <2>1. PICK i \in 1 .. Len(q.heap) : e = q.heap[i]
    BY DEF Entries
  <2>2. q.index[t] = i
    BY <1>1, <1>3, <2>1
  <2>3. QED
    BY <1>1, <2>1, <2>2
<1>4. QED
  BY <1>2, <1>3

\* The waits of a timer become those of s: it stays when there are some.
LEMMA ShrinkIs ==
  ASSUME NEW T, NoTimer \notin T, NEW times, NEW q, GoodQueue(T, q, times),
         NEW t \in T, q.ops[t] # <<>>, NEW s \in Seq(Waits)
  PROVE  LET p == RemoveIfUnused([q EXCEPT !.ops[t] = s], t)
         IN  /\ GoodQueue(T, p, times) /\ p.ops = [q.ops EXCEPT ![t] = s]
             /\ Entries(p) \subseteq Entries(q)
             /\ s = <<>> => Len(p.heap) = Len(q.heap) - 1
<1> DEFINE r == [q EXCEPT !.ops[t] = s]
           p == RemoveIfUnused(r, t)
<1>1. q \in QueueType(T) /\ GoodHeap(T, q) /\ Linked(T, q)
      /\ \A u \in T : ActiveIs(q, u)
  BY DEF GoodQueue, GoodHeap
<1>2. q.ops \in [T -> Seq(Waits)]
  BY <1>1, TypeIs
<1>3. /\ r = [q EXCEPT !.ops = [q.ops EXCEPT ![t] = s]]
      /\ r.ops = [q.ops EXCEPT ![t] = s] /\ SameButOps(r, q)
  BY <1>1 DEF QueueType, SameButOps
<1>4. r.ops \in [T -> Seq(Waits)]
  BY <1>2, <1>3
<1> HIDE DEF r
<1>5. r \in QueueType(T)
  BY <1>1, <1>3, <1>4 DEF QueueType
<1>6. /\ GoodHeap(T, r) /\ Linked(T, r) /\ SameActive(T, r, q)
      /\ Entries(r) = Entries(q) /\ r.heap = q.heap /\ r.index = q.index
  BY <1>1, <1>3, <1>5, SameButOpsIs
<1>7. r.ops[t] = s /\ \A u \in T : u # t => r.ops[u] = q.ops[u]
  BY <1>2, <1>3
<1>8. IsActive(r, t) /\ r.index[t] # 0
  BY <1>1, <1>6 DEF ActiveIs, SameActive
<1>9. CASE s # <<>>
  <2>1. p = r
    BY <1>7, <1>9 DEF RemoveIfUnused
  <2>2. ASSUME NEW u \in T PROVE ActiveIs(r, u)
    <3>1. ActiveIs(q, u) /\ ActiveIs(q, t)
      BY <1>1
    <3>2. r.ops[u] # <<>> <=> q.ops[u] # <<>>
      BY <1>7, <1>9
    <3>3. QED
      BY <1>6, <3>1, <3>2 DEF ActiveIs, SameActive
  <2>3. Timed(r, times)
    BY <1>6 DEF Timed, GoodQueue
  <2>4. GoodQueue(T, r, times)
    BY <1>6, <2>2, <2>3 DEF GoodQueue
  <2>5. QED
    BY <1>3, <1>6, <1>9, <2>1, <2>4 DEF r
<1>10. CASE s = <<>>
  <2> DEFINE v == RemoveTimer(r, t)
  <2>1. p = v
    BY <1>7, <1>10 DEF RemoveIfUnused
  <2>2. /\ GoodHeap(T, v) /\ Linked(T, v) /\ v.ops = r.ops
        /\ Entries(v) = {e \in Entries(r) : e.timer # t}
        /\ Len(v.heap) = Len(r.heap) - 1
        /\ \A u \in T : IsActive(v, u) <=> IsActive(r, u) /\ u # t
    BY <1>6, <1>8, RemoveTimerIs
  <2> HIDE DEF v
  <2>3. ASSUME NEW u \in T PROVE ActiveIs(v, u)
    <3>1. ActiveIs(q, u)
      BY <1>1
    <3>2. IsActive(v, u) <=> IsActive(q, u) /\ u # t
      BY <1>6, <2>2 DEF SameActive
    <3>3. v.ops[u] # <<>> <=> q.ops[u] # <<>> /\ u # t
      BY <1>7, <1>10, <2>2
    <3>4. v.index[u] # 0 <=> \E e \in Entries(v) : e.timer = u
      BY <2>2, IndexIs
    <3>5. r.index[u] # 0 <=> \E e \in Entries(r) : e.timer = u
      BY <1>6, IndexIs
    <3>6. v.index[u] # 0 <=> q.index[u] # 0 /\ u # t
      BY <1>6, <2>2, <3>4, <3>5
    <3>7. QED
      BY <3>1, <3>2, <3>3, <3>6 DEF ActiveIs
  <2>4. Entries(v) \subseteq Entries(q)
    BY <1>6, <2>2
  <2>5. Timed(v, times)
    BY <2>4 DEF Timed, GoodQueue
  <2>6. GoodQueue(T, v, times)
    BY <2>2, <2>3, <2>5 DEF GoodQueue
  <2>7. QED
    BY <1>3, <1>6, <2>1, <2>2, <2>4, <2>6 DEF r
<1>11. QED
  BY <1>9, <1>10

\* The first n waits have left, or all.
Dropped(s, n) == IF n < Len(s) THEN SubSeq(s, n + 1, Len(s)) ELSE <<>>

\* The list that is left when the first n have gone.
LEMMA DroppedIs ==
  ASSUME NEW S, NEW s \in Seq(S), NEW n \in Nat
  PROVE  /\ Dropped(s, n) \in Seq(S)
         /\ n < Len(s) =>
              /\ Len(Dropped(s, n)) = Len(s) - n
              /\ \A i \in 1 .. Len(s) - n : Dropped(s, n)[i] = s[n + i]
<1>1. CASE n < Len(s)
  <2>1. /\ SubSeq(s, n + 1, Len(s)) \in Seq(S)
        /\ Len(SubSeq(s, n + 1, Len(s))) =
             IF n + 1 <= Len(s) THEN Len(s) - (n + 1) + 1 ELSE 0
        /\ \A i \in 1 .. Len(s) - (n + 1) + 1 :
             SubSeq(s, n + 1, Len(s))[i] = s[(n + 1) + i - 1]
    BY <1>1, SubSeqProperties
  <2>2. \A i \in 1 .. Len(s) - n : (n + 1) + i - 1 = n + i
    OBVIOUS
  <2>3. Len(s) - (n + 1) + 1 = Len(s) - n /\ n + 1 <= Len(s)
    BY <1>1
  <2>4. QED
    BY <1>1, <2>1, <2>2, <2>3 DEF Dropped
<1>2. CASE ~(n < Len(s))
  BY <1>2 DEF Dropped
<1>3. QED
  BY <1>1, <1>2

\* What CancelTimer and CancelTimerByKey make of a queue whose waits on t
\* become those of s.
Shrunk(T, p, q, times, t, s) ==
  /\ GoodQueue(T, p, times) /\ p.ops = [q.ops EXCEPT ![t] = s]
  /\ Entries(p) \subseteq Entries(q)

\* A timer is in the list, in the heap, and has waits, or nothing of it.
LEMMA InactiveIs ==
  ASSUME NEW T, NEW times, NEW q, GoodQueue(T, q, times), NEW t \in T
  PROVE  /\ IsActive(q, t) <=> q.ops[t] # <<>>
         /\ IsActive(q, t) <=> q.index[t] # 0
         /\ q.ops \in [T -> Seq(Waits)] /\ q.ops[t] \in Seq(Waits)
         /\ q \in QueueType(T)
<1>1. q \in QueueType(T) /\ ActiveIs(q, t)
  BY DEF GoodQueue, GoodHeap
<1>2. q.ops \in [T -> Seq(Waits)]
  BY <1>1, TypeIs
<1>3. QED
  BY <1>1, <1>2 DEF ActiveIs

\* cancel_timer takes the first waits, and the timer with the last.
LEMMA CancelTimerIs ==
  ASSUME NEW T, NoTimer \notin T, NEW times, NEW q, GoodQueue(T, q, times),
         NEW t \in T, NEW n \in Nat
  PROVE  Shrunk(T, CancelTimer(q, t, n), q, times, t, Dropped(q.ops[t], n))
<1>1. /\ IsActive(q, t) <=> q.ops[t] # <<>>
      /\ q.ops \in [T -> Seq(Waits)] /\ q.ops[t] \in Seq(Waits)
  BY InactiveIs
<1>2. CASE IsActive(q, t)
  <2>1. CancelTimer(q, t, n) =
          RemoveIfUnused([q EXCEPT !.ops[t] = Dropped(q.ops[t], n)], t)
    BY <1>2 DEF CancelTimer, Dropped
  <2>2. Dropped(q.ops[t], n) \in Seq(Waits)
    BY <1>1, DroppedIs
  <2> DEFINE s == Dropped(q.ops[t], n)
             p == RemoveIfUnused([q EXCEPT !.ops[t] = s], t)
  <2>3. q.ops[t] # <<>>
    BY <1>1, <1>2
  <2> HIDE DEF s
  <2>4. /\ GoodQueue(T, p, times) /\ p.ops = [q.ops EXCEPT ![t] = s]
        /\ Entries(p) \subseteq Entries(q)
    BY <2>2, <2>3, ShrinkIs DEF s
  <2> HIDE DEF p
  <2>5. CancelTimer(q, t, n) = p
    BY <2>1 DEF p, s
  <2>6. QED
    BY <2>4, <2>5 DEF Shrunk, s
<1>3. CASE ~IsActive(q, t)
  <2>1. CancelTimer(q, t, n) = q
    BY <1>3 DEF CancelTimer
  <2>2. q.ops[t] = <<>>
    BY <1>1, <1>3
  <2>3. Dropped(q.ops[t], n) = q.ops[t]
    BY <2>2 DEF Dropped
  <2>4. q.ops = [q.ops EXCEPT ![t] = q.ops[t]]
    BY <1>1
  <2>5. QED
    BY <2>1, <2>3, <2>4 DEF Shrunk
<1>4. QED
  BY <1>2, <1>3

\* A list without its first e is the list, or one shorter.
LEMMA RemoveFirstIs ==
  ASSUME NEW S, NEW s \in Seq(S), NEW e
  PROVE  /\ RemoveFirst(s, e) \in Seq(S)
         /\ \/ RemoveFirst(s, e) = s /\ \A i \in 1 .. Len(s) : s[i] # e
            \/ /\ Len(RemoveFirst(s, e)) = Len(s) - 1
               /\ \E k \in 1 .. Len(s) :
                    /\ s[k] = e
                    /\ \A i \in 1 .. Len(s) - 1 :
                         RemoveFirst(s, e)[i] = IF i < k THEN s[i] ELSE s[i + 1]
<1> DEFINE I == {i \in 1 .. Len(s) : s[i] = e}
           k == Min(I)
           a == SubSeq(s, 1, k - 1)
           b == SubSeq(s, k + 1, Len(s))
<1>1. CASE I = {}
  BY <1>1 DEF RemoveFirst
<1>2. CASE I # {}
  <2>1. k \in I
    <3>1. I \subseteq Nat
      OBVIOUS
    <3> HIDE DEF I
    <3>2. \E i \in I : \A j \in I : i <= j
      BY <1>2, <3>1, LeastNumber
    <3>3. QED
      BY <3>2 DEF Min
  <2>2. SelectInSeq(s, LAMBDA v : v = e) = k
    BY <1>2 DEF SelectInSeq
  <2> HIDE DEF k
  <2>3. RemoveFirst(s, e) = a \o b
    BY <2>1, <2>2 DEF RemoveFirst, RemoveAt
  <2>4. k \in 1 .. Len(s) /\ s[k] = e /\ Len(s) \in Nat
    BY <2>1
  <2> HIDE DEF I
  <2>5. /\ a \in Seq(S) /\ Len(a) = k - 1
        /\ \A i \in 1 .. k - 1 : a[i] = s[i]
    <3>1. /\ a \in Seq(S)
          /\ Len(a) = IF 1 <= k - 1 THEN k - 1 - 1 + 1 ELSE 0
          /\ \A i \in 1 .. k - 1 - 1 + 1 : a[i] = s[1 + i - 1]
      BY <2>4, SubSeqProperties
    <3>2. k - 1 - 1 + 1 = k - 1 /\ \A i \in 1 .. k - 1 : 1 + i - 1 = i
      BY <2>4
    <3>3. QED
      BY <2>4, <3>1, <3>2
  <2>6. /\ b \in Seq(S) /\ Len(b) = Len(s) - k
        /\ \A i \in 1 .. Len(s) - k : b[i] = s[k + i]
    <3>1. /\ b \in Seq(S)
          /\ Len(b) = IF k + 1 <= Len(s) THEN Len(s) - (k + 1) + 1 ELSE 0
          /\ \A i \in 1 .. Len(s) - (k + 1) + 1 : b[i] = s[(k + 1) + i - 1]
      BY <2>4, SubSeqProperties
    <3>2. Len(s) - (k + 1) + 1 = Len(s) - k
      BY <2>4
    <3>3. ASSUME NEW i \in 1 .. Len(s) - k PROVE b[i] = s[k + i]
      <4>1. (k + 1) + i - 1 = k + i
        BY <2>4
      <4>2. b[i] = s[(k + 1) + i - 1]
        BY <3>1, <3>2
      <4>3. QED
        BY <4>1, <4>2
    <3>4. Len(b) = Len(s) - k
      <4>1. k + 1 <= Len(s) \/ Len(s) - k = 0
        BY <2>4
      <4>2. QED
        BY <3>1, <3>2, <4>1
    <3>5. QED
      BY <3>1, <3>3, <3>4
  <2> HIDE DEF a, b
  <2>7. a \o b \in Seq(S) /\ Len(a \o b) = Len(s) - 1
    <3>1. a \o b \in Seq(S) /\ Len(a \o b) = Len(a) + Len(b)
      BY <2>5, <2>6, ConcatProperties
    <3>2. k - 1 + (Len(s) - k) = Len(s) - 1
      BY <2>4
    <3>3. QED
      BY <2>5, <2>6, <3>1, <3>2
  <2>8. ASSUME NEW i \in 1 .. Len(s) - 1
        PROVE  (a \o b)[i] = IF i < k THEN s[i] ELSE s[i + 1]
    <3>1. CASE i < k
      BY <2>4, <2>5, <2>6, <3>1
    <3>2. CASE ~(i < k)
      <4>1. (a \o b)[i] = b[i - (k - 1)]
        BY <2>4, <2>5, <2>6, <3>2
      <4>2. i - (k - 1) \in 1 .. Len(s) - k /\ k + (i - (k - 1)) = i + 1
        BY <2>4, <3>2
      <4>3. QED
        BY <2>6, <3>2, <4>1, <4>2
    <3>3. QED
      BY <3>1, <3>2
  <2>9. QED
    BY <2>3, <2>4, <2>7, <2>8
<1>3. QED
  BY <1>1, <1>2

\* cancel_timer_by_key takes one wait, and the timer with the last.
LEMMA CancelByKeyIs ==
  ASSUME NEW T, NoTimer \notin T, NEW times, NEW q, GoodQueue(T, q, times),
         NEW t \in T, NEW o
  PROVE  Shrunk(T, CancelTimerByKey(q, t, o), q, times, t,
                RemoveFirst(q.ops[t], o))
<1>1. /\ IsActive(q, t) <=> q.ops[t] # <<>>
      /\ q.ops \in [T -> Seq(Waits)] /\ q.ops[t] \in Seq(Waits)
  BY InactiveIs
<1>2. CASE IsActive(q, t)
  <2>1. CancelTimerByKey(q, t, o) =
          RemoveIfUnused([q EXCEPT !.ops[t] = RemoveFirst(q.ops[t], o)], t)
    BY <1>2 DEF CancelTimerByKey
  <2>2. RemoveFirst(q.ops[t], o) \in Seq(Waits)
    BY <1>1, RemoveFirstIs
  <2> DEFINE s == RemoveFirst(q.ops[t], o)
             p == RemoveIfUnused([q EXCEPT !.ops[t] = s], t)
  <2>3. q.ops[t] # <<>>
    BY <1>1, <1>2
  <2> HIDE DEF s
  <2>4. /\ GoodQueue(T, p, times) /\ p.ops = [q.ops EXCEPT ![t] = s]
        /\ Entries(p) \subseteq Entries(q)
    BY <2>2, <2>3, ShrinkIs DEF s
  <2> HIDE DEF p
  <2>5. CancelTimerByKey(q, t, o) = p
    BY <2>1 DEF p, s
  <2>6. QED
    BY <2>4, <2>5 DEF Shrunk, s
<1>3. CASE ~IsActive(q, t)
  <2>1. CancelTimerByKey(q, t, o) = q
    BY <1>3 DEF CancelTimerByKey
  <2>2. q.ops[t] = <<>>
    BY <1>1, <1>3
  <2>3. RemoveFirst(q.ops[t], o) = q.ops[t]
    BY <2>2 DEF RemoveFirst
  <2>4. q.ops = [q.ops EXCEPT ![t] = q.ops[t]]
    BY <1>1
  <2>5. QED
    BY <2>1, <2>3, <2>4 DEF Shrunk
<1>4. QED
  BY <1>2, <1>3

\* The earliest timer of p is no earlier than that of q, and there is one.
NoEarlier(p, q) ==
  p.heap # <<>> => q.heap # <<>> /\ q.heap[1].time <= p.heap[1].time

\* When the first entry is an old one, nothing has come earlier.
LEMMA NoEarlierIs ==
  ASSUME NEW T, NEW p, GoodHeap(T, p), NEW q, GoodHeap(T, q),
         p.heap # <<>> => p.heap[1] \in Entries(q)
  PROVE  NoEarlier(p, q)
<1> SUFFICES ASSUME p.heap # <<>>
             PROVE  q.heap # <<>> /\ q.heap[1].time <= p.heap[1].time
  BY DEF NoEarlier
<1>1. PICK i \in 1 .. Len(q.heap) : p.heap[1] = q.heap[i]
  BY DEF Entries
<1>2. q.heap # <<>>
  BY <1>1
<1>3. q.heap[1].time <= q.heap[i].time
  BY FirstIsLeast DEF GoodHeap
<1>4. QED
  BY <1>1, <1>2, <1>3

\* The first entry, and its timer.
LEMMA FirstEntry ==
  ASSUME NEW T, NEW p, GoodHeap(T, p), p.heap # <<>>
  PROVE  /\ p.heap[1] \in Entries(p) /\ p.heap[1].timer \in T
         /\ p.index[p.heap[1].timer] = 1 /\ p.heap[1].time \in Nat
<1>1. p.heap \in Seq(Entry(T)) /\ Len(p.heap) \in Nat
      /\ \A i \in 1 .. Len(p.heap) : p.heap[i].timer \in T /\ p.heap[i].time \in Nat
  BY TypeIs DEF GoodHeap
<1>2. 1 \in 1 .. Len(p.heap)
  BY <1>1
<1>3. QED
  BY <1>1, <1>2 DEF GoodHeap, Indexed, Entries

\* A wait is enqueued; when it is not the earliest, something else comes first.
LEMMA EnqueueIs ==
  ASSUME NEW T, NoTimer \notin T, NEW times, NEW q, GoodQueue(T, q, times),
         NEW t \in T, times[t] \in Nat, NEW o \in Waits
  PROVE  LET p == EnqueueTimer(q, times[t], t, o)
         IN  /\ GoodQueue(T, p, times)
             /\ p.ops = [q.ops EXCEPT ![t] = Append(q.ops[t], o)]
             /\ ~IsEarliest(p, t, o) => NoEarlier(p, q)
<1> DEFINE e == [time |-> times[t], timer |-> t]
           h == PushEntry(q, times[t], t)
           a == IF IsActive(q, t) THEN q ELSE LinkFirst(h, t)
           s == Append(q.ops[t], o)
           p == EnqueueTimer(q, times[t], t, o)
<1>1. /\ IsActive(q, t) <=> q.ops[t] # <<>>
      /\ IsActive(q, t) <=> q.index[t] # 0
      /\ q.ops \in [T -> Seq(Waits)] /\ q.ops[t] \in Seq(Waits)
      /\ q \in QueueType(T)
  BY InactiveIs
<1>2. GoodHeap(T, q) /\ Linked(T, q) /\ Timed(q, times)
      /\ \A u \in T : ActiveIs(q, u)
  BY DEF GoodQueue
<1>3. /\ GoodHeap(T, a) /\ Linked(T, a) /\ a.ops = q.ops
      /\ \A u \in T : IsActive(a, u) <=> IsActive(q, u) \/ u = t
      /\ Entries(a) = IF IsActive(q, t) THEN Entries(q) ELSE Entries(q) \cup {e}
      /\ IsActive(q, t) => a.heap = q.heap
  <2>1. CASE IsActive(q, t)
    <3>1. a = q
      BY <2>1
    <3>2. QED
      BY <1>2, <2>1, <3>1
  <2>2. CASE ~IsActive(q, t)
    <3>1. /\ GoodHeap(T, h) /\ Beside(h, q)
          /\ Entries(h) = Entries(q) \cup {e}
      <4>1. q.index[t] = 0 /\ times[t] \in Nat
        BY <1>1, <2>2
      <4>2. QED
        BY <1>2, <4>1, PushEntryIs
    <3> DEFINE v == LinkFirst(h, t)
    <3>2. a = v
      BY <2>2
    <3> HIDE DEF h
    <3>3. Linked(T, h) /\ SameActive(T, h, q) /\ h.ops = q.ops
      BY <1>2, <3>1, BesideSame
    <3>4. h \in QueueType(T) /\ ~IsActive(h, t)
      BY <2>2, <3>1, <3>3 DEF SameActive, GoodHeap
    <3>5. /\ v \in QueueType(T) /\ Within(v, h) /\ Linked(T, v)
          /\ \A u \in T : IsActive(v, u) <=> IsActive(h, u) \/ u = t
      BY <3>3, <3>4, LinkFirstIs
    <3> HIDE DEF v, a, e
    <3>6. GoodHeap(T, v) /\ Entries(v) = Entries(h)
      BY <3>1, <3>5, WithinSame
    <3>7. v.ops = q.ops
      BY <3>3, <3>5 DEF Within
    <3>8. \A u \in T : IsActive(v, u) <=> IsActive(q, u) \/ u = t
      BY <3>3, <3>5 DEF SameActive
    <3>9. QED
      BY <2>2, <3>1, <3>2, <3>5, <3>6, <3>7, <3>8
  <2>3. QED
    BY <2>1, <2>2
<1>4. p = [a EXCEPT !.ops[t] = Append(@, o)]
  BY DEF EnqueueTimer
<1> HIDE DEF a, h, p, e
<1>5. a \in QueueType(T)
  BY <1>3 DEF GoodHeap
<1>6. /\ p = [a EXCEPT !.ops = [q.ops EXCEPT ![t] = s]]
      /\ p.ops = [q.ops EXCEPT ![t] = s] /\ SameButOps(p, a)
  BY <1>3, <1>4, <1>5 DEF QueueType, SameButOps
<1>7. s \in Seq(Waits) /\ s # <<>>
  BY <1>1, AppendProperties
<1>8. p.ops \in [T -> Seq(Waits)]
  BY <1>1, <1>6, <1>7
<1>9. p \in QueueType(T)
  BY <1>5, <1>6, <1>8 DEF QueueType
<1>10. /\ GoodHeap(T, p) /\ Linked(T, p) /\ SameActive(T, p, a)
       /\ Entries(p) = Entries(a) /\ p.heap = a.heap /\ p.index = a.index
  <2> HIDE DEF s
  <2>1. GoodHeap(T, a) /\ Linked(T, a) /\ SameButOps(p, a)
    BY <1>3, <1>6
  <2>2. QED
    BY <1>9, <2>1, SameButOpsIs
<1>11. p.ops[t] = s /\ \A u \in T : u # t => p.ops[u] = q.ops[u]
  BY <1>1, <1>6
<1>12. ASSUME NEW f \in Entries(p) PROVE f \in Entries(q) \/ f = e
  BY <1>3, <1>10, <1>12
<1>13. \A f \in Entries(q) : f \in Entries(p)
  BY <1>3, <1>10
<1>14. Timed(p, times)
  <2>1. e.time = times[e.timer]
    BY DEF e
  <2>2. QED
    BY <1>2, <1>12, <2>1 DEF Timed
<1>15. ASSUME NEW u \in T PROVE ActiveIs(p, u)
  <2>1. ActiveIs(q, u)
    BY <1>2
  <2>2. IsActive(p, u) <=> IsActive(q, u) \/ u = t
    BY <1>3, <1>10 DEF SameActive
  <2>3. p.ops[u] # <<>> <=> q.ops[u] # <<>> \/ u = t
    BY <1>7, <1>11
  <2>4. p.index[u] # 0 <=> q.index[u] # 0 \/ u = t
    <3>1. p.index[u] # 0 <=> \E f \in Entries(p) : f.timer = u
      BY <1>10, IndexIs
    <3>2. q.index[u] # 0 <=> \E f \in Entries(q) : f.timer = u
      BY <1>2, IndexIs
    <3>3. e.timer = t
      BY DEF e
    <3>4. IsActive(q, t) \/ e \in Entries(p)
      BY <1>3, <1>10
    <3>5. CASE u = t
      <4>1. CASE IsActive(q, t)
        BY <1>1, <1>13, <3>1, <3>2, <3>5, <4>1
      <4>2. CASE ~IsActive(q, t)
        BY <3>1, <3>3, <3>4, <3>5, <4>2
      <4>3. QED
        BY <4>1, <4>2
    <3>6. CASE u # t
      BY <1>12, <1>13, <3>1, <3>2, <3>3, <3>6
    <3>7. QED
      BY <3>5, <3>6
  <2>5. QED
    BY <2>1, <2>2, <2>3, <2>4 DEF ActiveIs
<1>16. GoodQueue(T, p, times)
  BY <1>10, <1>14, <1>15 DEF GoodQueue
<1>17. ASSUME ~IsEarliest(p, t, o) PROVE NoEarlier(p, q)
  <2>1. CASE IsActive(q, t)
    <3>1. p.heap = q.heap
      BY <1>3, <1>10, <2>1
    <3>2. p.heap # <<>> => p.heap[1] \in Entries(q)
      BY <1>2, <3>1, FirstEntry
    <3>3. QED
      BY <1>2, <1>10, <3>2, NoEarlierIs
  <2>2. CASE ~IsActive(q, t)
    <3>1. Head(p.ops[t]) = o
      BY <1>1, <1>11, <2>2
    <3>2. p.index[t] # 1
      BY <1>17, <3>1 DEF IsEarliest
    <3>3. ASSUME p.heap # <<>> PROVE p.heap[1] \in Entries(q)
      <4>1. p.heap[1] \in Entries(p) /\ p.index[p.heap[1].timer] = 1
        BY <1>10, <3>3, FirstEntry
      <4>2. p.heap[1] # e
        BY <3>2, <4>1 DEF e
      <4>3. QED
        BY <1>12, <4>1, <4>2
    <3>4. QED
      BY <1>2, <1>10, <3>3, NoEarlierIs
  <2>3. QED
    BY <2>1, <2>2
<1>18. QED
  BY <1>6, <1>16, <1>17 DEF p

\* The ready timers have given up their waits, and nothing else has changed.
Drained(T, p, q, times, n) ==
  /\ GoodQueue(T, p, times) /\ Entries(p) \subseteq Entries(q)
  /\ \A t \in T :
       \/ p.ops[t] = q.ops[t]
       \/ p.ops[t] = <<>> /\ q.ops[t] # <<>> /\ times[t] <= n

\* A ready timer leaves the queue, and no other.
LEMMA ReadyStepIs ==
  ASSUME NEW T, NoTimer \notin T, NEW times, NEW n, NEW q, NEW r,
         Drained(T, r, q, times, n)
  PROVE  /\ Drained(T, ReadyStep(r, n), q, times, n)
         /\ ReadyStep(r, n) = r \/ Len(ReadyStep(r, n).heap) < Len(r.heap)
         /\ ReadyStep(r, n) = r => r.heap = <<>> \/ ~(r.heap[1].time <= n)
<1> DEFINE ready == r.heap # <<>> /\ r.heap[1].time <= n
           p == ReadyStep(r, n)
           t == r.heap[1].timer
<1>1. CASE ~ready
  <2>1. p = r
    BY <1>1 DEF ReadyStep
  <2>2. r.heap = <<>> \/ ~(r.heap[1].time <= n)
    BY <1>1
  <2>3. QED
    BY <2>1, <2>2
<1>2. CASE ready
  <2>1. GoodQueue(T, r, times) /\ GoodHeap(T, r) /\ Entries(r) \subseteq Entries(q)
    BY DEF Drained, GoodQueue
  <2>2. /\ r.heap[1] \in Entries(r) /\ t \in T /\ r.index[t] = 1
    BY <1>2, <2>1, FirstEntry
  <2>3. r.ops[t] # <<>> /\ r.ops \in [T -> Seq(Waits)] /\ r \in QueueType(T)
    <3>1. r.index[t] # 0
      BY <2>2
    <3>2. QED
      BY <2>1, <2>2, <3>1, InactiveIs
  <2> DEFINE v == [r EXCEPT !.ops[t] = <<>>]
  <2>4. v.ops[t] = <<>>
    BY <2>2, <2>3 DEF QueueType
  <2>5. p = RemoveIfUnused(v, t)
    BY <1>2, <2>4 DEF ReadyStep, RemoveIfUnused
  <2>6. times[t] <= n
    BY <1>2, <2>1, <2>2 DEF Timed, GoodQueue
  <2>7. Len(r.heap) \in Nat
    BY <2>3, TypeIs
  <2> DEFINE w == RemoveIfUnused(v, t)
  <2> HIDE DEF t
  <2>8. /\ GoodQueue(T, w, times) /\ w.ops = [r.ops EXCEPT ![t] = <<>>]
        /\ Entries(w) \subseteq Entries(r)
        /\ Len(w.heap) = Len(r.heap) - 1
    <3> DEFINE s == <<>>
               x == RemoveIfUnused([r EXCEPT !.ops[t] = s], t)
    <3>1. s \in Seq(Waits) /\ w = x
      OBVIOUS
    <3> HIDE DEF s, w, v, p, ready
    <3>2. /\ GoodQueue(T, x, times) /\ x.ops = [r.ops EXCEPT ![t] = s]
          /\ Entries(x) \subseteq Entries(r)
          /\ s = <<>> => Len(x.heap) = Len(r.heap) - 1
      <4>1. GoodQueue(T, r, times) /\ t \in T /\ r.ops[t] # <<>>
        BY <2>1, <2>2, <2>3
      <4>2. QED
        BY <3>1, <4>1, ShrinkIs, SMTT(60)
    <3> HIDE DEF x
    <3>3. QED
      BY <3>1, <3>2 DEF s
  <2>9. p = w
    BY <2>5
  <2> HIDE DEF w, p
  <2>10. ASSUME NEW u \in T
         PROVE  \/ w.ops[u] = q.ops[u]
                \/ w.ops[u] = <<>> /\ q.ops[u] # <<>> /\ times[u] <= n
    <3>1. \/ r.ops[u] = q.ops[u]
          \/ r.ops[u] = <<>> /\ q.ops[u] # <<>> /\ times[u] <= n
      BY DEF Drained
    <3>2. w.ops[u] = IF u = t THEN <<>> ELSE r.ops[u]
      BY <2>3, <2>8
    <3>3. QED
      BY <2>3, <2>6, <3>1, <3>2
  <2>11. Drained(T, w, q, times, n)
    BY <2>1, <2>8, <2>10 DEF Drained
  <2>12. Len(w.heap) < Len(r.heap) /\ w # r
    BY <2>7, <2>8
  <2>13. QED
    BY <2>9, <2>11, <2>12 DEF p
<1>3. QED
  BY <1>1, <1>2

\* get_ready_timers leaves only timers whose time is still to come.
LEMMA GetReadyIs ==
  ASSUME NEW T, NoTimer \notin T, NEW times, NEW n, NEW q, GoodQueue(T, q, times)
  PROVE  LET p == GetReadyTimers(q, n)
         IN  /\ Drained(T, p, q, times, n)
             /\ p.heap = <<>> \/ ~(p.heap[1].time <= n)
<1> DEFINE S == {p \in QueueType(T) : Drained(T, p, q, times, n)}
           left == [p \in S |-> Len(p.heap)]
           m == Len(q.heap)
<1>1. q \in QueueType(T) /\ m \in Nat
  BY TypeIs DEF GoodQueue, GoodHeap
<1>2. q \in S
  BY <1>1 DEF Drained
<1>3. ASSUME NEW s \in S
      PROVE  /\ ReadyStep(s, n) \in S
             /\ ReadyStep(s, n) = s \/ left[ReadyStep(s, n)] < left[s]
             /\ ReadyStep(s, n) = s => s.heap = <<>> \/ ~(s.heap[1].time <= n)
  <2>1. /\ Drained(T, ReadyStep(s, n), q, times, n)
        /\ ReadyStep(s, n) = s \/ Len(ReadyStep(s, n).heap) < Len(s.heap)
        /\ ReadyStep(s, n) = s => s.heap = <<>> \/ ~(s.heap[1].time <= n)
    BY ReadyStepIs
  <2>2. ReadyStep(s, n) \in S
    BY <2>1 DEF Drained, GoodQueue, GoodHeap
  <2>3. QED
    BY <2>1, <2>2
<1>4. left \in [S -> Nat]
  <2>1. \A p \in S : Len(p.heap) \in Nat
    BY TypeIs
  <2>2. QED
    BY <2>1
<1>5. left[q] <= m
  BY <1>1, <1>2
<1>6. \A s \in S : Drained(T, s, q, times, n)
  OBVIOUS
<1> DEFINE p == GetReadyTimers(q, n)
<1> HIDE DEF left, S
<1>7. p \in S /\ ReadyStep(p, n) = p
  <2>1. \A s \in S : ReadyStep(s, n) \in S
    BY <1>3
  <2>2. \A s \in S : ReadyStep(s, n) = s \/ left[ReadyStep(s, n)] < left[s]
    BY <1>3
  <2>3. QED
    BY <1>1, <1>2, <1>4, <1>5, <2>1, <2>2, ReadyLoop
<1> HIDE DEF p
<1>8. QED
  BY <1>3, <1>6, <1>7 DEF p

\* A queue that has given up everything; the indices are left as they were.
Quiet(T, q) ==
  /\ q \in QueueType(T) /\ q.heap = <<>> /\ Linked(T, q)
  /\ \A t \in T : ~IsActive(q, t) /\ q.ops[t] = <<>>

\* A queue without heap and list is quiet, whatever its indices are.
LEMMA BlankIs ==
  ASSUME NEW T, NoTimer \notin T, NEW index \in [T -> Nat],
         NEW q, q = [heap |-> <<>>, head |-> NoTimer, index |-> index,
                     next |-> [t \in T |-> NoTimer],
                     prev |-> [t \in T |-> NoTimer], ops |-> [t \in T |-> <<>>]]
  PROVE  Quiet(T, q)
<1>1. [t \in T |-> <<>>] \in [T -> Seq(Waits)] /\ <<>> \in Seq(Entry(T))
  OBVIOUS
<1>2. q \in QueueType(T)
  BY <1>1 DEF QueueType
<1>3. /\ q.heap = <<>> /\ q.head = NoTimer
      /\ \A t \in T : q.next[t] = NoTimer /\ q.prev[t] = NoTimer /\ q.ops[t] = <<>>
  OBVIOUS
<1>4. LinkedBy(T, q, [t \in T |-> 0])
  BY <1>3 DEF LinkedBy, NextOK, PrevOK, HeadOK
<1>5. QED
  BY <1>2, <1>3, <1>4 DEF Quiet, Linked, IsActive

\* get_all_timers leaves a quiet queue.
LEMMA GetAllIs ==
  ASSUME NEW T, NoTimer \notin T, NEW q \in QueueType(T)
  PROVE  Quiet(T, GetAllTimers(q))
<1>1. q.index \in [T -> Nat] /\ DOMAIN q.index = T
  BY TypeIs
<1>2. GetAllTimers(q) =
        [heap |-> <<>>, head |-> NoTimer, index |-> q.index,
         next |-> [t \in T |-> NoTimer], prev |-> [t \in T |-> NoTimer],
         ops |-> [t \in T |-> <<>>]]
  BY <1>1 DEF GetAllTimers, EmptyQueue
<1>3. QED
  BY <1>1, <1>2, BlankIs

\* A new queue is sound.
LEMMA EmptyIs ==
  ASSUME NEW T, NoTimer \notin T, NEW times
  PROVE  GoodQueue(T, EmptyQueue(T), times)
<1> DEFINE q == EmptyQueue(T)
           index == [t \in T |-> 0]
<1>1. q = [heap |-> <<>>, head |-> NoTimer, index |-> index,
           next |-> [t \in T |-> NoTimer], prev |-> [t \in T |-> NoTimer],
           ops |-> [t \in T |-> <<>>]]
  BY DEF EmptyQueue
<1>2. index \in [T -> Nat]
  OBVIOUS
<1>3. q.index = index
  BY <1>1
<1>4. \A t \in T : index[t] = 0
  OBVIOUS
<1> HIDE DEF q, index
<1>5. Quiet(T, q)
  BY <1>1, <1>2, BlankIs
<1>6. Len(q.heap) = 0
  BY <1>5 DEF Quiet
<1>7. DOMAIN q.index = T
  BY <1>2, <1>3
<1>8. GoodHeap(T, q)
  BY <1>3, <1>4, <1>5, <1>6, <1>7 DEF GoodHeap, Indexed, Ordered, Quiet
<1>9. Timed(q, times)
  BY <1>6 DEF Timed, Entries
<1>10. \A t \in T : ActiveIs(q, t)
  BY <1>3, <1>4, <1>5 DEF ActiveIs, Quiet
<1>11. QED
  BY <1>5, <1>8, <1>9, <1>10 DEF GoodQueue, Quiet, q

\* The target is where the source was, with its waits and its time.
LEMMA MoveTimerIs ==
  ASSUME NEW T, NoTimer \notin T, NEW U, T \subseteq U, NEW times \in [U -> Nat],
         NEW q, GoodQueue(T, q, times),
         NEW a \in T, NEW b \in T, a # b, q.ops[a] = <<>>
  PROVE  LET p == MoveTimer(q, a, b)
         IN  /\ GoodQueue(T, p, [times EXCEPT ![a] = times[b], ![b] = 0])
             /\ p.ops = [q.ops EXCEPT ![a] = q.ops[b], ![b] = <<>>]
             /\ NoEarlier(p, q)
<1> DEFINE i == q.index[b]
           n == Len(q.heap)
           ops == [q.ops EXCEPT ![a] = q.ops[b], ![b] = <<>>]
           index == [q.index EXCEPT ![a] = i, ![b] = 0]
           heap == IF i \in DOMAIN q.heap THEN [q.heap EXCEPT ![i].timer = a]
                                          ELSE q.heap
           h == [q EXCEPT !.ops = ops, !.index = index, !.heap = heap]
           p == MoveTimer(q, a, b)
           new == [times EXCEPT ![a] = times[b], ![b] = 0]
<1>1. /\ q \in QueueType(T) /\ GoodHeap(T, q) /\ Linked(T, q) /\ Timed(q, times)
      /\ Indexed(q) /\ Ordered(q) /\ \A u \in T : ActiveIs(q, u)
  BY DEF GoodQueue, GoodHeap
<1>2. /\ q.heap \in Seq(Entry(T)) /\ n \in Nat /\ DOMAIN q.heap = 1 .. n
      /\ \A k \in 1 .. n : /\ q.heap[k] \in Entry(T) /\ q.heap[k].time \in Nat
                           /\ q.heap[k].timer \in T
      /\ q.index \in [T -> Nat] /\ q.ops \in [T -> Seq(Waits)] /\ i \in Nat
  BY <1>1, TypeIs
<1>3. ~IsActive(q, a) /\ q.index[a] = 0
  BY InactiveIs
<1>4. p = MoveLinks(h, a, b)
  <2>1. <<>> \o q.ops[b] = q.ops[b]
    BY <1>2
  <2> DEFINE moved == [q.ops EXCEPT ![a] = q.ops[a] \o q.ops[b], ![b] = <<>>]
  <2>2. moved = ops
    BY <2>1
  <2> DEFINE heaped == [q EXCEPT
        !.ops = [q.ops EXCEPT ![a] = @ \o q.ops[b], ![b] = <<>>],
        !.index = [@ EXCEPT ![a] = i, ![b] = 0],
        !.heap = IF i \in DOMAIN @ THEN [@ EXCEPT ![i].timer = a] ELSE @]
  <2>3. heaped = [q EXCEPT !.ops = moved, !.index = index, !.heap = heap]
    OBVIOUS
  <2>4. MoveTimer(q, a, b) = MoveLinks(heaped, a, b)
    <3> HIDE DEF p
    <3>1. QED
      BY DEF MoveTimer
  <2> HIDE DEF moved, ops, heaped, p
  <2>5. QED
    BY <2>2, <2>3, <2>4 DEF p
<1>5. ops \in [T -> Seq(Waits)] /\ index \in [T -> Nat]
  <2>1. <<>> \in Seq(Waits)
    OBVIOUS
  <2>2. QED
    BY <1>2, <2>1
<1>6. /\ heap \in Seq(Entry(T)) /\ Len(heap) = n
      /\ \A k \in 1 .. n : /\ heap[k].time = q.heap[k].time
                           /\ heap[k].timer = IF k = i THEN a ELSE q.heap[k].timer
  <2>1. CASE i \in 1 .. n
    <3>1. heap = [q.heap EXCEPT ![i] = [q.heap[i] EXCEPT !.timer = a]]
      BY <1>2, <2>1
    <3>2. /\ [q.heap[i] EXCEPT !.timer = a] \in Entry(T)
          /\ [q.heap[i] EXCEPT !.timer = a].time = q.heap[i].time
          /\ [q.heap[i] EXCEPT !.timer = a].timer = a
      BY <1>2, <2>1 DEF Entry
    <3> HIDE DEF heap
    <3>3. /\ heap \in Seq(Entry(T)) /\ Len(heap) = n
          /\ \A k \in 1 .. n : heap[k] = IF k = i THEN [q.heap[i] EXCEPT !.timer = a]
                                         ELSE q.heap[k]
      BY <1>2, <2>1, <3>1, <3>2
    <3>4. QED
      BY <2>1, <3>2, <3>3
  <2>2. CASE i \notin 1 .. n
    <3>1. heap = q.heap
      BY <1>2, <2>2
    <3>2. QED
      BY <1>2, <2>2, <3>1
  <2>3. QED
    BY <2>1, <2>2
<1> HIDE DEF p
<1>7. /\ h.ops = ops /\ h.index = index /\ h.heap = heap
      /\ h.head = q.head /\ h.next = q.next /\ h.prev = q.prev
      /\ h = [q EXCEPT !.ops = ops, !.index = index, !.heap = heap]
  BY <1>1 DEF QueueType
<1> HIDE DEF h, heap, ops, index
<1>8. h \in QueueType(T)
  BY <1>1, <1>5, <1>6, <1>7 DEF QueueType
<1>9. /\ h.ops[a] = q.ops[b] /\ h.ops[b] = <<>>
      /\ \A u \in T : u # a /\ u # b => h.ops[u] = q.ops[u]
      /\ h.index[a] = i /\ h.index[b] = 0
      /\ \A u \in T : u # a /\ u # b => h.index[u] = q.index[u]
  BY <1>2, <1>7 DEF ops, index
<1>10. /\ Len(h.heap) = n
       /\ \A k \in 1 .. n : /\ h.heap[k].time = q.heap[k].time
                            /\ h.heap[k].timer = IF k = i THEN a ELSE q.heap[k].timer
  BY <1>6, <1>7
<1>11. /\ i # 0 => i \in 1 .. n /\ q.heap[i].timer = b
       /\ \A k \in 1 .. n : q.index[q.heap[k].timer] = k
       /\ \A u \in T : q.index[u] # 0 =>
            q.index[u] \in 1 .. n /\ q.heap[q.index[u]].timer = u
  BY <1>1, <1>2 DEF Indexed
<1>12. \A k \in 1 .. n : k # i => q.heap[k].timer # a /\ q.heap[k].timer # b
  BY <1>3, <1>11
<1>13. Indexed(h)
  <2>1. ASSUME NEW k \in 1 .. n PROVE h.index[h.heap[k].timer] = k
    <3>1. CASE k = i
      BY <1>9, <1>10, <3>1
    <3>2. CASE k # i
      <4>1. h.heap[k].timer = q.heap[k].timer /\ q.heap[k].timer \in T
        BY <1>2, <1>10, <3>2
      <4>2. QED
        BY <1>9, <1>11, <1>12, <3>2, <4>1
    <3>3. QED
      BY <3>1, <3>2
  <2>2. ASSUME NEW u \in T, h.index[u] # 0
        PROVE  h.index[u] \in 1 .. n /\ h.heap[h.index[u]].timer = u
    <3>1. u # b
      BY <1>9, <2>2
    <3>2. CASE u = a
      BY <1>9, <1>10, <1>11, <2>2, <3>2
    <3>3. CASE u # a
      <4>1. h.index[u] = q.index[u] /\ q.index[u] # 0
        BY <1>9, <2>2, <3>1, <3>3
      <4>2. q.index[u] \in 1 .. n /\ q.heap[q.index[u]].timer = u
        BY <1>11, <4>1
      <4>3. q.index[u] # i
        BY <1>11, <3>1, <4>2
      <4>4. QED
        BY <1>10, <4>1, <4>2, <4>3
    <3>4. QED
      BY <3>2, <3>3
  <2>3. DOMAIN h.index = T
    BY <1>5, <1>7
  <2>4. QED
    BY <1>10, <2>1, <2>2, <2>3 DEF Indexed
<1>14. Ordered(h)
  <2>1. ASSUME NEW j \in 2 .. n PROVE InOrder(h, j)
    <3>1. j \div 2 \in 1 .. n /\ j \in 1 .. n
      BY <1>2, Half
    <3>2. InOrder(q, j)
      BY <1>1 DEF Ordered
    <3>3. h.heap[j].time = q.heap[j].time /\ h.heap[j \div 2].time = q.heap[j \div 2].time
      BY <1>10, <3>1
    <3>4. QED
      BY <3>2, <3>3, Zenon DEF InOrder
  <2>2. QED
    BY <1>10, <2>1 DEF Ordered
<1>15. GoodHeap(T, h)
  BY <1>8, <1>13, <1>14 DEF GoodHeap
<1>16. SameActive(T, h, q)
  BY <1>7 DEF SameActive, IsActive
<1>17. Linked(T, h)
  <2>1. ASSUME NEW r PROVE LinkedBy(T, h, r) <=> LinkedBy(T, q, r)
    BY <1>7, <1>16 DEF SameActive, LinkedBy, NextOK, PrevOK, HeadOK
  <2>2. QED
    BY <1>1, <2>1 DEF Linked
<1>18. ~IsActive(h, a)
  BY <1>3, <1>16 DEF SameActive
<1> DEFINE m == MoveLinks(h, a, b)
<1>19. /\ m \in QueueType(T) /\ Within(m, h) /\ Linked(T, m)
       /\ \A s \in T : IsActive(m, s) <=>
            IF s = a THEN IsActive(h, b) ELSE IsActive(h, s) /\ s # b
  BY <1>8, <1>17, <1>18, MoveLinksIs
<1> HIDE DEF m
<1>20. p = m
  BY <1>4 DEF m
<1>21. GoodHeap(T, p) /\ Entries(p) = Entries(h) /\ p.heap = h.heap
       /\ p.index = h.index /\ p.ops = h.ops
  BY <1>15, <1>19, <1>20, WithinSame DEF Within
<1>22. ASSUME NEW u \in T PROVE ActiveIs(p, u)
  <2>1. ActiveIs(q, u) /\ ActiveIs(q, b)
    BY <1>1
  <2>2. IsActive(p, u) <=> IF u = a THEN IsActive(q, b) ELSE IsActive(q, u) /\ u # b
    BY <1>16, <1>19, <1>20 DEF SameActive
  <2>3. /\ p.ops[u] = IF u = a THEN q.ops[b] ELSE IF u = b THEN <<>> ELSE q.ops[u]
        /\ p.index[u] = IF u = a THEN i ELSE IF u = b THEN 0 ELSE q.index[u]
    BY <1>9, <1>21
  <2>4. QED
    BY <2>1, <2>2, <2>3 DEF ActiveIs
<1>23. Timed(p, new)
  <2>1. ASSUME NEW k \in 1 .. n PROVE h.heap[k].time = new[h.heap[k].timer]
    <3>1. q.heap[k].time = times[q.heap[k].timer]
      BY <1>1 DEF Timed, Entries
    <3>2. CASE k = i
      <4>1. q.heap[k].timer = b
        BY <1>2, <1>11, <3>2
      <4>2. QED
        BY <1>10, <3>1, <3>2, <4>1
    <3>3. CASE k # i
      BY <1>2, <1>10, <1>12, <3>1, <3>3
    <3>4. QED
      BY <3>2, <3>3
  <2>2. \A e \in Entries(h) : \E k \in 1 .. n : e = h.heap[k]
    BY <1>10 DEF Entries
  <2>3. ASSUME NEW e \in Entries(h) PROVE e.time = new[e.timer]
    <3>1. PICK k \in 1 .. n : e = h.heap[k]
      BY <2>2
    <3>2. QED
      BY <2>1, <3>1
  <2> HIDE DEF new
  <2>4. QED
    BY <1>21, <2>3 DEF Timed
<1>24. NoEarlier(p, q)
  <2>1. ASSUME p.heap # <<>> PROVE q.heap # <<>> /\ q.heap[1].time <= p.heap[1].time
    <3>1. 1 \in 1 .. n
      <4>1. p.heap \in Seq(Entry(T)) /\ Len(p.heap) = n
        BY <1>6, <1>7, <1>21
      <4>2. QED
        BY <1>2, <2>1, <4>1
    <3>2. p.heap[1].time = q.heap[1].time /\ q.heap[1].time \in Nat
      BY <1>2, <1>10, <1>21, <3>1
    <3>3. q.heap # <<>>
      BY <3>1
    <3>4. QED
      BY <3>2, <3>3
  <2>2. QED
    BY <2>1 DEF NoEarlier
<1>25. Linked(T, p)
  BY <1>19, <1>20
<1>26. QED
  BY <1>7, <1>21, <1>22, <1>23, <1>24, <1>25 DEF GoodQueue, p, ops

\* Other times, but for the timers that do not wait.
LEMMA Retimed ==
  ASSUME NEW T, NEW times, NEW other, NEW q, GoodQueue(T, q, times),
         \A t \in T : q.ops[t] # <<>> => other[t] = times[t]
  PROVE  GoodQueue(T, q, other)
<1>1. GoodHeap(T, q) /\ Linked(T, q) /\ Timed(q, times)
      /\ \A u \in T : ActiveIs(q, u)
  BY DEF GoodQueue
<1>2. ASSUME NEW e \in Entries(q) PROVE e.time = other[e.timer]
  <2>1. PICK i \in 1 .. Len(q.heap) : e = q.heap[i]
    BY DEF Entries
  <2>2. e.timer \in T
    BY <1>1, <2>1, TypeIs DEF GoodHeap
  <2>3. q.index[e.timer] # 0
    BY <1>1, <2>2, IndexIs
  <2>4. q.ops[e.timer] # <<>>
    BY <1>1, <2>2, <2>3 DEF ActiveIs
  <2>5. QED
    BY <1>1, <2>2, <2>4 DEF Timed
<1>3. QED
  BY <1>1, <1>2 DEF GoodQueue, Timed

\* A move in a quiet queue moves nothing.
LEMMA MoveQuiet ==
  ASSUME NEW T, NoTimer \notin T, NEW q, Quiet(T, q),
         NEW a \in T, NEW b \in T, a # b
  PROVE  LET p == MoveTimer(q, a, b)
         IN  Quiet(T, p) /\ p.ops = [q.ops EXCEPT ![a] = q.ops[b], ![b] = <<>>]
<1> DEFINE i == q.index[b]
           ops == [q.ops EXCEPT ![a] = @ \o q.ops[b], ![b] = <<>>]
           index == [q.index EXCEPT ![a] = i, ![b] = 0]
           h == [q EXCEPT !.ops = ops, !.index = index, !.heap = <<>>]
           p == MoveTimer(q, a, b)
<1>1. /\ q \in QueueType(T) /\ q.heap = <<>> /\ Linked(T, q)
      /\ \A t \in T : ~IsActive(q, t) /\ q.ops[t] = <<>>
  BY DEF Quiet
<1>2. q.index \in [T -> Nat] /\ q.ops \in [T -> Seq(Waits)]
  BY <1>1, TypeIs
<1>3. p = MoveLinks(h, a, b)
  <2> DEFINE heaped == [q EXCEPT
        !.ops = [q.ops EXCEPT ![a] = @ \o q.ops[b], ![b] = <<>>],
        !.index = [@ EXCEPT ![a] = i, ![b] = 0],
        !.heap = IF i \in DOMAIN @ THEN [@ EXCEPT ![i].timer = a] ELSE @]
  <2>1. p = MoveLinks(heaped, a, b)
    BY DEF MoveTimer
  <2>2. i \notin DOMAIN q.heap
    BY <1>1
  <2>3. heaped = h
    BY <1>1, <2>2
  <2> HIDE DEF heaped, h, p
  <2>4. QED
    BY <2>1, <2>3
<1> HIDE DEF p
<1>4. <<>> \o <<>> = <<>> /\ <<>> \in Seq(Waits)
  OBVIOUS
<1>5. ops = q.ops /\ \A t \in T : ops[t] = <<>>
  <2>1. q.ops[a] \o q.ops[b] = <<>>
    BY <1>1, <1>4
  <2>2. QED
    BY <1>1, <1>2, <2>1
<1>6. index \in [T -> Nat]
  BY <1>2
<1>7. /\ h.ops = ops /\ h.index = index /\ h.heap = <<>>
      /\ h.head = q.head /\ h.next = q.next /\ h.prev = q.prev
  BY <1>1 DEF QueueType
<1>8. h \in QueueType(T)
  <2>1. <<>> \in Seq(Entry(T))
    OBVIOUS
  <2> HIDE DEF ops, index
  <2>2. QED
    BY <1>1, <1>2, <1>5, <1>6, <2>1 DEF QueueType
<1> HIDE DEF h, ops, index
<1>9. SameActive(T, h, q)
  BY <1>7 DEF SameActive, IsActive
<1>10. Linked(T, h)
  <2>1. ASSUME NEW r PROVE LinkedBy(T, h, r) <=> LinkedBy(T, q, r)
    BY <1>7, <1>9 DEF SameActive, LinkedBy, NextOK, PrevOK, HeadOK
  <2>2. QED
    BY <1>1, <2>1 DEF Linked
<1>11. \A t \in T : ~IsActive(h, t)
  BY <1>1, <1>9 DEF SameActive
<1> DEFINE m == MoveLinks(h, a, b)
<1>12. /\ m \in QueueType(T) /\ Within(m, h) /\ Linked(T, m)
       /\ \A s \in T : IsActive(m, s) <=>
            IF s = a THEN IsActive(h, b) ELSE IsActive(h, s) /\ s # b
  BY <1>8, <1>10, <1>11, MoveLinksIs
<1> HIDE DEF m
<1>13. p = m
  BY <1>3 DEF m
<1>14. m.heap = <<>> /\ m.ops = q.ops
  BY <1>5, <1>7, <1>12 DEF Within
<1>15. Quiet(T, m)
  BY <1>1, <1>11, <1>12, <1>14 DEF Quiet
<1>16. q.ops = [q.ops EXCEPT ![a] = q.ops[b], ![b] = <<>>]
  BY <1>1, <1>2
<1>17. QED
  BY <1>13, <1>14, <1>15, <1>16 DEF p

----------------------------------------------------------------------------
(* The queues of the service *)

\* What a queue is, before and after the shutdown.
Sound(T, q, times, down) ==
  IF down THEN Quiet(T, q) ELSE GoodQueue(T, q, times)

\* What holds before the shutdown and after.
LEMMA SoundIs ==
  ASSUME NEW T, NEW times, NEW down, NEW q, Sound(T, q, times, down)
  PROVE  /\ q \in QueueType(T) /\ q.ops \in [T -> Seq(Waits)]
         /\ Linked(T, q)
         /\ \A t \in T : IsActive(q, t) <=> q.ops[t] # <<>>
         /\ q.heap # <<>> => q.heap[1].time \in Nat
<1>1. CASE down
  <2>1. Quiet(T, q)
    BY <1>1 DEF Sound
  <2>2. QED
    BY <2>1, TypeIs DEF Quiet
<1>2. CASE ~down
  <2>1. GoodQueue(T, q, times)
    BY <1>2 DEF Sound
  <2>2. QED
    BY <2>1, TypeIs, FirstEntry DEF GoodQueue, GoodHeap, ActiveIs
<1>3. QED
  BY <1>1, <1>2

\* The waits of t become those of s, and no timer comes earlier.
Less(T, p, q, times, down, t, s) ==
  /\ Sound(T, p, times, down) /\ p.ops = [q.ops EXCEPT ![t] = s]
  /\ NoEarlier(p, q)

\* A queue that has lost waits has nothing that comes earlier.
LEMMA ShrunkIsLess ==
  ASSUME NEW T, NEW times, NEW q, GoodQueue(T, q, times), NEW t, NEW s, NEW p,
         Shrunk(T, p, q, times, t, s)
  PROVE  Less(T, p, q, times, FALSE, t, s)
<1>1. /\ GoodQueue(T, p, times) /\ p.ops = [q.ops EXCEPT ![t] = s]
      /\ Entries(p) \subseteq Entries(q)
  BY DEF Shrunk
<1>2. GoodHeap(T, p) /\ GoodHeap(T, q)
  BY <1>1 DEF GoodQueue
<1>3. p.heap # <<>> => p.heap[1] \in Entries(q)
  BY <1>1, <1>2, FirstEntry
<1>4. NoEarlier(p, q)
  BY <1>2, <1>3, NoEarlierIs
<1>5. QED
  BY <1>1, <1>4 DEF Less, Sound

\* A queue is what is left of it when nothing leaves.
LEMMA SameIsLess ==
  ASSUME NEW T, NEW times, NEW down, NEW q, Sound(T, q, times, down), NEW t \in T
  PROVE  Less(T, q, q, times, down, t, q.ops[t])
<1>1. /\ q.ops \in [T -> Seq(Waits)]
      /\ q.heap # <<>> => q.heap[1].time \in Nat
  BY SoundIs
<1>2. q.ops = [q.ops EXCEPT ![t] = q.ops[t]]
  BY <1>1
<1>3. NoEarlier(q, q)
  BY <1>1 DEF NoEarlier
<1>4. QED
  BY <1>2, <1>3 DEF Less

\* cancel_timer keeps a queue sound, before the shutdown and after.
LEMMA CancelSound ==
  ASSUME NEW T, NoTimer \notin T, NEW times, NEW down, NEW q,
         Sound(T, q, times, down), NEW t \in T, NEW n \in Nat
  PROVE  Less(T, CancelTimer(q, t, n), q, times, down, t, Dropped(q.ops[t], n))
<1>1. CASE ~down
  BY <1>1, CancelTimerIs, ShrunkIsLess DEF Sound, Less
<1>2. CASE down
  <2>1. ~IsActive(q, t) /\ q.ops[t] = <<>>
    BY <1>2 DEF Sound, Quiet
  <2>2. CancelTimer(q, t, n) = q /\ Dropped(q.ops[t], n) = q.ops[t]
    BY <2>1 DEF CancelTimer, Dropped
  <2>3. QED
    BY <2>2, SameIsLess
<1>3. QED
  BY <1>1, <1>2

\* cancel_timer_by_key keeps a queue sound.
LEMMA KeySound ==
  ASSUME NEW T, NoTimer \notin T, NEW times, NEW down, NEW q,
         Sound(T, q, times, down), NEW t \in T, NEW o
  PROVE  Less(T, CancelTimerByKey(q, t, o), q, times, down, t,
              RemoveFirst(q.ops[t], o))
<1>1. CASE ~down
  BY <1>1, CancelByKeyIs, ShrunkIsLess DEF Sound, Less
<1>2. CASE down
  <2>1. ~IsActive(q, t) /\ q.ops[t] = <<>>
    BY <1>2 DEF Sound, Quiet
  <2>2. CancelTimerByKey(q, t, o) = q
    BY <2>1 DEF CancelTimerByKey
  <2>3. RemoveFirst(q.ops[t], o) = q.ops[t]
    BY <2>1 DEF RemoveFirst
  <2>4. QED
    BY <2>2, <2>3, SameIsLess
<1>3. QED
  BY <1>1, <1>2

\* move_timer keeps a queue sound, with the times that move_assign sets.
LEMMA MoveSound ==
  ASSUME NEW T, NoTimer \notin T, NEW U, T \subseteq U, NEW times \in [U -> Nat],
         NEW down, NEW q, Sound(T, q, times, down),
         NEW a \in T, NEW b \in T, a # b, q.ops[a] = <<>>
  PROVE  LET p == MoveTimer(q, a, b)
         IN  /\ Sound(T, p, [times EXCEPT ![a] = times[b], ![b] = 0], down)
             /\ p.ops = [q.ops EXCEPT ![a] = q.ops[b], ![b] = <<>>]
             /\ NoEarlier(p, q)
<1>1. CASE ~down
  <2> DEFINE p == MoveTimer(q, a, b)
             new == [times EXCEPT ![a] = times[b], ![b] = 0]
  <2>1. GoodQueue(T, q, times)
    BY <1>1 DEF Sound
  <2>2. /\ GoodQueue(T, p, new)
        /\ p.ops = [q.ops EXCEPT ![a] = q.ops[b], ![b] = <<>>]
        /\ NoEarlier(p, q)
    BY <2>1, MoveTimerIs
  <2> HIDE DEF p, new
  <2>3. Sound(T, p, new, down)
    BY <1>1, <2>2 DEF Sound
  <2>4. QED
    BY <2>2, <2>3 DEF p, new
<1>2. CASE down
  <2>1. Quiet(T, q)
    BY <1>2 DEF Sound
  <2> DEFINE p == MoveTimer(q, a, b)
  <2>2. Quiet(T, p) /\ p.ops = [q.ops EXCEPT ![a] = q.ops[b], ![b] = <<>>]
    BY <2>1, MoveQuiet
  <2>3. NoEarlier(p, q)
    BY <2>2 DEF Quiet, NoEarlier
  <2>4. QED
    BY <1>2, <2>2, <2>3 DEF Sound
<1>3. QED
  BY <1>1, <1>2

----------------------------------------------------------------------------
(* The waits *)

Lists == [Timers -> Seq(Waits)]
Results == {"new", "waiting", "aborted", "expired", "destroyed"}

In(w, o) == \E t \in Timers : o \in ToSet(w[t])

\* No wait is on two timers, or twice on one.
Once(w) ==
  \A t, s \in Timers : \A i \in 1 .. Len(w[t]), j \in 1 .. Len(w[s]) :
    w[t][i] = w[s][j] => t = s /\ i = j

\* Those that wait are those on some timer.
Kept(w, st) == Once(w) /\ \A o \in Waits : st[o] = "waiting" <=> In(w, o)

Ended(st, L, how) == [o \in Waits |-> IF o \in L THEN how ELSE st[o]]

\* r has some of the members of s, each once.
Picks(r, s, f) ==
  /\ f \in [1 .. Len(r) -> 1 .. Len(s)]
  /\ \A i \in 1 .. Len(r) : r[i] = s[f[i]]
  /\ \A i, j \in 1 .. Len(r) : f[i] = f[j] => i = j
Part(r, s) == \E f : Picks(r, s, f)

\* The members of a list.
LEMMA ToSetIs ==
  ASSUME NEW S, NEW s \in Seq(S)
  PROVE  /\ \A o : o \in ToSet(s) <=> \E i \in 1 .. Len(s) : s[i] = o
         /\ ToSet(s) \subseteq S /\ (ToSet(s) = {} <=> s = <<>>)
         /\ DOMAIN s = 1 .. Len(s)
<1>1. DOMAIN s = 1 .. Len(s) /\ \A i \in 1 .. Len(s) : s[i] \in S
  OBVIOUS
<1>2. \A o : o \in ToSet(s) <=> \E i \in 1 .. Len(s) : s[i] = o
  BY <1>1 DEF ToSet
<1>3. ToSet(s) \subseteq S
  BY <1>1, <1>2
<1>4. ASSUME s # <<>> PROVE ToSet(s) # {}
  <2>1. 1 \in 1 .. Len(s)
    BY <1>4
  <2>2. s[1] \in ToSet(s)
    BY <1>2, <2>1
  <2>3. QED
    BY <2>2
<1>5. ASSUME s = <<>> PROVE ToSet(s) = {}
  BY <1>2, <1>5
<1>6. QED
  BY <1>1, <1>2, <1>3, <1>4, <1>5

\* A part of a list has no other members.
LEMMA PartIn ==
  ASSUME NEW S, NEW r \in Seq(S), NEW s \in Seq(S), Part(r, s)
  PROVE  ToSet(r) \subseteq ToSet(s)
<1>1. PICK f : Picks(r, s, f)
  BY DEF Part
<1>2. ASSUME NEW i \in 1 .. Len(r) PROVE r[i] \in ToSet(s)
  <2>1. f[i] \in 1 .. Len(s) /\ r[i] = s[f[i]]
    BY <1>1 DEF Picks
  <2>2. QED
    BY <2>1, ToSetIs
<1>3. QED
  BY <1>2, ToSetIs

\* A list is a part of itself, and the empty list of all.
LEMMA PartSame ==
  ASSUME NEW S, NEW s \in Seq(S) PROVE Part(s, s) /\ Part(<<>>, s)
<1>1. Picks(s, s, [i \in 1 .. Len(s) |-> i])
  BY DEF Picks
<1>2. Picks(<<>>, s, [i \in 1 .. 0 |-> i])
  BY DEF Picks
<1>3. QED
  BY <1>1, <1>2 DEF Part

\* What Dropped leaves is a part.
LEMMA PartDropped ==
  ASSUME NEW S, NEW s \in Seq(S), NEW n \in Nat
  PROVE  Part(Dropped(s, n), s)
<1>1. CASE n < Len(s)
  <2> DEFINE r == Dropped(s, n)
             f == [i \in 1 .. Len(s) - n |-> n + i]
  <2>1. Len(r) = Len(s) - n /\ \A i \in 1 .. Len(s) - n : r[i] = s[n + i]
    BY <1>1, DroppedIs
  <2> HIDE DEF r
  <2>2. f \in [1 .. Len(s) - n -> 1 .. Len(s)]
    OBVIOUS
  <2>3. Picks(r, s, f)
    BY <2>1, <2>2 DEF Picks
  <2>4. QED
    BY <2>3 DEF Part, r
<1>2. CASE ~(n < Len(s))
  BY <1>2, PartSame DEF Dropped
<1>3. QED
  BY <1>1, <1>2

\* What RemoveFirst leaves is a part.
LEMMA PartRemoved ==
  ASSUME NEW S, NEW s \in Seq(S), NEW o PROVE Part(RemoveFirst(s, o), s)
<1> DEFINE r == RemoveFirst(s, o)
<1>1. \/ r = s
      \/ /\ Len(r) = Len(s) - 1
         /\ \E k \in 1 .. Len(s) :
              /\ s[k] = o
              /\ \A i \in 1 .. Len(s) - 1 : r[i] = IF i < k THEN s[i] ELSE s[i + 1]
  BY RemoveFirstIs
<1> HIDE DEF r
<1>2. CASE r = s
  BY <1>2, PartSame DEF r
<1>3. CASE r # s
  <2>1. PICK k \in 1 .. Len(s) :
          \A i \in 1 .. Len(s) - 1 : r[i] = IF i < k THEN s[i] ELSE s[i + 1]
    BY <1>1, <1>3
  <2> DEFINE f == [i \in 1 .. Len(s) - 1 |-> IF i < k THEN i ELSE i + 1]
  <2>2. f \in [1 .. Len(s) - 1 -> 1 .. Len(s)]
    OBVIOUS
  <2>3. \A i \in 1 .. Len(s) - 1 : r[i] = s[f[i]]
    BY <2>1
  <2>4. \A i, j \in 1 .. Len(s) - 1 : f[i] = f[j] => i = j
    OBVIOUS
  <2> HIDE DEF f
  <2>5. Picks(r, s, f)
    BY <1>1, <1>3, <2>2, <2>3, <2>4 DEF Picks
  <2>6. QED
    BY <2>5 DEF Part, r
<1>4. QED
  BY <1>2, <1>3

\* Parts of lists of different waits are such lists.
LEMMA PartOnce ==
  ASSUME NEW w \in Lists, NEW v \in Lists, Once(w),
         \A t \in Timers : Part(v[t], w[t])
  PROVE  Once(v)
<1> SUFFICES ASSUME NEW t \in Timers, NEW s \in Timers, NEW i \in 1 .. Len(v[t]),
                    NEW j \in 1 .. Len(v[s]), v[t][i] = v[s][j]
             PROVE  t = s /\ i = j
  BY DEF Once
<1>1. PICK f : Picks(v[t], w[t], f)
  BY DEF Part
<1>2. PICK g : Picks(v[s], w[s], g)
  BY DEF Part
<1>3. /\ f[i] \in 1 .. Len(w[t]) /\ v[t][i] = w[t][f[i]]
      /\ g[j] \in 1 .. Len(w[s]) /\ v[s][j] = w[s][g[j]]
  BY <1>1, <1>2 DEF Picks
<1>4. t = s /\ f[i] = g[j]
  <2>1. w[t][f[i]] = w[s][g[j]]
    BY <1>3
  <2>2. \A k \in 1 .. Len(w[t]), m \in 1 .. Len(w[s]) :
          w[t][k] = w[s][m] => t = s /\ k = m
    BY DEF Once
  <2>3. QED
    BY <1>3, <2>1, <2>2
<1>5. QED
  <2>1. f[i] \in 1 .. Len(w[t]) /\ v[t][i] = w[t][f[i]]
    BY <1>3
  <2>2. j \in 1 .. Len(v[t]) /\ f[j] \in 1 .. Len(w[t]) /\ v[t][j] = w[t][f[j]]
    BY <1>1, <1>4 DEF Picks
  <2>3. w[t][f[i]] = w[t][f[j]]
    BY <1>4, <2>1, <2>2
  <2>4. f[i] = f[j]
    BY <2>1, <2>2, <2>3 DEF Once
  <2>5. QED
    BY <1>1, <1>4, <2>2, <2>4 DEF Picks

\* A wait that is on t is on no other timer.
LEMMA OnceIs ==
  ASSUME NEW w \in Lists, Once(w), NEW t \in Timers, NEW s \in Timers, NEW o,
         o \in ToSet(w[t]), o \in ToSet(w[s])
  PROVE  t = s
<1>1. w[t] \in Seq(Waits) /\ w[s] \in Seq(Waits)
  BY DEF Lists
<1>2. PICK i \in 1 .. Len(w[t]) : w[t][i] = o
  BY <1>1, ToSetIs
<1>3. PICK j \in 1 .. Len(w[s]) : w[s][j] = o
  BY <1>1, ToSetIs
<1>4. QED
  BY <1>2, <1>3 DEF Once

\* When some waits on a timer end, the others are still on one timer each.
LEMMA KeptLess ==
  ASSUME NEW w \in Lists, NEW st, Kept(w, st), NEW t \in Timers,
         NEW s \in Seq(Waits), Part(s, w[t]), NEW how, how # "waiting"
  PROVE  /\ [w EXCEPT ![t] = s] \in Lists
         /\ Kept([w EXCEPT ![t] = s], Ended(st, ToSet(w[t]) \ ToSet(s), how))
<1> DEFINE v == [w EXCEPT ![t] = s]
           L == ToSet(w[t]) \ ToSet(s)
<1>1. w[t] \in Seq(Waits) /\ Once(w)
      /\ \A o \in Waits : st[o] = "waiting" <=> In(w, o)
  BY DEF Lists, Kept
<1>2. v \in Lists /\ v[t] = s /\ \A u \in Timers : u # t => v[u] = w[u]
  BY DEF Lists
<1>3. ToSet(s) \subseteq ToSet(w[t])
  BY <1>1, PartIn
<1> HIDE DEF v
<1>4. Once(v)
  <2>1. ASSUME NEW u \in Timers PROVE Part(v[u], w[u])
    <3>1. CASE u = t
      BY <1>2, <3>1
    <3>2. CASE u # t
      <4>1. v[u] = w[u] /\ w[u] \in Seq(Waits)
        BY <1>2, <3>2 DEF Lists
      <4>2. QED
        BY <4>1, PartSame
    <3>3. QED
      BY <3>1, <3>2
  <2>2. QED
    BY <1>1, <1>2, <2>1, PartOnce
<1>5. ASSUME NEW o \in Waits PROVE In(v, o) <=> In(w, o) /\ o \notin L
  <2>1. ASSUME In(v, o) PROVE In(w, o) /\ o \notin L
    <3>1. PICK u \in Timers : o \in ToSet(v[u])
      BY <2>1 DEF In
    <3>2. o \in ToSet(w[u])
      BY <1>2, <1>3, <3>1
    <3>3. o \in ToSet(w[t]) => u = t
      BY <1>1, <3>2, OnceIs
    <3>4. QED
      BY <1>2, <3>1, <3>2, <3>3 DEF In
  <2>2. ASSUME In(w, o), o \notin L PROVE In(v, o)
    <3>1. PICK u \in Timers : o \in ToSet(w[u])
      BY <2>2 DEF In
    <3>2. o \in ToSet(v[u])
      BY <1>2, <2>2, <3>1
    <3>3. QED
      BY <3>2 DEF In
  <2>3. QED
    BY <2>1, <2>2
<1>6. ASSUME NEW o \in Waits
      PROVE  Ended(st, L, how)[o] = "waiting" <=> In(v, o)
  <2>1. Ended(st, L, how)[o] = IF o \in L THEN how ELSE st[o]
    BY DEF Ended
  <2>2. QED
    BY <1>1, <1>5, <2>1
<1>7. QED
  BY <1>2, <1>4, <1>6 DEF Kept, v

\* Waits that move together are on one timer each.
LEMMA KeptMoved ==
  ASSUME NEW w \in Lists, NEW st, Kept(w, st), NEW a \in Timers, NEW b \in Timers,
         a # b, w[a] = <<>>
  PROVE  LET v == [w EXCEPT ![a] = w[b], ![b] = <<>>]
         IN  v \in Lists /\ Kept(v, st)
<1> DEFINE v == [w EXCEPT ![a] = w[b], ![b] = <<>>]
           From(u) == IF u = a THEN b ELSE u
<1>1. <<>> \in Seq(Waits) /\ Once(w)
      /\ \A o \in Waits : st[o] = "waiting" <=> In(w, o)
  BY DEF Kept
<1>2. v \in Lists
  BY <1>1 DEF Lists
<1>3. \A u \in Timers : v[u] = IF u = a THEN w[b] ELSE IF u = b THEN <<>> ELSE w[u]
  BY DEF Lists
<1> HIDE DEF v
<1>4. Once(v)
  <2> SUFFICES ASSUME NEW t \in Timers, NEW s \in Timers, NEW i \in 1 .. Len(v[t]),
                      NEW j \in 1 .. Len(v[s]), v[t][i] = v[s][j]
               PROVE  t = s /\ i = j
    BY DEF Once
  <2>1. t # b /\ s # b
    BY <1>3
  <2>2. v[t] = w[From(t)] /\ v[s] = w[From(s)]
    BY <1>3, <2>1
  <2>3. From(t) \in Timers /\ From(s) \in Timers
    OBVIOUS
  <2>4. From(t) = From(s) /\ i = j
    BY <1>1, <2>2, <2>3 DEF Once
  <2>5. QED
    BY <2>1, <2>4
<1>5. ASSUME NEW o \in Waits PROVE In(v, o) <=> In(w, o)
  <2>1. ToSet(<<>>) = {}
    BY <1>1, ToSetIs
  <2>2. \A u \in Timers : o \in ToSet(v[u]) => o \in ToSet(w[From(u)]) /\ From(u) \in Timers
    BY <1>3, <2>1
  <2>3. \A u \in Timers : o \in ToSet(w[u]) => o \in ToSet(v[IF u = b THEN a ELSE u])
    BY <1>3, <2>1
  <2> HIDE DEF From
  <2>4. QED
    BY <2>2, <2>3 DEF In
<1>6. QED
  BY <1>1, <1>2, <1>4, <1>5 DEF Kept, v

\* A new wait is on no timer before.
LEMMA KeptMore ==
  ASSUME NEW w \in Lists, NEW st \in [Waits -> Results], Kept(w, st),
         NEW t \in Timers, NEW o \in Waits, st[o] = "new"
  PROVE  LET v == [w EXCEPT ![t] = Append(w[t], o)]
         IN  v \in Lists /\ Kept(v, [st EXCEPT ![o] = "waiting"])
<1> DEFINE s == Append(w[t], o)
           v == [w EXCEPT ![t] = s]
<1>1. w[t] \in Seq(Waits) /\ Once(w)
      /\ \A x \in Waits : st[x] = "waiting" <=> In(w, x)
  BY DEF Lists, Kept
<1>2. /\ s \in Seq(Waits) /\ Len(s) = Len(w[t]) + 1
      /\ \A i \in 1 .. Len(w[t]) : s[i] = w[t][i]
      /\ s[Len(w[t]) + 1] = o /\ Len(w[t]) \in Nat
  BY <1>1, AppendProperties
<1> HIDE DEF s
<1>3. v \in Lists /\ v[t] = s /\ \A u \in Timers : u # t => v[u] = w[u]
  BY <1>2 DEF Lists
<1> HIDE DEF v
<1>4. \A u \in Timers : o \notin ToSet(w[u])
  BY <1>1 DEF In
<1>5. \A u \in Timers : \A i \in 1 .. Len(w[u]) : w[u][i] # o
  <2>1. TAKE u \in Timers
  <2>2. w[u] \in Seq(Waits)
    BY DEF Lists
  <2>3. QED
    BY <1>4, <2>2, ToSetIs
<1>6. ASSUME NEW u \in Timers, NEW i \in 1 .. Len(v[u])
      PROVE  \/ i \in 1 .. Len(w[u]) /\ v[u][i] = w[u][i] /\ v[u][i] # o
             \/ u = t /\ i = Len(w[t]) + 1 /\ v[u][i] = o
  <2>1. CASE u = t
    BY <1>2, <1>3, <1>5, <2>1
  <2>2. CASE u # t
    BY <1>3, <1>5, <2>2
  <2>3. QED
    BY <2>1, <2>2
<1>7. Once(v)
  <2> SUFFICES ASSUME NEW a \in Timers, NEW b \in Timers, NEW i \in 1 .. Len(v[a]),
                      NEW j \in 1 .. Len(v[b]), v[a][i] = v[b][j]
               PROVE  a = b /\ i = j
    BY DEF Once
  <2>1. \/ i \in 1 .. Len(w[a]) /\ v[a][i] = w[a][i] /\ v[a][i] # o
        \/ a = t /\ i = Len(w[t]) + 1 /\ v[a][i] = o
    BY <1>6
  <2>2. \/ j \in 1 .. Len(w[b]) /\ v[b][j] = w[b][j] /\ v[b][j] # o
        \/ b = t /\ j = Len(w[t]) + 1 /\ v[b][j] = o
    BY <1>6
  <2>3. QED
    BY <1>1, <2>1, <2>2 DEF Once
<1>8. ASSUME NEW x \in Waits PROVE In(v, x) <=> In(w, x) \/ x = o
  <2>1. \A y : y \in ToSet(s) <=> y \in ToSet(w[t]) \/ y = o
    <3>1. \A y : y \in ToSet(s) <=> \E i \in 1 .. Len(s) : s[i] = y
      BY <1>2, ToSetIs
    <3>2. \A y : y \in ToSet(w[t]) <=> \E i \in 1 .. Len(w[t]) : w[t][i] = y
      BY <1>1, ToSetIs
    <3>3. QED
      BY <1>2, <3>1, <3>2
  <2>2. QED
    BY <1>3, <2>1 DEF In
<1>9. \A x \in Waits : [st EXCEPT ![o] = "waiting"][x] = "waiting" <=> In(v, x)
  BY <1>1, <1>8
<1>10. QED
  BY <1>3, <1>7, <1>9 DEF Kept, v, s

\* The timers of which the waits have all left.
Emptied(v, w) == {t \in Timers : v[t] # w[t]}

\* When all waits of some timers end, the others are on one timer each.
LEMMA KeptDrained ==
  ASSUME NEW w \in Lists, NEW v \in Lists, NEW st, Kept(w, st),
         \A t \in Timers : v[t] = w[t] \/ v[t] = <<>>, NEW how, how # "waiting"
  PROVE  Kept(v, Ended(st, UNION {ToSet(w[t]) : t \in Emptied(v, w)}, how))
<1> DEFINE L == UNION {ToSet(w[t]) : t \in Emptied(v, w)}
<1>1. Once(w) /\ \A o \in Waits : st[o] = "waiting" <=> In(w, o)
  BY DEF Kept
<1>2. Once(v)
  <2>1. ASSUME NEW t \in Timers PROVE Part(v[t], w[t])
    <3>1. w[t] \in Seq(Waits)
      BY DEF Lists
    <3>2. QED
      BY <3>1, PartSame
  <2>2. QED
    BY <1>1, <2>1, PartOnce
<1>3. ASSUME NEW o \in Waits PROVE In(v, o) <=> In(w, o) /\ o \notin L
  <2>1. \A t \in Timers : o \in ToSet(v[t]) => v[t] = w[t]
    <3>1. <<>> \in Seq(Waits)
      OBVIOUS
    <3>2. ToSet(<<>>) = {}
      BY <3>1, ToSetIs
    <3>3. QED
      BY <3>2
  <2>2. ASSUME In(v, o) PROVE In(w, o) /\ o \notin L
    <3>1. PICK t \in Timers : o \in ToSet(v[t])
      BY <2>2 DEF In
    <3>2. v[t] = w[t] /\ o \in ToSet(w[t])
      BY <2>1, <3>1
    <3>3. ASSUME NEW u \in Timers, v[u] # w[u] PROVE o \notin ToSet(w[u])
      BY <1>1, <3>2, <3>3, OnceIs
    <3>4. QED
      BY <3>2, <3>3 DEF In, Emptied
  <2>3. ASSUME In(w, o), o \notin L PROVE In(v, o)
    <3>1. PICK t \in Timers : o \in ToSet(w[t])
      BY <2>3 DEF In
    <3>2. t \notin Emptied(v, w)
      BY <2>3, <3>1
    <3>3. v[t] = w[t]
      BY <3>2 DEF Emptied
    <3>4. QED
      BY <3>1, <3>3 DEF In
  <2>4. QED
    BY <2>2, <2>3
<1>4. ASSUME NEW o \in Waits
      PROVE  Ended(st, L, how)[o] = "waiting" <=> In(v, o)
  <2>1. Ended(st, L, how)[o] = IF o \in L THEN how ELSE st[o]
    BY DEF Ended
  <2>2. QED
    BY <1>1, <1>3, <2>1
<1>5. QED
  BY <1>2, <1>4 DEF Kept

----------------------------------------------------------------------------
(* The invariant *)

\* The waits on each timer.
Held == [t \in Timers |-> QueueFor(t).ops[t]]

AllQueues == UNION {QueueType(TimersOf(k)) : k \in Queues}

TypeOK ==
  /\ now \in Nat /\ program \in Programs
  /\ queue \in [Queues -> AllQueues] /\ expiry \in [Timers -> 0 .. MaxTime]
  /\ pending \in [Timers -> BOOLEAN]
  /\ timerFd \in BOOLEAN /\ armed \in Nat \cup {Never} /\ interrupted \in BOOLEAN
  /\ reactor \in {"idle", "blocked", "check"} /\ until \in Nat \cup {Never}
  /\ status \in [Waits -> Results] /\ shut \in BOOLEAN

QueuesSound == \A k \in Queues : Sound(TimersOf(k), queue[k], expiry, shut)

FlagsKept == \A t \in Timers : Held[t] # <<>> => pending[t]

\* What is to happen at x happens by the time d, or has become possible.
By(x, d) == x # Never /\ (x <= d \/ x <= now)

Alarmed(d) ==
  \/ reactor = "check"
  \/ timerFd /\ By(armed, d)
  \/ ~timerFd /\ (reactor = "idle" \/ interrupted \/ By(until, d))

AlarmKept == \A k \in Queues : queue[k].heap # <<>> => Alarmed(queue[k].heap[1].time)

\* Nothing runs while the context shuts down, nor after.
DownIsIdle == shut => reactor = "idle"

Inv ==
  /\ TypeOK /\ QueuesSound /\ Kept(Held, status) /\ FlagsKept
  /\ AlarmKept /\ DownIsIdle

\* A timer has a queue.
LEMMA OwnQueue ==
  ASSUME NEW t \in Timers
  PROVE  QueueOf[t] \in Queues /\ t \in TimersOf(QueueOf[t])
BY TimerAssumption DEF TimersOf

\* NoTimer is none of them.
LEMMA OwnTimers ==
  ASSUME NEW k
  PROVE  NoTimer \notin TimersOf(k) /\ TimersOf(k) \subseteq Timers
BY TimerAssumption DEF TimersOf

\* The waits of a timer are those in its queue.
LEMMA QueuesAre ==
  ASSUME TypeOK, QueuesSound
  PROVE  /\ Held \in Lists
         /\ \A t \in Timers : Held[t] = queue[QueueOf[t]].ops[t]
         /\ \A k \in Queues : /\ queue[k].ops \in [TimersOf(k) -> Seq(Waits)]
                              /\ queue[k].heap # <<>> => queue[k].heap[1].time \in Nat
<1>1. ASSUME NEW k \in Queues
      PROVE  /\ queue[k].ops \in [TimersOf(k) -> Seq(Waits)]
             /\ queue[k].heap # <<>> => queue[k].heap[1].time \in Nat
  BY SoundIs DEF QueuesSound
<1>2. \A t \in Timers : Held[t] = queue[QueueOf[t]].ops[t]
  BY DEF Held, QueueFor
<1>3. \A t \in Timers : Held[t] \in Seq(Waits)
  BY <1>1, <1>2, OwnQueue
<1>4. Held \in Lists
  BY <1>3 DEF Held, Lists
<1>5. QED
  BY <1>1, <1>2, <1>4

\* Only the times of timers of the queue k change.
TimesElsewhere(k) == \A t \in Timers : QueueOf[t] # k => expiry'[t] = expiry[t]

\* One queue changes, and the times of some of its timers.
LEMMA OneQueue ==
  ASSUME TypeOK, QueuesSound, NEW k \in Queues, NEW p,
         Sound(TimersOf(k), p, expiry', shut'), queue' = [queue EXCEPT ![k] = p],
         shut' = shut, TimesElsewhere(k)
  PROVE  /\ queue' \in [Queues -> AllQueues] /\ QueuesSound'
         /\ queue'[k] = p /\ \A j \in Queues : j # k => queue'[j] = queue[j]
         /\ \A t \in Timers : Held'[t] = IF QueueOf[t] = k THEN p.ops[t] ELSE Held[t]
<1>1. p \in QueueType(TimersOf(k))
  BY SoundIs
<1>2. /\ queue' \in [Queues -> AllQueues] /\ queue'[k] = p
      /\ \A j \in Queues : j # k => queue'[j] = queue[j]
  BY <1>1 DEF TypeOK, AllQueues
<1>3. ASSUME NEW j \in Queues PROVE Sound(TimersOf(j), queue'[j], expiry', shut')
  <2>1. CASE j = k
    BY <1>2, <2>1
  <2>2. CASE j # k
    <3>1. Sound(TimersOf(j), queue[j], expiry, shut) /\ queue'[j] = queue[j]
      BY <1>2, <2>2 DEF QueuesSound
    <3>2. CASE shut
      BY <3>1, <3>2 DEF Sound
    <3>3. CASE ~shut
      <4>1. GoodQueue(TimersOf(j), queue[j], expiry)
        BY <3>1, <3>3 DEF Sound
      <4>2. \A t \in TimersOf(j) : expiry'[t] = expiry[t]
        BY <2>2 DEF TimersOf, TimesElsewhere
      <4>3. GoodQueue(TimersOf(j), queue[j], expiry')
        BY <4>1, <4>2, Retimed
      <4>4. QED
        BY <3>1, <3>3, <4>3 DEF Sound
    <3>4. QED
      BY <3>2, <3>3
  <2>3. QED
    BY <2>1, <2>2
<1>4. QueuesSound'
  BY <1>3 DEF QueuesSound
<1>5. ASSUME NEW t \in Timers
      PROVE  Held'[t] = IF QueueOf[t] = k THEN p.ops[t] ELSE Held[t]
  <2>1. Held'[t] = queue'[QueueOf[t]].ops[t] /\ Held[t] = queue[QueueOf[t]].ops[t]
    BY DEF Held, QueueFor
  <2>2. QED
    BY <1>2, <2>1, OwnQueue
<1>6. QED
  BY <1>2, <1>4, <1>5

\* The waits in one queue.
LEMMA WaitingInIs ==
  ASSUME NEW T, NEW q, q.ops \in [T -> Seq(Waits)], NEW o
  PROVE  o \in WaitingIn(q) <=> \E t \in T : o \in ToSet(q.ops[t])
BY DEF WaitingIn

\* Of the waits in a queue, those have left that have left the timer.
LEMMA LeftIs ==
  ASSUME TypeOK, QueuesSound, Once(Held), NEW t \in Timers, NEW s \in Seq(Waits),
         ToSet(s) \subseteq ToSet(Held[t]),
         NEW p, p.ops = [QueueFor(t).ops EXCEPT ![t] = s]
  PROVE  WaitingIn(QueueFor(t)) \ WaitingIn(p) = ToSet(Held[t]) \ ToSet(s)
<1> DEFINE k == QueueOf[t]
           T == TimersOf(k)
           q == QueueFor(t)
<1>1. k \in Queues /\ t \in T /\ q = queue[k] /\ q.ops \in [T -> Seq(Waits)]
      /\ Held \in Lists
  BY OwnQueue, QueuesAre DEF QueueFor
<1>2. \A u \in T : u \in Timers /\ Held[u] = q.ops[u]
  BY <1>1, QueuesAre DEF TimersOf
<1>3. p.ops \in [T -> Seq(Waits)] /\ \A u \in T : p.ops[u] = IF u = t THEN s ELSE q.ops[u]
  BY <1>1
<1> HIDE DEF T, q, k
<1>4. \A o : o \in WaitingIn(q) <=> \E u \in T : o \in ToSet(q.ops[u])
  BY <1>1, WaitingInIs
<1>5. \A o : o \in WaitingIn(p) <=> \E u \in T : o \in ToSet(p.ops[u])
  BY <1>3, WaitingInIs
<1>6. ASSUME NEW o
      PROVE  o \in WaitingIn(q) /\ o \notin WaitingIn(p) <=>
             o \in ToSet(Held[t]) /\ o \notin ToSet(s)
  <2>1. ASSUME o \in ToSet(Held[t]), o \notin ToSet(s)
        PROVE  o \in WaitingIn(q) /\ o \notin WaitingIn(p)
    <3>1. o \in WaitingIn(q)
      BY <1>1, <1>2, <1>4, <2>1
    <3>2. ASSUME NEW u \in T, o \in ToSet(p.ops[u]) PROVE FALSE
      <4>1. u # t /\ o \in ToSet(Held[u]) /\ u \in Timers
        BY <1>2, <1>3, <2>1, <3>2
      <4>2. QED
        BY <1>1, <2>1, <4>1, OnceIs
    <3>3. QED
      BY <1>5, <3>1, <3>2
  <2>2. ASSUME o \in WaitingIn(q), o \notin WaitingIn(p)
        PROVE  o \in ToSet(Held[t]) /\ o \notin ToSet(s)
    <3>1. PICK u \in T : o \in ToSet(q.ops[u])
      BY <1>4, <2>2
    <3>2. u = t
      BY <1>3, <1>5, <2>2, <3>1
    <3>3. o \notin ToSet(s)
      BY <1>1, <1>3, <1>5, <2>2
    <3>4. QED
      BY <1>2, <3>1, <3>2, <3>3
  <2>3. QED
    BY <2>1, <2>2
<1>7. QED
  BY <1>6 DEF q

\* What an AbortBy does whose queue lets some of the waits on t go.
LEMMA AbortIs ==
  ASSUME Inv, NEW t \in Timers, NEW s \in Seq(Waits), Part(s, Held[t]), NEW p,
         Less(TimersOf(QueueOf[t]), p, QueueFor(t), expiry, shut, t, s),
         AbortBy(t, p)
  PROVE  /\ queue' = [queue EXCEPT ![QueueOf[t]] = p]
         /\ status' = Ended(status, ToSet(Held[t]) \ ToSet(s), "aborted")
         /\ status' \in [Waits -> Results]
         /\ Kept([Held EXCEPT ![t] = s], status')
<1>1. TypeOK /\ QueuesSound /\ Kept(Held, status) /\ Once(Held)
  BY DEF Inv, Kept
<1>2. Held \in Lists /\ Held[t] \in Seq(Waits)
  BY <1>1, QueuesAre DEF Lists
<1>3. p.ops = [QueueFor(t).ops EXCEPT ![t] = s]
  BY DEF Less
<1>4. WaitingIn(QueueFor(t)) \ WaitingIn(p) = ToSet(Held[t]) \ ToSet(s)
  BY <1>1, <1>2, <1>3, LeftIs, PartIn
<1>5. queue' = [queue EXCEPT ![QueueOf[t]] = p]
  BY DEF AbortBy
<1>6. status' = Ended(status, ToSet(Held[t]) \ ToSet(s), "aborted")
  BY <1>4 DEF AbortBy, Complete, Ended
<1>7. status' \in [Waits -> Results]
  BY <1>1, <1>6 DEF TypeOK, Ended, Results
<1>8. Kept([Held EXCEPT ![t] = s], status')
  BY <1>1, <1>2, <1>6, KeptLess
<1>9. QED
  BY <1>5, <1>6, <1>7, <1>8

----------------------------------------------------------------------------
(* The alarm *)

\* Min is the least number.
LEMMA MinIs ==
  ASSUME NEW S, S \subseteq Nat, S # {}
  PROVE  Min(S) \in S /\ \A k \in S : Min(S) <= k
<1>1. \E m \in S : \A k \in S : m <= k
  BY LeastNumber
<1>2. QED
  BY <1>1 DEF Min

\* The timeout is not after the earliest timer of any queue.
LEMMA TimeoutIs ==
  ASSUME now \in Nat, NEW qs,
         \A k \in Queues : qs[k].heap # <<>> => qs[k].heap[1].time \in Nat
  PROVE  /\ TimeoutAt(qs) \in Nat /\ TimeoutAt(qs) # Never
         /\ \A k \in Queues : qs[k].heap # <<>> => By(TimeoutAt(qs), qs[k].heap[1].time)
<1> DEFINE W(k) == WaitDuration(qs[k], now, MaxWait)
           S == {MaxWait} \cup {W(k) : k \in Queues}
           m == Min(S)
<1>1. MaxWait \in Nat /\ Never \notin Nat
  BY TimerAssumption
<1>2. ASSUME NEW k \in Queues
      PROVE  /\ W(k) \in Nat
             /\ qs[k].heap # <<>> => now + W(k) <= qs[k].heap[1].time \/ W(k) = 0
  <2>1. CASE qs[k].heap = <<>>
    BY <1>1, <2>1 DEF WaitDuration
  <2>2. CASE qs[k].heap # <<>>
    <3> DEFINE d == qs[k].heap[1].time
    <3>1. d \in Nat
      BY <2>2
    <3>2. W(k) = IF d <= now THEN 0 ELSE IF d - now > MaxWait THEN MaxWait ELSE d - now
      BY <2>2 DEF WaitDuration
    <3> HIDE DEF W, d
    <3>3. W(k) \in Nat /\ (now + W(k) <= d \/ W(k) = 0)
      BY <1>1, <3>1, <3>2
    <3>4. QED
      BY <3>3 DEF d
  <2>3. QED
    BY <2>1, <2>2
<1> HIDE DEF W
<1>3. S \subseteq Nat /\ S # {}
  BY <1>1, <1>2
<1>4. m \in Nat /\ \A k \in Queues : m <= W(k)
  <2>1. m \in S /\ \A k \in S : m <= k
    BY <1>3, MinIs
  <2>2. QED
    BY <1>3, <2>1
<1>5. TimeoutAt(qs) = now + m
  BY DEF TimeoutAt, SetWaitDuration, W
<1> HIDE DEF m
<1>6. ASSUME NEW k \in Queues, qs[k].heap # <<>>
      PROVE  now + m <= qs[k].heap[1].time \/ now + m <= now
  <2>1. /\ W(k) \in Nat /\ m <= W(k) /\ qs[k].heap[1].time \in Nat
        /\ (now + W(k) <= qs[k].heap[1].time \/ W(k) = 0)
    BY <1>2, <1>4, <1>6
  <2>2. QED
    BY <1>4, <2>1
<1>7. now + m \in Nat /\ now + m # Never
  BY <1>1, <1>4
<1>8. QED
  BY <1>5, <1>6, <1>7 DEF By

\* Nothing changes that makes the alarm come too late.
LEMMA AlarmStays ==
  ASSUME Inv, now' \in Nat, now <= now',
         UNCHANGED <<timerFd, armed, interrupted, reactor, until>>,
         \A k \in Queues : NoEarlier(queue'[k], queue[k]),
         \A k \in Queues : queue'[k].heap # <<>> => queue'[k].heap[1].time \in Nat
  PROVE  AlarmKept'
<1>1. ASSUME NEW k \in Queues, NEW e, queue'[k].heap # <<>>,
             e = queue'[k].heap[1].time
      PROVE  Alarmed(e)'
  <2> DEFINE d == queue[k].heap[1].time
  <2>1. queue[k].heap # <<>> /\ d <= e
    BY <1>1 DEF NoEarlier
  <2>2. d \in Nat /\ e \in Nat /\ now \in Nat /\ armed \in Nat \cup {Never}
        /\ until \in Nat \cup {Never}
    BY <1>1, <2>1, QueuesAre DEF Inv, TypeOK
  <2>3. Alarmed(d)
    BY <2>1 DEF Inv, AlarmKept
  <2> HIDE DEF d
  <2>4. ASSUME NEW x \in Nat \cup {Never}, By(x, d)
        PROVE  x # Never /\ (x <= e \/ x <= now')
    <3>1. x \in Nat /\ (x <= d \/ x <= now)
      BY <2>4 DEF By
    <3>2. QED
      BY <2>1, <2>2, <2>4, <3>1 DEF By
  <2>5. By(armed, d) => By(armed, e)'
    <3>1. By(armed, d) => armed # Never /\ (armed <= e \/ armed <= now')
      BY <2>2, <2>4
    <3>2. QED
      BY <3>1 DEF By
  <2>6. By(until, d) => By(until, e)'
    <3>1. By(until, d) => until # Never /\ (until <= e \/ until <= now')
      BY <2>2, <2>4
    <3>2. QED
      BY <3>1 DEF By
  <2>7. QED
    BY <2>3, <2>5, <2>6 DEF Alarmed
<1>2. QED
  BY <1>1 DEF AlarmKept, Alarmed, By

\* Nothing comes earlier in a queue that stays as it is.
LEMMA NoEarlierSame ==
  ASSUME TypeOK, QueuesSound, NEW k \in Queues PROVE NoEarlier(queue[k], queue[k])
BY QueuesAre DEF NoEarlier

\* The parts of the invariant.
LEMMA InvIs ==
  ASSUME Inv
  PROVE  /\ TypeOK /\ QueuesSound /\ Kept(Held, status) /\ Once(Held) /\ FlagsKept
         /\ AlarmKept /\ DownIsIdle /\ Held \in Lists
         /\ \A t \in Timers : /\ Held[t] = QueueFor(t).ops[t]
                              /\ Held[t] \in Seq(Waits)
                              /\ Sound(TimersOf(QueueOf[t]), QueueFor(t), expiry, shut)
<1>1. TypeOK /\ QueuesSound /\ Kept(Held, status) /\ Once(Held) /\ FlagsKept
      /\ AlarmKept /\ DownIsIdle
  BY DEF Inv, Kept
<1>2. Held \in Lists /\ \A t \in Timers : Held[t] = QueueFor(t).ops[t]
  BY <1>1, QueuesAre DEF QueueFor
<1>3. \A t \in Timers : Held[t] \in Seq(Waits)
  BY <1>2 DEF Lists
<1>4. \A t \in Timers : Sound(TimersOf(QueueOf[t]), QueueFor(t), expiry, shut)
  BY <1>1, OwnQueue DEF QueuesSound, QueueFor
<1>5. QED
  BY <1>1, <1>2, <1>3, <1>4

\* The waits after p has become the queue k.
HeldAfter(k, p, v) ==
  v \in Lists /\ \A t \in Timers : v[t] = IF QueueOf[t] = k THEN p.ops[t] ELSE Held[t]

FlagsFor(v) == \A t \in Timers : v[t] # <<>> => pending'[t]

\* A change of one queue in which nothing comes earlier, by whatever ends
\* waits of its timers.
LEMMA InvOfOne ==
  ASSUME Inv, NEW k \in Queues, NEW p,
         Sound(TimersOf(k), p, expiry', shut'), queue' = [queue EXCEPT ![k] = p],
         NoEarlier(p, queue[k]),
         TimesElsewhere(k),
         NEW v, HeldAfter(k, p, v), Kept(v, status'), FlagsFor(v),
         expiry' \in [Timers -> 0 .. MaxTime], pending' \in [Timers -> BOOLEAN],
         status' \in [Waits -> Results],
         UNCHANGED <<now, program, fdVars, reactorVars, shut>>
  PROVE  Inv' /\ Held' = v
<1>1. TypeOK /\ QueuesSound /\ DownIsIdle
  BY InvIs
<1>2. /\ queue' \in [Queues -> AllQueues] /\ QueuesSound'
      /\ queue'[k] = p /\ \A j \in Queues : j # k => queue'[j] = queue[j]
      /\ \A t \in Timers : Held'[t] = IF QueueOf[t] = k THEN p.ops[t] ELSE Held[t]
  <2>1. shut' = shut
    OBVIOUS
  <2>2. QED
    BY <1>1, <2>1, OneQueue
<1>3. TypeOK'
  BY <1>1, <1>2 DEF TypeOK, fdVars, reactorVars
<1>4. Held' = v
  <2>1. Held' = [t \in Timers |-> Held'[t]]
    BY DEF Held
  <2>2. \A t \in Timers : Held'[t] = v[t]
    BY <1>2 DEF HeldAfter
  <2>3. v = [t \in Timers |-> v[t]]
    BY DEF HeldAfter, Lists
  <2>4. QED
    BY <2>1, <2>2, <2>3
<1>5. Kept(Held, status)' /\ FlagsKept'
  BY <1>4 DEF FlagsKept, FlagsFor
<1>6. DownIsIdle'
  BY <1>1 DEF DownIsIdle, reactorVars
<1>7. AlarmKept'
  <2>1. \A j \in Queues : NoEarlier(queue'[j], queue[j])
    BY <1>1, <1>2, NoEarlierSame
  <2>2. \A j \in Queues : queue'[j].heap # <<>> => queue'[j].heap[1].time \in Nat
    <3>1. ASSUME NEW j \in Queues
          PROVE  queue'[j].heap # <<>> => queue'[j].heap[1].time \in Nat
      <4>1. Sound(TimersOf(j), queue'[j], expiry', shut')
        BY <1>2 DEF QueuesSound
      <4>2. QED
        BY <4>1, SoundIs
    <3>2. QED
      BY <3>1
  <2>3. now' \in Nat /\ now <= now'
    BY <1>1 DEF TypeOK
  <2>4. UNCHANGED <<timerFd, armed, interrupted, reactor, until>>
    BY DEF fdVars, reactorVars
  <2>5. QED
    BY <2>1, <2>2, <2>3, <2>4, AlarmStays
<1>8. QED
  BY <1>2, <1>3, <1>4, <1>5, <1>6, <1>7 DEF Inv

----------------------------------------------------------------------------
(* The calls that end waits *)

\* The waits on t become those of s, and those that leave are aborted.
LEMMA AbortStep ==
  ASSUME Inv, NEW t \in Timers, NEW s \in Seq(Waits), Part(s, Held[t]), NEW p,
         Less(TimersOf(QueueOf[t]), p, QueueFor(t), expiry, shut, t, s),
         AbortBy(t, p), Sound(TimersOf(QueueOf[t]), p, expiry', shut'),
         TimesElsewhere(QueueOf[t]), expiry' \in [Timers -> 0 .. MaxTime],
         pending' \in [Timers -> BOOLEAN], FlagsFor([Held EXCEPT ![t] = s]),
         UNCHANGED <<now, program, fdVars, reactorVars, shut>>
  PROVE  /\ Inv' /\ Held' = [Held EXCEPT ![t] = s]
         /\ status' = Ended(status, ToSet(Held[t]) \ ToSet(s), "aborted")
<1> DEFINE k == QueueOf[t]
           v == [Held EXCEPT ![t] = s]
<1>1. /\ Held \in Lists /\ \A u \in Timers : Held[u] = QueueFor(u).ops[u]
      /\ QueuesSound /\ TypeOK
  BY InvIs
<1>2. k \in Queues /\ t \in TimersOf(k) /\ QueueFor(t) = queue[k]
      /\ queue[k].ops \in [TimersOf(k) -> Seq(Waits)]
  BY <1>1, OwnQueue, QueuesAre DEF QueueFor
<1>3. /\ queue' = [queue EXCEPT ![k] = p]
      /\ status' = Ended(status, ToSet(Held[t]) \ ToSet(s), "aborted")
      /\ status' \in [Waits -> Results] /\ Kept(v, status')
  BY AbortIs
<1>4. p.ops = [queue[k].ops EXCEPT ![t] = s] /\ NoEarlier(p, queue[k])
  BY <1>2 DEF Less
<1>5. HeldAfter(k, p, v)
  <2>1. v \in Lists
    BY <1>1 DEF Lists
  <2>2. ASSUME NEW u \in Timers
        PROVE  v[u] = IF QueueOf[u] = k THEN p.ops[u] ELSE Held[u]
    <3>1. v[u] = IF u = t THEN s ELSE Held[u]
      BY <1>1 DEF Lists
    <3>2. ASSUME QueueOf[u] = k PROVE u \in TimersOf(k) /\ Held[u] = queue[k].ops[u]
      BY <1>1, <3>2 DEF TimersOf, QueueFor
    <3>3. ASSUME QueueOf[u] = k PROVE p.ops[u] = IF u = t THEN s ELSE Held[u]
      BY <1>2, <1>4, <3>2, <3>3
    <3>4. QED
      BY <3>1, <3>3
  <2> HIDE DEF v, k
  <2>3. QED
    BY <2>1, <2>2 DEF HeldAfter
<1> HIDE DEF v
<1>6. Inv' /\ Held' = v
  <2>1. Sound(TimersOf(k), p, expiry', shut') /\ TimesElsewhere(k) /\ FlagsFor(v)
    BY DEF v
  <2> HIDE DEF k
  <2>2. QED
    BY <1>2, <1>3, <1>4, <1>5, <2>1, InvOfOne
<1>7. QED
  BY <1>3, <1>6 DEF v

\* cancel leaves nothing.
LEMMA CancelledIs ==
  ASSUME Inv, NEW t \in Timers
  PROVE  Less(TimersOf(QueueOf[t]), Cancelled(t), QueueFor(t), expiry, shut, t, <<>>)
<1> DEFINE T == TimersOf(QueueOf[t])
           q == QueueFor(t)
<1>1. /\ Sound(T, q, expiry, shut) /\ Held[t] = q.ops[t] /\ Held[t] \in Seq(Waits)
      /\ Held[t] # <<>> => pending[t]
  BY InvIs DEF FlagsKept
<1>2. t \in T /\ NoTimer \notin T
  BY OwnQueue, OwnTimers
<1>3. CASE pending[t]
  <2>1. All(t) = Len(Held[t]) /\ All(t) \in Nat
    BY <1>1 DEF All
  <2>2. Cancelled(t) = CancelTimer(q, t, All(t))
    BY <1>3 DEF Cancelled
  <2>3. Less(T, CancelTimer(q, t, All(t)), q, expiry, shut, t, Dropped(q.ops[t], All(t)))
    BY <1>1, <1>2, <2>1, CancelSound
  <2>4. Dropped(q.ops[t], All(t)) = <<>>
    BY <1>1, <2>1 DEF Dropped
  <2>5. QED
    BY <2>2, <2>3, <2>4
<1>4. CASE ~pending[t]
  <2>1. Cancelled(t) = q /\ q.ops[t] = <<>>
    BY <1>1, <1>4 DEF Cancelled
  <2>2. Less(T, q, q, expiry, shut, t, q.ops[t])
    BY <1>1, <1>2, SameIsLess
  <2>3. QED
    BY <2>1, <2>2
<1>5. QED
  BY <1>3, <1>4

\* All waits on t leave.
Cleared(t) ==
  /\ Held' = [Held EXCEPT ![t] = <<>>]
  /\ status' = Ended(status, ToSet(Held[t]), "aborted")

\* cancel, and the cancel in expires_at, keep the invariant.
LEMMA ClearStep ==
  ASSUME Inv, NEW t \in Timers, AbortBy(t, Cancelled(t)),
         Sound(TimersOf(QueueOf[t]), Cancelled(t), expiry', shut'),
         TimesElsewhere(QueueOf[t]), expiry' \in [Timers -> 0 .. MaxTime],
         pending' = [pending EXCEPT ![t] = FALSE],
         UNCHANGED <<now, program, fdVars, reactorVars, shut>>
  PROVE  Inv' /\ Cleared(t)
<1> DEFINE s == <<>>
           v == [Held EXCEPT ![t] = s]
<1>1. Held \in Lists /\ Held[t] \in Seq(Waits) /\ FlagsKept /\ TypeOK
  BY InvIs
<1>2. s \in Seq(Waits) /\ Part(s, Held[t])
  BY <1>1, PartSame
<1>3. Less(TimersOf(QueueOf[t]), Cancelled(t), QueueFor(t), expiry, shut, t, s)
  BY CancelledIs
<1>4. pending' \in [Timers -> BOOLEAN]
  BY <1>1 DEF TypeOK
<1>5. FlagsFor(v)
  <2>1. \A u \in Timers : v[u] = IF u = t THEN <<>> ELSE Held[u]
    BY <1>1 DEF Lists
  <2>2. \A u \in Timers : pending'[u] = IF u = t THEN FALSE ELSE pending[u]
    BY <1>1 DEF TypeOK
  <2>3. QED
    BY <1>1, <2>1, <2>2 DEF FlagsFor, FlagsKept
<1> HIDE DEF s
<1>6. /\ Inv' /\ Held' = [Held EXCEPT ![t] = s]
      /\ status' = Ended(status, ToSet(Held[t]) \ ToSet(s), "aborted")
  BY <1>2, <1>3, <1>4, <1>5, AbortStep
<1>7. ToSet(s) = {}
  BY <1>2, ToSetIs DEF s
<1>8. ToSet(Held[t]) \ ToSet(s) = ToSet(Held[t])
  BY <1>7
<1>9. QED
  BY <1>6, <1>8 DEF Cleared, s

\* cancel() ends the waits on a timer.
LEMMA CancelStep ==
  ASSUME Inv, NEW t \in Timers, Cancel(t)
  PROVE  Inv' /\ Cleared(t) /\ UNCHANGED <<now, expiry>>
<1>1. /\ AbortBy(t, Cancelled(t)) /\ pending' = [pending EXCEPT ![t] = FALSE]
      /\ UNCHANGED <<now, program, fdVars, reactorVars, shut>> /\ expiry' = expiry
  BY DEF Cancel
<1>2. Sound(TimersOf(QueueOf[t]), Cancelled(t), expiry', shut')
  BY <1>1, CancelledIs DEF Less
<1>3. TimesElsewhere(QueueOf[t]) /\ expiry' \in [Timers -> 0 .. MaxTime]
  BY <1>1, InvIs DEF TimesElsewhere, TypeOK
<1>4. Inv' /\ Cleared(t)
  BY <1>1, <1>2, <1>3, ClearStep
<1>5. QED
  BY <1>1, <1>4

\* expires_at() ends them before the time changes.
LEMMA ExpiresAtStep ==
  ASSUME Inv, NEW t \in Timers, NEW e \in 0 .. MaxTime, ExpiresAt(t, e)
  PROVE  Inv' /\ Cleared(t) /\ now' = now /\ expiry' = [expiry EXCEPT ![t] = e]
<1> DEFINE T == TimersOf(QueueOf[t])
           p == Cancelled(t)
<1>1. /\ AbortBy(t, p) /\ pending' = [pending EXCEPT ![t] = FALSE]
      /\ UNCHANGED <<now, program, fdVars, reactorVars, shut>>
      /\ expiry' = [expiry EXCEPT ![t] = e]
  BY DEF ExpiresAt
<1>2. TypeOK /\ Held[t] = QueueFor(t).ops[t]
      /\ Sound(T, QueueFor(t), expiry, shut)
  BY InvIs
<1>3. expiry' \in [Timers -> 0 .. MaxTime]
      /\ \A u \in Timers : u # t => expiry'[u] = expiry[u]
  BY <1>1, <1>2 DEF TypeOK
<1>4. TimesElsewhere(QueueOf[t])
  BY <1>3 DEF TimesElsewhere
<1>5. Less(T, p, QueueFor(t), expiry, shut, t, <<>>)
  BY CancelledIs
<1> HIDE DEF p
<1>6. Sound(T, p, expiry', shut')
  <2>1. Sound(T, p, expiry, shut) /\ shut' = shut
        /\ p.ops = [QueueFor(t).ops EXCEPT ![t] = <<>>]
    BY <1>1, <1>5 DEF Less
  <2>2. CASE shut
    BY <2>1, <2>2 DEF Sound
  <2>3. CASE ~shut
    <3>1. GoodQueue(T, p, expiry)
      BY <2>1, <2>3 DEF Sound
    <3>2. QueueFor(t).ops \in [T -> Seq(Waits)] /\ t \in T /\ T \subseteq Timers
      BY <1>2, SoundIs, OwnQueue, OwnTimers
    <3>3. p.ops[t] = <<>>
      BY <2>1, <3>2
    <3>4. \A u \in T : p.ops[u] # <<>> => expiry'[u] = expiry[u]
      BY <1>3, <3>2, <3>3
    <3>5. GoodQueue(T, p, expiry')
      BY <3>1, <3>4, Retimed
    <3>6. QED
      BY <2>1, <2>3, <3>5 DEF Sound
  <2>4. QED
    BY <2>2, <2>3
<1>7. Inv' /\ Cleared(t)
  BY <1>1, <1>3, <1>4, <1>6, ClearStep DEF p
<1>8. QED
  BY <1>1, <1>7

\* cancel_one() ends the first wait, and keeps the flag while others may wait.
LEMMA CancelOneStep ==
  ASSUME Inv, NEW t \in Timers, CancelOne(t)
  PROVE  LET s == Dropped(Held[t], 1)
         IN  /\ Inv' /\ Held' = [Held EXCEPT ![t] = s]
             /\ status' = Ended(status, ToSet(Held[t]) \ ToSet(s), "aborted")
             /\ UNCHANGED <<now, expiry>>
<1> DEFINE s == Dropped(Held[t], 1)
           T == TimersOf(QueueOf[t])
           p == CancelTimer(QueueFor(t), t, 1)
<1>1. /\ AbortBy(t, p) /\ pending' = [pending EXCEPT ![t] = PendingAfterOne(t)]
      /\ UNCHANGED <<now, program, fdVars, reactorVars, shut>> /\ expiry' = expiry
      /\ pending[t]
  BY DEF CancelOne
<1>2. /\ Held \in Lists /\ Held[t] = QueueFor(t).ops[t] /\ Held[t] \in Seq(Waits)
      /\ Sound(T, QueueFor(t), expiry, shut) /\ FlagsKept /\ TypeOK
  BY InvIs
<1>3. s \in Seq(Waits) /\ Part(s, Held[t])
  BY <1>2, DroppedIs, PartDropped
<1>4. Less(T, p, QueueFor(t), expiry, shut, t, s)
  BY <1>2, OwnQueue, OwnTimers, CancelSound
<1>5. Sound(T, p, expiry', shut') /\ TimesElsewhere(QueueOf[t])
      /\ expiry' \in [Timers -> 0 .. MaxTime]
  BY <1>1, <1>2, <1>4 DEF Less, TimesElsewhere, TypeOK
<1>6. pending' \in [Timers -> BOOLEAN]
  BY <1>1, <1>2 DEF TypeOK, PendingAfterOne
<1>7. FlagsFor([Held EXCEPT ![t] = s])
  <2>1. s # <<>> => Held[t] # <<>>
    BY DEF Dropped
  <2>2. \A u \in Timers : [Held EXCEPT ![t] = s][u] = IF u = t THEN s ELSE Held[u]
    BY <1>2 DEF Lists
  <2>3. \A u \in Timers : pending'[u] = IF u = t THEN PendingAfterOne(t) ELSE pending[u]
    BY <1>1, <1>2 DEF TypeOK
  <2>4. PendingAfterOne(t) <=> Held[t] # <<>>
    BY <1>1, <1>2 DEF PendingAfterOne
  <2> HIDE DEF s
  <2>5. QED
    BY <1>2, <2>1, <2>2, <2>3, <2>4 DEF FlagsFor, FlagsKept
<1> HIDE DEF s, p, T
<1>8. /\ Inv' /\ Held' = [Held EXCEPT ![t] = s]
      /\ status' = Ended(status, ToSet(Held[t]) \ ToSet(s), "aborted")
  BY <1>1, <1>3, <1>4, <1>5, <1>6, <1>7, AbortStep DEF T
<1>9. QED
  BY <1>1, <1>8 DEF s

\* The cancellation handler ends its wait, if the timer it began on still has it.
LEMMA CancelByKeyStep ==
  ASSUME Inv, NEW o \in Waits, CancelByKey(o)
  PROVE  LET t == o[1]
             s == RemoveFirst(Held[t], o)
         IN  /\ Inv' /\ Held' = [Held EXCEPT ![t] = s]
             /\ status' = Ended(status, ToSet(Held[t]) \ ToSet(s), "aborted")
             /\ UNCHANGED <<now, expiry>>
<1> DEFINE t == o[1]
           s == RemoveFirst(Held[t], o)
           T == TimersOf(QueueOf[t])
           p == CancelTimerByKey(QueueFor(t), t, o)
<1>1. /\ AbortBy(t, p) /\ pending' = pending /\ expiry' = expiry
      /\ UNCHANGED <<now, program, fdVars, reactorVars, shut>>
  BY DEF CancelByKey, implVars
<1>2. t \in Timers
  BY DEF Waits
<1> HIDE DEF t
<1>3. /\ Held \in Lists /\ Held[t] = QueueFor(t).ops[t] /\ Held[t] \in Seq(Waits)
      /\ Sound(T, QueueFor(t), expiry, shut) /\ FlagsKept /\ TypeOK
  BY <1>2, InvIs
<1>4. s \in Seq(Waits) /\ Part(s, Held[t])
  BY <1>3, RemoveFirstIs, PartRemoved
<1>5. Less(T, p, QueueFor(t), expiry, shut, t, s)
  BY <1>2, <1>3, OwnQueue, OwnTimers, KeySound
<1>6. Sound(T, p, expiry', shut') /\ TimesElsewhere(QueueOf[t])
      /\ expiry' \in [Timers -> 0 .. MaxTime] /\ pending' \in [Timers -> BOOLEAN]
  BY <1>1, <1>3, <1>5 DEF Less, TimesElsewhere, TypeOK
<1>7. FlagsFor([Held EXCEPT ![t] = s])
  <2>1. s # <<>> => Held[t] # <<>>
    BY DEF RemoveFirst
  <2>2. \A u \in Timers : [Held EXCEPT ![t] = s][u] = IF u = t THEN s ELSE Held[u]
    BY <1>3 DEF Lists
  <2> HIDE DEF s
  <2>3. QED
    BY <1>1, <1>2, <1>3, <2>1, <2>2 DEF FlagsFor, FlagsKept
<1> HIDE DEF s, p, T
<1>8. /\ Inv' /\ Held' = [Held EXCEPT ![t] = s]
      /\ status' = Ended(status, ToSet(Held[t]) \ ToSet(s), "aborted")
  BY <1>1, <1>2, <1>4, <1>5, <1>6, <1>7, AbortStep DEF T
<1>9. QED
  BY <1>1, <1>8 DEF s, t

\* move_assign ends the waits of the target, which takes those of the source.
LEMMA MoveStep ==
  ASSUME Inv, NEW a \in Timers, NEW b \in Timers, Move(a, b)
  PROVE  /\ Inv' /\ Held' = [Held EXCEPT ![a] = Held[b], ![b] = <<>>]
         /\ status' = Ended(status, ToSet(Held[a]), "aborted")
         /\ now' = now /\ expiry' = [expiry EXCEPT ![a] = expiry[b], ![b] = 0]
<1> DEFINE k == QueueOf[a]
           T == TimersOf(k)
           q == QueueFor(a)
           c == CancelTimer(q, a, All(a))
           p == MoveTimer(c, a, b)
           s == <<>>
           u1 == [Held EXCEPT ![a] = s]
           v == [Held EXCEPT ![a] = Held[b], ![b] = <<>>]
           times == [expiry EXCEPT ![a] = expiry[b], ![b] = 0]
<1>1. /\ a # b /\ QueueOf[b] = k /\ AbortBy(a, p) /\ expiry' = times
      /\ pending' = [pending EXCEPT ![a] = pending[b], ![b] = FALSE]
      /\ UNCHANGED <<now, program, fdVars, reactorVars, shut>>
  BY DEF Move
<1>2. /\ TypeOK /\ QueuesSound /\ Kept(Held, status) /\ Once(Held) /\ FlagsKept
      /\ Held \in Lists /\ Held[a] = q.ops[a] /\ Held[b] = q.ops[b]
      /\ Held[a] \in Seq(Waits) /\ Held[b] \in Seq(Waits)
      /\ Sound(T, q, expiry, shut)
  BY <1>1, InvIs DEF QueueFor
<1>3. /\ k \in Queues /\ a \in T /\ b \in T /\ NoTimer \notin T /\ T \subseteq Timers
      /\ q = queue[k]
  BY <1>1, OwnQueue, OwnTimers DEF QueueFor
<1>4. q.ops \in [T -> Seq(Waits)]
  BY <1>2, SoundIs
<1>5. s \in Seq(Waits) /\ Part(s, Held[a]) /\ ToSet(s) = {}
  <2>1. s \in Seq(Waits)
    OBVIOUS
  <2>2. Part(s, Held[a])
    BY <1>2, PartSame
  <2>3. ToSet(s) = {}
    BY <2>1, ToSetIs
  <2>4. QED
    BY <2>1, <2>2, <2>3
<1>6. Less(T, c, q, expiry, shut, a, s)
  <2>1. All(a) = Len(Held[a]) /\ All(a) \in Nat
    BY <1>2 DEF All
  <2>2. Less(T, c, q, expiry, shut, a, Dropped(q.ops[a], All(a)))
    BY <1>2, <1>3, <2>1, CancelSound
  <2>3. Dropped(q.ops[a], All(a)) = s
    BY <1>2, <2>1 DEF Dropped
  <2>4. QED
    BY <2>2, <2>3
<1> HIDE DEF c
<1>7. /\ Sound(T, c, expiry, shut) /\ c.ops = [q.ops EXCEPT ![a] = s]
      /\ NoEarlier(c, q) /\ c.ops[a] = s /\ c.ops[b] = Held[b]
      /\ c.heap # <<>> => c.heap[1].time \in Nat
  <2>1. /\ Sound(T, c, expiry, shut) /\ c.ops = [q.ops EXCEPT ![a] = s]
        /\ NoEarlier(c, q)
    BY <1>6 DEF Less
  <2>2. c.ops[a] = s /\ c.ops[b] = Held[b]
    BY <1>1, <1>2, <1>3, <1>4, <2>1
  <2>3. c.heap # <<>> => c.heap[1].time \in Nat
    BY <2>1, SoundIs
  <2>4. QED
    BY <2>1, <2>2, <2>3
<1>8. /\ expiry \in [Timers -> Nat] /\ times \in [Timers -> 0 .. MaxTime]
      /\ \A u \in Timers : times[u] = IF u = a THEN expiry[b]
                                     ELSE IF u = b THEN 0 ELSE expiry[u]
  <2>1. MaxTime \in Nat
    BY TimerAssumption
  <2>2. 0 .. MaxTime \subseteq Nat /\ 0 \in 0 .. MaxTime
    BY <2>1
  <2>3. expiry \in [Timers -> 0 .. MaxTime]
    BY <1>2 DEF TypeOK
  <2>4. \A u \in Timers : times[u] = IF u = a THEN expiry[b]
                                    ELSE IF u = b THEN 0 ELSE expiry[u]
    BY <1>1, <2>3
  <2>5. times \in [Timers -> 0 .. MaxTime]
    BY <2>2, <2>3
  <2>6. expiry \in [Timers -> Nat]
    BY <2>2, <2>3
  <2>7. QED
    BY <2>4, <2>5, <2>6
<1>9. /\ Sound(T, p, times, shut) /\ p.ops = [c.ops EXCEPT ![a] = c.ops[b], ![b] = <<>>]
      /\ NoEarlier(p, c)
  <2>1. /\ Sound(T, c, expiry, shut) /\ c.ops[a] = <<>> /\ a # b /\ a \in T /\ b \in T
        /\ NoTimer \notin T /\ T \subseteq Timers /\ expiry \in [Timers -> Nat]
    BY <1>1, <1>3, <1>7, <1>8
  <2> HIDE DEF T
  <2>2. /\ Sound(T, MoveTimer(c, a, b), [expiry EXCEPT ![a] = expiry[b], ![b] = 0], shut)
        /\ MoveTimer(c, a, b).ops = [c.ops EXCEPT ![a] = c.ops[b], ![b] = <<>>]
        /\ NoEarlier(MoveTimer(c, a, b), c)
    BY <2>1, MoveSound, ZenonT(60)
  <2>3. QED
    BY <2>2
<1> HIDE DEF p, times
<1>10. NoEarlier(p, q)
  <2>1. p.heap # <<>> => p.heap[1].time \in Nat
    BY <1>9, SoundIs
  <2>2. q.heap # <<>> => q.heap[1].time \in Nat
    BY <1>2, SoundIs
  <2>3. QED
    BY <1>7, <1>9, <2>1, <2>2 DEF NoEarlier
<1>11. \A u \in T : p.ops[u] = IF u = a THEN Held[b] ELSE IF u = b THEN s ELSE q.ops[u]
  BY <1>1, <1>3, <1>4, <1>7, <1>9
<1>12. p.ops \in [T -> Seq(Waits)] /\ c.ops \in [T -> Seq(Waits)]
  BY <1>7, <1>9, SoundIs
<1>13. WaitingIn(q) \ WaitingIn(p) = ToSet(Held[a])
  <2>1. WaitingIn(q) \ WaitingIn(c) = ToSet(Held[a]) \ ToSet(s)
    BY <1>2, <1>5, <1>7, LeftIs
  <2>2. ASSUME NEW o PROVE o \in WaitingIn(p) <=> o \in WaitingIn(c)
    <3>1. o \in WaitingIn(p) <=> \E u \in T : o \in ToSet(p.ops[u])
      BY <1>12, WaitingInIs
    <3>2. o \in WaitingIn(c) <=> \E u \in T : o \in ToSet(c.ops[u])
      BY <1>12, WaitingInIs
    <3>3. \A u \in T : c.ops[u] = IF u = a THEN s ELSE q.ops[u]
      BY <1>3, <1>4, <1>7
    <3> HIDE DEF s, T
    <3>4. ASSUME NEW u \in T, o \in ToSet(p.ops[u]) PROVE \E x \in T : o \in ToSet(c.ops[x])
      <4>1. CASE u = a
        BY <1>3, <1>7, <1>11, <3>4, <4>1
      <4>2. CASE u # a
        BY <1>5, <1>11, <3>3, <3>4, <4>2
      <4>3. QED
        BY <4>1, <4>2
    <3>5. ASSUME NEW u \in T, o \in ToSet(c.ops[u]) PROVE \E x \in T : o \in ToSet(p.ops[x])
      <4>1. CASE u = b
        BY <1>3, <1>7, <1>11, <3>5, <4>1
      <4>2. CASE u # b
        BY <1>5, <1>11, <3>3, <3>5, <4>2
      <4>3. QED
        BY <4>1, <4>2
    <3>6. QED
      BY <3>1, <3>2, <3>4, <3>5
  <2>3. QED
    BY <1>5, <2>1, <2>2
<1>14. queue' = [queue EXCEPT ![k] = p]
       /\ status' = Ended(status, ToSet(Held[a]), "aborted")
  BY <1>1, <1>13 DEF AbortBy, Complete, Ended
<1>15. status' \in [Waits -> Results]
  BY <1>2, <1>14 DEF TypeOK, Ended, Results
<1>16. /\ v \in Lists
       /\ \A u \in Timers :
            v[u] = IF u = a THEN Held[b] ELSE IF u = b THEN <<>> ELSE Held[u]
  BY <1>1, <1>2, <1>5 DEF Lists
<1>17. Kept(v, status')
  <2>1. u1 \in Lists /\ Kept(u1, Ended(status, ToSet(Held[a]) \ ToSet(s), "aborted"))
    BY <1>2, <1>5, KeptLess
  <2>2. ToSet(Held[a]) \ ToSet(s) = ToSet(Held[a])
    BY <1>5
  <2>3. Kept(u1, status') /\ u1[a] = <<>> /\ u1[b] = Held[b]
    BY <1>1, <1>2, <1>14, <2>1, <2>2 DEF Lists
  <2> DEFINE x == [u1 EXCEPT ![a] = u1[b], ![b] = <<>>]
  <2>4. Kept(x, status')
    BY <1>1, <2>1, <2>3, KeptMoved
  <2>5. x = v
    BY <1>1, <1>2, <2>3 DEF Lists
  <2> HIDE DEF x, v
  <2>6. QED
    BY <2>4, <2>5
<1>18. HeldAfter(k, p, v)
  <2>1. ASSUME NEW u \in Timers
        PROVE  v[u] = IF QueueOf[u] = k THEN p.ops[u] ELSE Held[u]
    <3>1. QueueOf[u] = k => u \in T /\ Held[u] = q.ops[u]
      BY <1>3, InvIs DEF TimersOf, QueueFor
    <3> HIDE DEF v, T, q
    <3>2. QED
      BY <1>1, <1>11, <1>16, <3>1
  <2> HIDE DEF v, k
  <2>2. QED
    BY <1>16, <2>1 DEF HeldAfter
<1>19. FlagsFor(v) /\ pending' \in [Timers -> BOOLEAN]
  <2>1. pending' \in [Timers -> BOOLEAN]
    BY <1>1, <1>2 DEF TypeOK
  <2>2. \A u \in Timers :
          pending'[u] = IF u = a THEN pending[b] ELSE IF u = b THEN FALSE ELSE pending[u]
    BY <1>1, <1>2 DEF TypeOK
  <2>3. ASSUME NEW u \in Timers, v[u] # <<>> PROVE pending'[u]
    BY <1>1, <1>2, <1>16, <2>2, <2>3 DEF FlagsKept
  <2> HIDE DEF v
  <2>4. QED
    BY <2>1, <2>3 DEF FlagsFor
<1>20. TimesElsewhere(k)
  <2>1. \A u \in Timers : u # a /\ u # b => expiry'[u] = expiry[u]
    BY <1>1, <1>8
  <2>2. QED
    BY <1>1, <2>1 DEF TimesElsewhere
<1>21. Sound(T, p, expiry', shut')
  BY <1>1, <1>9
<1>22. expiry' \in [Timers -> 0 .. MaxTime] /\ NoEarlier(p, queue[k])
  BY <1>1, <1>3, <1>8, <1>10
<1> HIDE DEF v, k, q
<1>23. Inv' /\ Held' = v
  BY <1>1, <1>3, <1>14, <1>15, <1>17, <1>18, <1>19, <1>20, <1>21, <1>22, InvOfOne DEF T
<1>24. QED
  BY <1>1, <1>14, <1>23 DEF v, times

----------------------------------------------------------------------------
(* The other steps *)

\* A wait that begins is new.
LEMMA NextWaitIs ==
  ASSUME TypeOK, NEW t \in Timers, CanBegin(t)
  PROVE  /\ NextWait(t) \in Waits /\ NextWait(t)[1] = t
         /\ status[NextWait(t)] = "new"
<1> DEFINE S == NewWaits(t)
<1>1. /\ S \subseteq Nat /\ S # {}
      /\ \A k \in S : k \in 1 .. program.waits[t]
      /\ \A k \in S : status[<<t, k>>] = "new"
  BY DEF CanBegin, NewWaits
<1>2. program.waits[t] \in 0 .. MaxWaits /\ MaxWaits \in Nat
  BY TimerAssumption DEF TypeOK
<1> HIDE DEF S
<1>3. Min(S) \in S
  BY <1>1, MinIs
<1>4. Min(S) \in 1 .. program.waits[t]
  BY <1>1, <1>3
<1>5. Min(S) \in 1 .. MaxWaits
  BY <1>2, <1>4
<1>6. NextWait(t) = <<t, Min(S)>>
  BY DEF NextWait, S
<1>7. QED
  BY <1>1, <1>3, <1>5, <1>6 DEF Waits

\* async_wait() adds a wait, and tells the reactor when it must: it need not
\* when something else comes first.
LEMMA AsyncWaitStep ==
  ASSUME Inv, NEW t \in Timers, AsyncWait(t)
  PROVE  /\ Inv' /\ UNCHANGED <<now, expiry>>
         /\ \E o \in Waits : /\ status[o] = "new"
                             /\ status' = [status EXCEPT ![o] = "waiting"]
                             /\ Held' = [Held EXCEPT ![t] = Append(Held[t], o)]
<1> DEFINE o == NextWait(t)
           k == QueueOf[t]
           T == TimersOf(k)
           q == EnqueueTimer(QueueFor(t), expiry[t], t, o)
           v == [Held EXCEPT ![t] = Append(Held[t], o)]
<1>1. /\ CanBegin(t) /\ ~shut /\ pending' = [pending EXCEPT ![t] = TRUE]
      /\ queue' = [queue EXCEPT ![k] = q]
      /\ status' = [status EXCEPT ![o] = "waiting"]
      /\ Tells(q, t, o) => UpdateTimeout(queue')
      /\ ~Tells(q, t, o) => UNCHANGED fdVars
      /\ UNCHANGED <<now, program, expiry, reactorVars, shut>>
  BY DEF AsyncWait
<1>2. /\ TypeOK /\ QueuesSound /\ Kept(Held, status) /\ FlagsKept /\ DownIsIdle
      /\ Held \in Lists /\ Held[t] = QueueFor(t).ops[t]
      /\ Sound(T, QueueFor(t), expiry, shut)
  BY InvIs
<1>3. o \in Waits /\ status[o] = "new"
  BY <1>1, <1>2, NextWaitIs
<1> HIDE DEF o
<1>4. k \in Queues /\ t \in T /\ NoTimer \notin T /\ QueueFor(t) = queue[k]
      /\ expiry[t] \in Nat
  <2>1. expiry[t] \in 0 .. MaxTime /\ MaxTime \in Nat
    BY <1>2, TimerAssumption DEF TypeOK
  <2>2. QED
    BY <2>1, OwnQueue, OwnTimers DEF QueueFor
<1>5. GoodQueue(T, QueueFor(t), expiry)
  BY <1>1, <1>2 DEF Sound
<1>6. /\ GoodQueue(T, q, expiry)
      /\ q.ops = [QueueFor(t).ops EXCEPT ![t] = Append(QueueFor(t).ops[t], o)]
      /\ ~IsEarliest(q, t, o) => NoEarlier(q, QueueFor(t))
  BY <1>3, <1>4, <1>5, EnqueueIs
<1> HIDE DEF q
<1>7. Sound(T, q, expiry', shut') /\ shut' = shut /\ TimesElsewhere(k)
  BY <1>1, <1>6 DEF Sound, TimesElsewhere
<1>8. /\ queue' \in [Queues -> AllQueues] /\ QueuesSound'
      /\ queue'[k] = q /\ \A j \in Queues : j # k => queue'[j] = queue[j]
      /\ \A u \in Timers : Held'[u] = IF QueueOf[u] = k THEN q.ops[u] ELSE Held[u]
  BY <1>1, <1>2, <1>4, <1>7, OneQueue
<1>9. v \in Lists /\ Kept(v, status')
  <2>1. status \in [Waits -> Results]
    BY <1>2 DEF TypeOK
  <2>2. QED
    BY <1>1, <1>2, <1>3, <2>1, KeptMore
<1>10. Held' = v
  <2>1. Held' = [u \in Timers |-> Held'[u]]
    BY DEF Held
  <2>2. ASSUME NEW u \in Timers PROVE Held'[u] = v[u]
    <3>1. v[u] = IF u = t THEN Append(Held[t], o) ELSE Held[u]
      BY <1>2 DEF Lists
    <3>2. QueueOf[u] = k => u \in T /\ Held[u] = queue[k].ops[u]
      BY <1>2, QueuesAre DEF TimersOf
    <3>3. QueueFor(t).ops \in [T -> Seq(Waits)]
      BY <1>2, SoundIs
    <3>4. QED
      BY <1>2, <1>4, <1>6, <1>8, <3>1, <3>2, <3>3
  <2>3. v = [u \in Timers |-> v[u]]
    BY <1>9 DEF Lists
  <2>4. QED
    BY <2>1, <2>2, <2>3
<1>11. Kept(Held, status)'
  BY <1>9, <1>10
<1>12. FlagsKept'
  <2>1. \A u \in Timers : pending'[u] = IF u = t THEN TRUE ELSE pending[u]
    BY <1>1, <1>2 DEF TypeOK
  <2>2. \A u \in Timers : u # t => Held'[u] = Held[u]
    BY <1>2, <1>10 DEF Lists
  <2>3. QED
    BY <1>2, <2>1, <2>2 DEF FlagsKept
<1>13. \A j \in Queues : queue'[j].heap # <<>> => queue'[j].heap[1].time \in Nat
  <2>1. ASSUME NEW j \in Queues
        PROVE  queue'[j].heap # <<>> => queue'[j].heap[1].time \in Nat
    <3>1. Sound(TimersOf(j), queue'[j], expiry', shut')
      BY <1>8 DEF QueuesSound
    <3>2. QED
      BY <3>1, SoundIs
  <2>2. QED
    BY <2>1
<1>14. now \in Nat /\ now' = now /\ reactor' = reactor /\ until' = until
  BY <1>1, <1>2 DEF TypeOK, reactorVars
<1>15. /\ timerFd' = timerFd /\ armed' \in Nat \cup {Never} /\ interrupted' \in BOOLEAN
       /\ AlarmKept'
  <2>1. CASE Tells(q, t, o)
    <3> DEFINE d == TimeoutAt(queue')
    <3>1. /\ timerFd' = timerFd /\ interrupted' = (interrupted \/ ~timerFd)
          /\ armed' = IF timerFd THEN d ELSE armed
      BY <1>1, <2>1 DEF UpdateTimeout
    <3>2. /\ d \in Nat /\ d # Never
          /\ \A j \in Queues : queue'[j].heap # <<>> => By(d, queue'[j].heap[1].time)
      BY <1>13, <1>14, TimeoutIs
    <3>3. timerFd \in BOOLEAN /\ interrupted \in BOOLEAN /\ armed \in Nat \cup {Never}
      BY <1>2 DEF TypeOK
    <3> HIDE DEF d
    <3>4. ASSUME NEW j \in Queues, NEW e, queue'[j].heap # <<>>,
                 e = queue'[j].heap[1].time
          PROVE  Alarmed(e)'
      <4>1. By(d, e)
        BY <3>2, <3>4
      <4>2. d # Never /\ (d <= e \/ d <= now')
        BY <1>14, <4>1 DEF By
      <4>3. CASE timerFd
        BY <3>1, <4>2, <4>3 DEF Alarmed, By
      <4>4. CASE ~timerFd
        BY <3>1, <4>4 DEF Alarmed
      <4>5. QED
        BY <3>3, <4>3, <4>4
    <3>5. AlarmKept'
      BY <3>4 DEF AlarmKept, Alarmed, By
    <3>6. QED
      BY <3>1, <3>2, <3>3, <3>5
  <2>2. CASE ~Tells(q, t, o)
    <3>1. timerFd' = timerFd /\ armed' = armed /\ interrupted' = interrupted
      BY <1>1, <2>2 DEF fdVars
    <3>2. NoEarlier(q, queue[k])
      BY <1>4, <1>6, <2>2 DEF Tells
    <3>3. \A j \in Queues : NoEarlier(queue'[j], queue[j])
      BY <1>2, <1>8, <3>2, NoEarlierSame
    <3>4. now' \in Nat /\ now <= now'
      BY <1>14
    <3>5. AlarmKept'
      BY <1>13, <1>14, <3>1, <3>3, <3>4, AlarmStays
    <3>6. QED
      BY <1>2, <3>1, <3>5 DEF TypeOK
  <2>3. QED
    BY <2>1, <2>2
<1>16. TypeOK'
  <2>1. status' \in [Waits -> Results] /\ pending' \in [Timers -> BOOLEAN]
    BY <1>1, <1>2, <1>3 DEF TypeOK, Results
  <2>2. QED
    BY <1>1, <1>2, <1>8, <1>15, <2>1 DEF TypeOK, reactorVars
<1>17. DownIsIdle'
  BY <1>1, <1>7 DEF DownIsIdle
<1>18. Inv'
  BY <1>8, <1>11, <1>12, <1>15, <1>16, <1>17 DEF Inv
<1>19. QED
  BY <1>1, <1>3, <1>10, <1>18

\* Nothing but status and pending, or the clock, or what the reactor does.
LEMMA HeldSame ==
  ASSUME queue' = queue PROVE Held' = Held
BY DEF Held, QueueFor

\* Steps that leave the queues alone.
LEMMA SameQueues ==
  ASSUME Inv, UNCHANGED <<queue, expiry, shut>>
  PROVE  /\ QueuesSound' /\ Held' = Held /\ queue' \in [Queues -> AllQueues]
         /\ \A k \in Queues : NoEarlier(queue'[k], queue[k])
         /\ \A k \in Queues : queue'[k].heap # <<>> => queue'[k].heap[1].time \in Nat
<1>1. TypeOK /\ QueuesSound
  BY InvIs
<1>2. QueuesSound' /\ Held' = Held
  BY <1>1, HeldSame DEF QueuesSound
<1>3. \A k \in Queues : queue[k].heap # <<>> => queue[k].heap[1].time \in Nat
  BY <1>1, QueuesAre
<1>4. QED
  BY <1>1, <1>2, <1>3, NoEarlierSame DEF TypeOK

\* After the shutdown no timer has waits, nor gets any.
LEMMA RefusedStep ==
  ASSUME Inv, NEW t \in Timers, AsyncWaitAfterShutdown(t)
  PROVE  /\ Inv' /\ UNCHANGED <<now, expiry>> /\ Held' = Held
         /\ \A s \in Timers : Held[s] = <<>>
         /\ \E o \in Waits : /\ status[o] = "new"
                             /\ status' = [status EXCEPT ![o] = "destroyed"]
<1> DEFINE o == NextWait(t)
<1>1. /\ CanBegin(t) /\ shut /\ pending' = [pending EXCEPT ![t] = TRUE]
      /\ Complete({o}, "destroyed")
      /\ UNCHANGED <<now, program, queue, expiry, fdVars, reactorVars, shut>>
  BY DEF AsyncWaitAfterShutdown
<1>2. TypeOK /\ Kept(Held, status) /\ FlagsKept /\ AlarmKept /\ DownIsIdle
      /\ Held \in Lists
  BY InvIs
<1>3. o \in Waits /\ status[o] = "new"
  BY <1>1, <1>2, NextWaitIs
<1> HIDE DEF o
<1>4. status' = [status EXCEPT ![o] = "destroyed"]
  BY <1>1, <1>2 DEF Complete, TypeOK
<1>5. \A s \in Timers : Held[s] = <<>>
  <2>1. TAKE s \in Timers
  <2>2. Quiet(TimersOf(QueueOf[s]), QueueFor(s)) /\ Held[s] = QueueFor(s).ops[s]
    BY <1>1, InvIs DEF Sound
  <2>3. QED
    BY <2>2, OwnQueue DEF Quiet
<1>6. /\ QueuesSound' /\ Held' = Held /\ queue' \in [Queues -> AllQueues]
      /\ \A k \in Queues : NoEarlier(queue'[k], queue[k])
      /\ \A k \in Queues : queue'[k].heap # <<>> => queue'[k].heap[1].time \in Nat
  <2>1. UNCHANGED <<queue, expiry, shut>>
    BY <1>1
  <2>2. QED
    BY <2>1, SameQueues
<1>7. TypeOK'
  <2>1. status' \in [Waits -> Results] /\ pending' \in [Timers -> BOOLEAN]
    BY <1>1, <1>2, <1>4 DEF TypeOK, Results
  <2>2. QED
    BY <1>1, <1>2, <1>6, <2>1 DEF TypeOK, fdVars, reactorVars
<1>8. Kept(Held, status)'
  <2>1. \A x \in Waits : status'[x] = IF x = o THEN "destroyed" ELSE status[x]
    BY <1>2, <1>4 DEF TypeOK
  <2>2. QED
    BY <1>2, <1>3, <1>6, <2>1 DEF Kept
<1>9. FlagsKept' /\ DownIsIdle'
  BY <1>1, <1>2, <1>5, <1>6 DEF FlagsKept, DownIsIdle, reactorVars
<1>10. AlarmKept'
  <2>1. /\ now' \in Nat /\ now <= now'
        /\ UNCHANGED <<timerFd, armed, interrupted, reactor, until>>
    BY <1>1, <1>2 DEF TypeOK, fdVars, reactorVars
  <2>2. QED
    BY <1>6, <2>1, AlarmStays
<1>11. QED
  BY <1>1, <1>3, <1>4, <1>5, <1>6, <1>7, <1>8, <1>9, <1>10 DEF Inv

\* Time passes, and the alarm was not too late before.
LEMMA TickStep ==
  ASSUME Inv, Tick
  PROVE  Inv' /\ now' = now + 1 /\ UNCHANGED <<expiry, status>> /\ Held' = Held
<1>1. /\ now' = now + 1 /\ UNCHANGED <<queue, expiry, shut>>
      /\ UNCHANGED <<program, implVars, fdVars, reactorVars, status>>
  BY DEF Tick, implVars
<1>2. TypeOK /\ Kept(Held, status) /\ FlagsKept /\ DownIsIdle
  BY InvIs
<1>3. now' \in Nat /\ now <= now'
  BY <1>1, <1>2 DEF TypeOK
<1>4. /\ QueuesSound' /\ Held' = Held /\ queue' \in [Queues -> AllQueues]
      /\ \A k \in Queues : NoEarlier(queue'[k], queue[k])
      /\ \A k \in Queues : queue'[k].heap # <<>> => queue'[k].heap[1].time \in Nat
  BY <1>1, SameQueues
<1>5. AlarmKept'
  <2>1. UNCHANGED <<timerFd, armed, interrupted, reactor, until>>
    BY <1>1 DEF fdVars, reactorVars
  <2>2. QED
    BY <1>3, <1>4, <2>1, AlarmStays
<1>6. TypeOK'
  BY <1>1, <1>2, <1>3, <1>4 DEF TypeOK, implVars, fdVars, reactorVars
<1>7. Kept(Held, status)' /\ FlagsKept' /\ DownIsIdle'
  BY <1>1, <1>2, <1>4 DEF FlagsKept, DownIsIdle, implVars, reactorVars
<1>8. QED
  BY <1>1, <1>4, <1>5, <1>6, <1>7 DEF Inv

\* What only the reactor and its descriptors take part in.
ReactorTypes ==
  /\ armed \in Nat \cup {Never} /\ interrupted \in BOOLEAN
  /\ reactor \in {"idle", "blocked", "check"} /\ until \in Nat \cup {Never}

Unseen == UNCHANGED <<now, expiry, status>> /\ Held' = Held

\* Such steps keep the invariant with what they establish of the alarm.
LEMMA ReactorOnly ==
  ASSUME Inv, ReactorTypes', AlarmKept', DownIsIdle',
         UNCHANGED <<now, program, queue, implVars, timerFd, status, shut>>
  PROVE  Inv' /\ Unseen
<1>1. /\ UNCHANGED <<queue, expiry, shut>>
      /\ UNCHANGED <<now, program, pending, timerFd, status>>
  BY DEF implVars
<1>2. TypeOK /\ Kept(Held, status) /\ FlagsKept
  BY InvIs
<1>3. QueuesSound' /\ Held' = Held /\ queue' \in [Queues -> AllQueues]
  BY <1>1, SameQueues
<1>4. TypeOK'
  BY <1>1, <1>2, <1>3 DEF TypeOK, ReactorTypes
<1>5. Kept(Held, status)' /\ FlagsKept'
  BY <1>1, <1>2, <1>3 DEF FlagsKept
<1>6. QED
  BY <1>1, <1>3, <1>4, <1>5 DEF Inv, Unseen

\* The alarm is set for the first timer of each queue.
LEMMA AlarmedNow ==
  ASSUME Inv, NEW k \in Queues, queue[k].heap # <<>>
  PROVE  Alarmed(queue[k].heap[1].time) /\ queue[k].heap[1].time \in Nat
BY InvIs, QueuesAre DEF AlarmKept

\* epoll_wait is called with a timeout, when there is no descriptor, that is not
\* too late.
LEMMA EpollWaitStep ==
  ASSUME Inv, NEW block \in BOOLEAN, EpollWait(block) PROVE Inv' /\ Unseen
<1>1. /\ reactor = "idle" /\ ~shut /\ reactor' = "blocked"
      /\ until' = IF ~block THEN now
                  ELSE IF timerFd THEN Never ELSE TimeoutAt(queue)
      /\ UNCHANGED <<now, program, queue, implVars, timerFd, status, shut>>
      /\ armed' = armed /\ interrupted' = interrupted
  BY DEF EpollWait, fdVars
<1>2. TypeOK /\ QueuesSound /\ now \in Nat /\ Never \notin Nat /\ now' = now
      /\ timerFd' = timerFd /\ queue' = queue /\ shut' = shut
  BY <1>1, InvIs, TimerAssumption DEF TypeOK
<1>3. /\ TimeoutAt(queue) \in Nat /\ TimeoutAt(queue) # Never
      /\ \A k \in Queues :
           queue[k].heap # <<>> => By(TimeoutAt(queue), queue[k].heap[1].time)
  BY <1>2, QueuesAre, TimeoutIs
<1>4. ReactorTypes'
  BY <1>1, <1>2, <1>3 DEF ReactorTypes, TypeOK
<1>5. AlarmKept'
  <2>1. ASSUME NEW k \in Queues, NEW e, queue[k].heap # <<>>, e = queue[k].heap[1].time
        PROVE  Alarmed(e)'
    <3>1. Alarmed(e) /\ By(TimeoutAt(queue), e)
      BY <1>3, <2>1, AlarmedNow
    <3>2. CASE timerFd
      <4>1. By(armed, e)
        BY <1>1, <3>1, <3>2 DEF Alarmed
      <4>2. QED
        BY <1>1, <1>2, <3>2, <4>1 DEF Alarmed, By
    <3>3. CASE ~timerFd
      <4>1. until' # Never /\ (until' <= e \/ until' <= now)
        BY <1>1, <1>2, <3>1, <3>3 DEF By
      <4>2. QED
        BY <1>2, <3>3, <4>1 DEF Alarmed, By
    <3>4. QED
      BY <3>2, <3>3
  <2>2. QED
    BY <1>2, <2>1 DEF AlarmKept, Alarmed, By
<1>6. DownIsIdle'
  BY <1>1, <1>2 DEF DownIsIdle
<1>7. QED
  BY <1>1, <1>4, <1>5, <1>6, ReactorOnly

\* Only when the timers will be checked does epoll_wait return and forget.
LEMMA ReturnStep ==
  ASSUME Inv, Return PROVE Inv' /\ Unseen
<1>1. /\ reactor = "blocked" /\ until' = Never /\ interrupted' = FALSE
      /\ reactor' = IF TimerFdReadable \/ ~timerFd THEN "check" ELSE "idle"
      /\ UNCHANGED <<now, program, queue, implVars, timerFd, status, shut>>
      /\ armed' = armed
  BY DEF Return
<1>2. TypeOK /\ DownIsIdle /\ now' = now /\ timerFd' = timerFd /\ queue' = queue
      /\ shut' = shut
  BY <1>1, InvIs
<1>3. ReactorTypes'
  BY <1>1, <1>2 DEF ReactorTypes, TypeOK
<1>4. AlarmKept'
  <2>1. ASSUME NEW k \in Queues, NEW e, queue[k].heap # <<>>, e = queue[k].heap[1].time
        PROVE  Alarmed(e)'
    <3>1. Alarmed(e)
      BY <2>1, AlarmedNow
    <3>2. CASE timerFd /\ ~TimerFdReadable
      <4>1. By(armed, e)
        BY <1>1, <3>1, <3>2 DEF Alarmed
      <4>2. QED
        BY <1>1, <1>2, <3>2, <4>1 DEF Alarmed, By
    <3>3. CASE ~(timerFd /\ ~TimerFdReadable)
      <4>1. reactor' = "check"
        BY <1>1, <3>3
      <4>2. QED
        BY <4>1 DEF Alarmed
    <3>4. QED
      BY <3>2, <3>3
  <2>2. QED
    BY <1>2, <2>1 DEF AlarmKept, Alarmed, By
<1>5. DownIsIdle'
  BY <1>1, <1>2 DEF DownIsIdle
<1>6. QED
  BY <1>1, <1>3, <1>4, <1>5, ReactorOnly

\* After a fork the new descriptor is set, or the interrupter readable.
LEMMA ForkStep ==
  ASSUME Inv, ForkChild PROVE Inv' /\ Unseen
<1>1. /\ reactor = "idle" /\ interrupted' = TRUE
      /\ armed' = IF timerFd THEN TimeoutAt(queue) ELSE Never
      /\ UNCHANGED <<now, program, queue, implVars, timerFd, status, shut>>
      /\ reactor' = reactor /\ until' = until
  BY DEF ForkChild, reactorVars
<1>2. TypeOK /\ QueuesSound /\ now \in Nat /\ now' = now /\ timerFd' = timerFd
      /\ queue' = queue /\ DownIsIdle
  BY <1>1, InvIs DEF TypeOK
<1>3. /\ TimeoutAt(queue) \in Nat /\ TimeoutAt(queue) # Never
      /\ \A k \in Queues :
           queue[k].heap # <<>> => By(TimeoutAt(queue), queue[k].heap[1].time)
  BY <1>2, QueuesAre, TimeoutIs
<1>4. ReactorTypes'
  BY <1>1, <1>2, <1>3 DEF ReactorTypes, TypeOK
<1>5. AlarmKept'
  <2>1. ASSUME NEW k \in Queues, NEW e, queue[k].heap # <<>>, e = queue[k].heap[1].time
        PROVE  Alarmed(e)'
    <3>1. By(TimeoutAt(queue), e)
      BY <1>3, <2>1
    <3>2. CASE timerFd
      BY <1>1, <1>2, <3>1, <3>2 DEF Alarmed, By
    <3>3. CASE ~timerFd
      BY <1>1, <1>2, <3>3 DEF Alarmed
    <3>4. QED
      BY <3>2, <3>3
  <2>2. QED
    BY <1>2, <2>1 DEF AlarmKept, Alarmed, By
<1>6. DownIsIdle'
  BY <1>1, <1>2 DEF DownIsIdle
<1>7. QED
  BY <1>1, <1>4, <1>5, <1>6, ReactorOnly

\* What Drained says of the waits.
DrainedTo(v, w, n) ==
  \A t \in Timers : v[t] = w[t] \/ (v[t] = <<>> /\ w[t] # <<>> /\ expiry[t] <= n)

\* The waits that have left the queues are those of the timers that were
\* emptied.
LEMMA LeftAllIs ==
  ASSUME TypeOK, QueuesSound, Once(Held), Held' \in Lists,
         \A t \in Timers : Held'[t] = queue'[QueueOf[t]].ops[t],
         \A k \in Queues : queue'[k].ops \in [TimersOf(k) -> Seq(Waits)],
         \A t \in Timers : Held'[t] = Held[t] \/ Held'[t] = <<>>
  PROVE  UNION {WaitingIn(queue[k]) \ WaitingIn(queue'[k]) : k \in Queues} =
           UNION {ToSet(Held[t]) : t \in Emptied(Held', Held)}
<1>1. /\ Held \in Lists
      /\ \A t \in Timers : Held[t] = queue[QueueOf[t]].ops[t]
      /\ \A k \in Queues : queue[k].ops \in [TimersOf(k) -> Seq(Waits)]
  BY QueuesAre
<1>2. ASSUME NEW k \in Queues, NEW o
      PROVE  o \in WaitingIn(queue[k]) <=> \E t \in TimersOf(k) : o \in ToSet(Held[t])
  <2>1. o \in WaitingIn(queue[k]) <=> \E t \in TimersOf(k) : o \in ToSet(queue[k].ops[t])
    BY <1>1, WaitingInIs
  <2>2. \A t \in TimersOf(k) : Held[t] = queue[k].ops[t]
    BY <1>1 DEF TimersOf
  <2>3. QED
    BY <2>1, <2>2
<1>3. ASSUME NEW k \in Queues, NEW o
      PROVE  o \in WaitingIn(queue'[k]) <=> \E t \in TimersOf(k) : o \in ToSet(Held'[t])
  <2>1. o \in WaitingIn(queue'[k]) <=> \E t \in TimersOf(k) : o \in ToSet(queue'[k].ops[t])
    BY WaitingInIs
  <2>2. \A t \in TimersOf(k) : Held'[t] = queue'[k].ops[t]
    BY DEF TimersOf
  <2>3. QED
    BY <2>1, <2>2
<1>4. <<>> \in Seq(Waits)
  OBVIOUS
<1>5. ToSet(<<>>) = {}
  BY <1>4, ToSetIs
<1>6. ASSUME NEW o, NEW t \in Timers, Held'[t] # Held[t], o \in ToSet(Held[t])
      PROVE  \E k \in Queues : o \in WaitingIn(queue[k]) /\ o \notin WaitingIn(queue'[k])
  <2> DEFINE k == QueueOf[t]
  <2>1. k \in Queues /\ t \in TimersOf(k) /\ TimersOf(k) \subseteq Timers
    BY OwnQueue, OwnTimers
  <2> HIDE DEF k
  <2>2. o \in WaitingIn(queue[k])
    BY <1>2, <1>6, <2>1
  <2>3. ASSUME NEW u \in TimersOf(k), o \in ToSet(Held'[u]) PROVE FALSE
    <3>1. u \in Timers /\ Held'[u] = Held[u]
      BY <1>5, <2>1, <2>3
    <3>2. u # t /\ o \in ToSet(Held[u])
      BY <1>6, <2>3, <3>1
    <3>3. QED
      BY <1>1, <1>6, <3>1, <3>2, OnceIs
  <2>4. o \notin WaitingIn(queue'[k])
    BY <1>3, <2>1, <2>3
  <2>5. QED
    BY <2>1, <2>2, <2>4
<1>7. ASSUME NEW o, NEW k \in Queues, o \in WaitingIn(queue[k]),
             o \notin WaitingIn(queue'[k])
      PROVE  \E t \in Timers : Held'[t] # Held[t] /\ o \in ToSet(Held[t])
  <2>1. PICK t \in TimersOf(k) : o \in ToSet(Held[t])
    BY <1>2, <1>7
  <2>2. o \notin ToSet(Held'[t])
    BY <1>3, <1>7
  <2>3. QED
    BY <2>1, <2>2, OwnTimers
<1> DEFINE L == UNION {WaitingIn(queue[k]) \ WaitingIn(queue'[k]) : k \in Queues}
           M == UNION {ToSet(Held[t]) : t \in Emptied(Held', Held)}
<1>8. ASSUME NEW o PROVE o \in L <=> o \in M
  <2>1. o \in L <=>
          \E k \in Queues : o \in WaitingIn(queue[k]) /\ o \notin WaitingIn(queue'[k])
    OBVIOUS
  <2>2. o \in M <=> \E t \in Timers : Held'[t] # Held[t] /\ o \in ToSet(Held[t])
    BY DEF Emptied
  <2> HIDE DEF L, M
  <2>3. QED
    BY <1>6, <1>7, <2>1, <2>2
<1> HIDE DEF L, M
<1>9. L = M
  BY <1>8
<1>10. QED
  BY <1>9 DEF L, M

\* Every queue gives up the waits of some timers.
LEMMA DrainStep ==
  ASSUME Inv, queue' = [k \in Queues |-> queue'[k]],
         \A k \in Queues : Sound(TimersOf(k), queue'[k], expiry, shut'),
         NEW n, \A k \in Queues : \A t \in TimersOf(k) :
                  \/ queue'[k].ops[t] = queue[k].ops[t]
                  \/ /\ queue'[k].ops[t] = <<>> /\ queue[k].ops[t] # <<>>
                     /\ expiry[t] <= n,
         UNCHANGED <<now, program, implVars, timerFd>>
  PROVE  /\ QueuesSound' /\ queue' \in [Queues -> AllQueues] /\ Held' \in Lists
         /\ DrainedTo(Held', Held, n) /\ FlagsKept'
         /\ \A k \in Queues : queue'[k].heap # <<>> => queue'[k].heap[1].time \in Nat
         /\ UNION {WaitingIn(queue[k]) \ WaitingIn(queue'[k]) : k \in Queues} =
              UNION {ToSet(Held[t]) : t \in Emptied(Held', Held)}
<1>1. TypeOK /\ QueuesSound /\ Once(Held) /\ FlagsKept /\ Held \in Lists
  BY InvIs
<1>2. QueuesSound'
  BY DEF QueuesSound, implVars
<1>3. ASSUME NEW k \in Queues
      PROVE  /\ queue'[k] \in QueueType(TimersOf(k))
             /\ queue'[k].ops \in [TimersOf(k) -> Seq(Waits)]
             /\ queue'[k].heap # <<>> => queue'[k].heap[1].time \in Nat
  <2>1. Sound(TimersOf(k), queue'[k], expiry, shut')
    OBVIOUS
  <2>2. QED
    BY <2>1, SoundIs
<1>4. queue' \in [Queues -> AllQueues]
  <2>1. \A k \in Queues : queue'[k] \in AllQueues
    BY <1>3 DEF AllQueues
  <2>2. QED
    BY <2>1
<1>5. \A t \in Timers : Held'[t] = queue'[QueueOf[t]].ops[t]
                        /\ Held[t] = queue[QueueOf[t]].ops[t]
  BY DEF Held, QueueFor
<1>6. Held' \in Lists
  <2>1. \A t \in Timers : Held'[t] \in Seq(Waits)
    BY <1>3, <1>5, OwnQueue
  <2>2. Held' = [t \in Timers |-> Held'[t]]
    BY DEF Held
  <2>3. QED
    BY <2>1, <2>2 DEF Lists
<1>7. \A t \in Timers : \/ Held'[t] = Held[t]
                        \/ Held'[t] = <<>> /\ Held[t] # <<>> /\ expiry[t] <= n
  BY <1>5, OwnQueue
<1>8. DrainedTo(Held', Held, n)
  BY <1>7 DEF DrainedTo
<1>9. FlagsKept'
  <2>1. pending' = pending
    BY DEF implVars
  <2>2. QED
    BY <1>1, <1>7, <2>1 DEF FlagsKept
<1>10. UNION {WaitingIn(queue[k]) \ WaitingIn(queue'[k]) : k \in Queues} =
         UNION {ToSet(Held[t]) : t \in Emptied(Held', Held)}
  <2>1. \A t \in Timers : Held'[t] = Held[t] \/ Held'[t] = <<>>
    BY <1>7
  <2>2. \A k \in Queues : queue'[k].ops \in [TimersOf(k) -> Seq(Waits)]
    BY <1>3
  <2>3. \A t \in Timers : Held'[t] = queue'[QueueOf[t]].ops[t]
    BY <1>5
  <2>4. QED
    BY <1>1, <1>6, <2>1, <2>2, <2>3, LeftAllIs
<1>11. QED
  BY <1>2, <1>3, <1>4, <1>6, <1>8, <1>9, <1>10

\* The waits of the timers that were emptied have ended.
DrainedBy(how, n) ==
  /\ Held' \in Lists /\ DrainedTo(Held', Held, n)
  /\ status' = Ended(status, UNION {ToSet(Held[t]) : t \in Emptied(Held', Held)}, how)

\* The waits of the other timers are kept.
LEMMA DrainedKept ==
  ASSUME Inv, NEW n, NEW how \in Results, how # "waiting", DrainedBy(how, n)
  PROVE  Kept(Held, status)' /\ status' \in [Waits -> Results]
<1>1. TypeOK /\ Kept(Held, status) /\ Held \in Lists
  BY InvIs
<1>2. \A t \in Timers : Held'[t] = Held[t] \/ Held'[t] = <<>>
  BY DEF DrainedBy, DrainedTo
<1>3. Held' \in Lists /\
      status' = Ended(status, UNION {ToSet(Held[t]) : t \in Emptied(Held', Held)}, how)
  BY DEF DrainedBy
<1>4. Kept(Held, status)'
  BY <1>1, <1>2, <1>3, KeptDrained
<1>5. status' \in [Waits -> Results]
  <2>1. status \in [Waits -> Results]
    BY <1>1 DEF TypeOK
  <2>2. QED
    BY <1>3, <2>1 DEF Ended
<1>6. QED
  BY <1>4, <1>5

\* The waits that end are those of timers whose time has come; the descriptor is
\* set for those that are left.
LEMMA CheckStep ==
  ASSUME Inv, Check
  PROVE  Inv' /\ DrainedBy("expired", now) /\ UNCHANGED <<now, expiry>>
<1>1. /\ reactor = "check" /\ reactor' = "idle"
      /\ queue' = [k \in Queues |-> GetReadyTimers(queue[k], now)]
      /\ Complete(UNION {WaitingIn(queue[k]) \ WaitingIn(queue'[k]) : k \in Queues},
                  "expired")
      /\ armed' = IF timerFd THEN TimeoutAt(queue') ELSE armed
      /\ UNCHANGED <<now, program, implVars, timerFd, interrupted, until, shut>>
  BY DEF Check
<1>2. TypeOK /\ QueuesSound /\ DownIsIdle /\ now \in Nat /\ now' = now
      /\ timerFd' = timerFd /\ expiry' = expiry /\ shut' = shut
  BY <1>1, InvIs DEF TypeOK, implVars
<1>3. ~shut
  BY <1>1, <1>2 DEF DownIsIdle
<1>4. ASSUME NEW k \in Queues
      PROVE  Drained(TimersOf(k), queue'[k], queue[k], expiry, now)
  <2>1. GoodQueue(TimersOf(k), queue[k], expiry)
    BY <1>2, <1>3 DEF QueuesSound, Sound
  <2>2. Drained(TimersOf(k), GetReadyTimers(queue[k], now), queue[k], expiry, now)
    BY <2>1, OwnTimers, GetReadyIs
  <2>3. queue'[k] = GetReadyTimers(queue[k], now)
    BY <1>1
  <2>4. QED
    BY <2>2, <2>3
<1>5. \A k \in Queues : Sound(TimersOf(k), queue'[k], expiry, shut')
  BY <1>2, <1>3, <1>4 DEF Sound, Drained
<1>6. \A k \in Queues : \A t \in TimersOf(k) :
        \/ queue'[k].ops[t] = queue[k].ops[t]
        \/ /\ queue'[k].ops[t] = <<>> /\ queue[k].ops[t] # <<>>
           /\ expiry[t] <= now
  BY <1>4 DEF Drained
<1>7. /\ QueuesSound' /\ queue' \in [Queues -> AllQueues] /\ Held' \in Lists
      /\ DrainedTo(Held', Held, now) /\ FlagsKept'
      /\ \A k \in Queues : queue'[k].heap # <<>> => queue'[k].heap[1].time \in Nat
      /\ UNION {WaitingIn(queue[k]) \ WaitingIn(queue'[k]) : k \in Queues} =
           UNION {ToSet(Held[t]) : t \in Emptied(Held', Held)}
  <2>1. queue' = [k \in Queues |-> queue'[k]]
    BY <1>1
  <2>2. UNCHANGED <<now, program, implVars, timerFd>>
    BY <1>1
  <2>3. QED
    BY <1>5, <1>6, <2>1, <2>2, DrainStep
<1>8. DrainedBy("expired", now)
  BY <1>1, <1>7 DEF DrainedBy, Complete, Ended
<1>9. Kept(Held, status)' /\ status' \in [Waits -> Results]
  <2>1. "expired" \in Results /\ "expired" # "waiting"
    BY DEF Results
  <2>2. QED
    BY <1>8, <2>1, DrainedKept
<1>10. /\ TimeoutAt(queue') \in Nat /\ TimeoutAt(queue') # Never
       /\ \A k \in Queues :
            queue'[k].heap # <<>> => By(TimeoutAt(queue'), queue'[k].heap[1].time)
  BY <1>2, <1>7, TimeoutIs
<1>11. TypeOK'
  BY <1>1, <1>2, <1>7, <1>9, <1>10 DEF TypeOK, implVars
<1>12. AlarmKept'
  <2>1. ASSUME NEW k \in Queues, NEW e, queue'[k].heap # <<>>, e = queue'[k].heap[1].time
        PROVE  Alarmed(e)'
    <3>1. By(TimeoutAt(queue'), e)
      BY <1>10, <2>1
    <3>2. CASE timerFd
      BY <1>1, <1>2, <3>1, <3>2 DEF Alarmed, By
    <3>3. CASE ~timerFd
      BY <1>1, <1>2, <3>3 DEF Alarmed
    <3>4. QED
      BY <3>2, <3>3
  <2>2. QED
    BY <2>1 DEF AlarmKept, Alarmed, By
<1>13. DownIsIdle'
  BY <1>1 DEF DownIsIdle
<1>14. QED
  BY <1>2, <1>7, <1>8, <1>9, <1>11, <1>12, <1>13 DEF Inv

\* The shutdown finds every wait.
LEMMA ShutdownStep ==
  ASSUME Inv, Shutdown
  PROVE  /\ Inv' /\ UNCHANGED <<now, expiry>>
         /\ Held' = [t \in Timers |-> <<>>]
         /\ status' = Ended(status, UNION {ToSet(Held[t]) : t \in Timers}, "destroyed")
<1>1. /\ reactor = "idle" /\ shut' = TRUE
      /\ queue' = [k \in Queues |-> GetAllTimers(queue[k])]
      /\ Complete({o \in Waits : status[o] = "waiting"}, "destroyed")
      /\ UNCHANGED <<now, program, implVars, fdVars, reactorVars>>
  BY DEF Shutdown
<1>2. TypeOK /\ QueuesSound /\ Kept(Held, status) /\ FlagsKept /\ Held \in Lists
  BY InvIs
<1>3. ASSUME NEW k \in Queues PROVE Quiet(TimersOf(k), queue'[k])
  <2>1. queue[k] \in QueueType(TimersOf(k))
    BY <1>2, SoundIs DEF QueuesSound
  <2>2. Quiet(TimersOf(k), GetAllTimers(queue[k]))
    BY <2>1, OwnTimers, GetAllIs
  <2>3. queue'[k] = GetAllTimers(queue[k])
    BY <1>1
  <2>4. QED
    BY <2>2, <2>3
<1>4. QueuesSound'
  <2>1. \A k \in Queues : Sound(TimersOf(k), queue'[k], expiry', shut')
    BY <1>1, <1>3 DEF Sound
  <2>2. QED
    BY <2>1 DEF QueuesSound
<1>5. queue' \in [Queues -> AllQueues]
  <2>1. \A k \in Queues : queue'[k] \in AllQueues
    BY <1>3 DEF AllQueues, Quiet
  <2>2. queue' = [k \in Queues |-> queue'[k]]
    BY <1>1
  <2>3. QED
    BY <2>1, <2>2
<1>6. Held' = [t \in Timers |-> <<>>]
  <2>1. ASSUME NEW t \in Timers PROVE Held'[t] = <<>>
    <3>1. Held'[t] = queue'[QueueOf[t]].ops[t]
      BY DEF Held, QueueFor
    <3>2. QED
      BY <1>3, <3>1, OwnQueue DEF Quiet
  <2>2. Held' = [t \in Timers |-> Held'[t]]
    BY DEF Held
  <2>3. QED
    BY <2>1, <2>2
<1>7. ASSUME NEW o \in Waits
      PROVE  status[o] = "waiting" <=> o \in UNION {ToSet(Held[t]) : t \in Timers}
  BY <1>2 DEF Kept, In
<1>8. status' = Ended(status, UNION {ToSet(Held[t]) : t \in Timers}, "destroyed")
  BY <1>1, <1>7 DEF Complete, Ended
<1>9. status' \in [Waits -> Results]
  BY <1>2, <1>8 DEF TypeOK, Ended, Results
<1>10. Kept(Held, status)'
  <2>1. Once(Held)'
    BY <1>6 DEF Once
  <2>2. \A o \in Waits : status'[o] # "waiting"
    BY <1>1 DEF Complete
  <2>3. <<>> \in Seq(Waits)
    OBVIOUS
  <2>4. ToSet(<<>>) = {}
    BY <2>3, ToSetIs
  <2>5. \A o \in Waits : ~In(Held', o)
    BY <1>6, <2>4 DEF In
  <2>6. QED
    BY <2>1, <2>2, <2>5 DEF Kept, In
<1>11. FlagsKept'
  BY <1>6 DEF FlagsKept
<1>12. AlarmKept'
  BY <1>3 DEF AlarmKept, Quiet
<1>13. TypeOK' /\ DownIsIdle'
  BY <1>1, <1>2, <1>5, <1>9 DEF TypeOK, DownIsIdle, implVars, fdVars, reactorVars
<1>14. QED
  BY <1>1, <1>4, <1>6, <1>8, <1>10, <1>11, <1>12, <1>13 DEF Inv, implVars

\* Nothing waits, and there is nothing to wait for.
LEMMA InitInv == Init => Inv /\ Held = [t \in Timers |-> <<>>]
<1> SUFFICES ASSUME Init PROVE Inv /\ Held = [t \in Timers |-> <<>>]
  OBVIOUS
<1>1. /\ now = 0 /\ program \in Programs
      /\ queue = [k \in Queues |-> EmptyQueue(TimersOf(k))]
      /\ expiry \in [Timers -> 0 .. MaxTime] /\ pending = [t \in Timers |-> FALSE]
      /\ timerFd \in program.fds /\ armed = Never /\ interrupted = TRUE
      /\ reactor = "idle" /\ until = Never
      /\ status = [o \in Waits |-> "new"] /\ shut = FALSE
  BY DEF Init
<1>2. timerFd \in BOOLEAN
  BY <1>1, TimerAssumption
<1>3. ASSUME NEW k \in Queues
      PROVE  /\ GoodQueue(TimersOf(k), queue[k], expiry)
             /\ queue[k].heap = <<>> /\ queue[k].ops = [t \in TimersOf(k) |-> <<>>]
  <2>1. GoodQueue(TimersOf(k), EmptyQueue(TimersOf(k)), expiry)
    BY OwnTimers, EmptyIs
  <2>2. queue[k] = EmptyQueue(TimersOf(k))
    BY <1>1
  <2>3. QED
    BY <2>1, <2>2 DEF EmptyQueue
<1>4. QueuesSound
  BY <1>1, <1>3 DEF QueuesSound, Sound
<1>5. queue \in [Queues -> AllQueues]
  <2>1. \A k \in Queues : queue[k] \in AllQueues
    BY <1>3 DEF AllQueues, GoodQueue, GoodHeap
  <2>2. queue = [k \in Queues |-> queue[k]]
    BY <1>1
  <2>3. QED
    BY <2>1, <2>2
<1>6. Held = [t \in Timers |-> <<>>]
  <2>1. ASSUME NEW t \in Timers PROVE Held[t] = <<>>
    <3>1. Held[t] = queue[QueueOf[t]].ops[t]
      BY DEF Held, QueueFor
    <3>2. QED
      BY <1>3, <3>1, OwnQueue
  <2>2. Held = [t \in Timers |-> Held[t]]
    BY DEF Held
  <2>3. QED
    BY <2>1, <2>2
<1>7. TypeOK
  BY <1>1, <1>2, <1>5 DEF TypeOK, Results
<1>8. Kept(Held, status)
  <2>1. Once(Held)
    BY <1>6 DEF Once
  <2>2. <<>> \in Seq(Waits)
    OBVIOUS
  <2>3. ToSet(<<>>) = {}
    BY <2>2, ToSetIs
  <2>4. QED
    BY <1>1, <1>6, <2>1, <2>3 DEF Kept, In
<1>9. FlagsKept /\ DownIsIdle
  BY <1>1, <1>6 DEF FlagsKept, DownIsIdle
<1>10. AlarmKept
  BY <1>3 DEF AlarmKept
<1>11. QED
  BY <1>4, <1>6, <1>7, <1>8, <1>9, <1>10 DEF Inv

----------------------------------------------------------------------------
(* The properties *)

\* What a sound queue says of an entry.
LEMMA QueueHeap ==
  ASSUME NEW T, NEW times, NEW q, GoodQueue(T, q, times), NEW i \in DOMAIN q.heap
  PROVE  /\ q.index[q.heap[i].timer] = i /\ q.ops[q.heap[i].timer] # <<>>
         /\ q.heap[i].time = times[q.heap[i].timer]
         /\ i > 1 => q.heap[i \div 2].time <= q.heap[i].time
<1>1. /\ GoodHeap(T, q) /\ Timed(q, times) /\ \A u \in T : ActiveIs(q, u)
      /\ q \in QueueType(T) /\ Indexed(q) /\ Ordered(q)
  BY DEF GoodQueue, GoodHeap
<1>2. q.heap \in Seq(Entry(T)) /\ Len(q.heap) \in Nat
      /\ \A j \in 1 .. Len(q.heap) : q.heap[j].timer \in T
  BY <1>1, TypeIs
<1>3. i \in 1 .. Len(q.heap) /\ q.heap[i].timer \in T /\ q.heap[i] \in Entries(q)
  BY <1>2 DEF Entries
<1>4. q.index[q.heap[i].timer] = i
  BY <1>1, <1>3 DEF Indexed
<1>5. ActiveIs(q, q.heap[i].timer) /\ i # 0
  BY <1>1, <1>3
<1>6. q.ops[q.heap[i].timer] # <<>>
  BY <1>4, <1>5 DEF ActiveIs
<1>7. q.heap[i].time = times[q.heap[i].timer]
  BY <1>1, <1>3 DEF Timed
<1>8. ASSUME i > 1 PROVE q.heap[i \div 2].time <= q.heap[i].time
  <2>1. i \in 2 .. Len(q.heap)
    BY <1>2, <1>3, <1>8
  <2>2. QED
    BY <1>1, <2>1 DEF Ordered, InOrder
<1>9. QED
  BY <1>4, <1>6, <1>7, <1>8

\* The invariant implies the soundness of the heap.
LEMMA HeapIsSound == Inv => HeapSound
<1> SUFFICES ASSUME Inv, ~shut, NEW k \in Queues
             PROVE  LET h == queue[k].heap
                    IN  /\ \A i \in DOMAIN h :
                             /\ queue[k].index[h[i].timer] = i
                             /\ queue[k].ops[h[i].timer] # <<>>
                             /\ h[i].time = expiry[h[i].timer]
                             /\ i > 1 => h[i \div 2].time <= h[i].time
                        /\ \A t \in TimersOf(k) :
                             queue[k].index[t] # 0 => queue[k].index[t] \in DOMAIN h
  BY DEF HeapSound
<1>1. GoodQueue(TimersOf(k), queue[k], expiry)
  BY InvIs DEF QueuesSound, Sound
<1>2. ASSUME NEW i \in DOMAIN queue[k].heap
      PROVE  /\ queue[k].index[queue[k].heap[i].timer] = i
             /\ queue[k].ops[queue[k].heap[i].timer] # <<>>
             /\ queue[k].heap[i].time = expiry[queue[k].heap[i].timer]
             /\ i > 1 => queue[k].heap[i \div 2].time <= queue[k].heap[i].time
  BY <1>1, QueueHeap
<1>3. ASSUME NEW t \in TimersOf(k), queue[k].index[t] # 0
      PROVE  queue[k].index[t] \in DOMAIN queue[k].heap
  <2>1. queue[k] \in QueueType(TimersOf(k)) /\ Indexed(queue[k])
    BY <1>1 DEF GoodQueue, GoodHeap
  <2>2. /\ DOMAIN queue[k].index = TimersOf(k)
        /\ DOMAIN queue[k].heap = 1 .. Len(queue[k].heap)
    BY <2>1, TypeIs
  <2>3. QED
    BY <1>3, <2>1, <2>2 DEF Indexed
<1>4. QED
  BY <1>2, <1>3

\* The invariant implies the soundness of the list.
LEMMA ListIsSound == Inv => ListSound
<1> SUFFICES ASSUME Inv, NEW k \in Queues
             PROVE  LET Q == queue[k]
                        linked == {t \in TimersOf(k) : IsActive(Q, t)}
                    IN  /\ Q.head # NoTimer => Q.head \in linked /\ Q.prev[Q.head] = NoTimer
                        /\ \A t \in TimersOf(k) :
                             /\ Q.next[t] # NoTimer => Q.prev[Q.next[t]] = t
                             /\ Q.prev[t] # NoTimer => Q.next[Q.prev[t]] = t
                             /\ t \in linked <=> Q.ops[t] # <<>>
                             /\ Q.ops[t] # <<>> =>
                                  t \in {Q.heap[i].timer : i \in DOMAIN Q.heap}
  BY DEF ListSound
<1> DEFINE T == TimersOf(k)
           q == queue[k]
<1>1. Sound(T, q, expiry, shut)
  BY InvIs DEF QueuesSound
<1> HIDE DEF T, q
<1>2. /\ q \in QueueType(T) /\ Linked(T, q)
      /\ \A t \in T : IsActive(q, t) <=> q.ops[t] # <<>>
  BY <1>1, SoundIs
<1>3. PICK r : LinkedBy(T, q, r)
  BY <1>2 DEF Linked
<1>4. NextOK(T, q, r) /\ PrevOK(T, q) /\ HeadOK(q)
  BY <1>3 DEF LinkedBy
<1>5. ASSUME q.head # NoTimer
      PROVE  q.head \in T /\ IsActive(q, q.head) /\ q.prev[q.head] = NoTimer
  BY <1>2, <1>4, <1>5, TypeIs DEF HeadOK, IsActive
<1>6. \A t \in T : /\ q.next[t] # NoTimer => q.prev[q.next[t]] = t
                   /\ q.prev[t] # NoTimer => q.next[q.prev[t]] = t
  BY <1>4 DEF NextOK, PrevOK
<1>7. ASSUME NEW t \in T, q.ops[t] # <<>> PROVE \E i \in DOMAIN q.heap : t = q.heap[i].timer
  <2>1. CASE shut
    BY <1>1, <1>7, <2>1 DEF Sound, Quiet
  <2>2. CASE ~shut
    <3>1. GoodHeap(T, q) /\ ActiveIs(q, t)
      BY <1>1, <2>2 DEF Sound, GoodQueue
    <3>2. q.index[t] # 0
      BY <1>7, <3>1 DEF ActiveIs
    <3>3. \E e \in Entries(q) : e.timer = t
      BY <3>1, <3>2, IndexIs
    <3>4. DOMAIN q.heap = 1 .. Len(q.heap)
      BY <1>2, TypeIs
    <3>5. QED
      BY <3>3, <3>4 DEF Entries
  <2>3. QED
    BY <2>1, <2>2
<1>8. QED
  BY <1>2, <1>5, <1>6, <1>7 DEF T, q

\* The invariant implies that each wait is with one timer.
LEMMA WaitsAreKept == Inv => WaitsKept
<1> SUFFICES ASSUME Inv PROVE WaitsKept
  OBVIOUS
<1>1. Kept(Held, status) /\ Once(Held) /\ FlagsKept /\ Held \in Lists
      /\ \A t \in Timers : Held[t] = QueueFor(t).ops[t]
  BY InvIs
<1>2. ASSUME NEW o \in Waits
      PROVE  Cardinality({t \in Timers : o \in ToSet(QueueFor(t).ops[t])}) =
               IF status[o] = "waiting" THEN 1 ELSE 0
  <2> DEFINE holders == {t \in Timers : o \in ToSet(QueueFor(t).ops[t])}
  <2>1. \A t : t \in holders <=> t \in Timers /\ o \in ToSet(Held[t])
    BY <1>1
  <2>2. status[o] = "waiting" <=> holders # {}
    BY <1>1, <2>1 DEF Kept, In
  <2>3. \A t, s \in holders : t = s
    BY <1>1, <2>1, OnceIs
  <2> HIDE DEF holders
  <2>4. CASE holders = {}
    BY <2>2, <2>4, FS_EmptySet DEF holders
  <2>5. CASE holders # {}
    <3>1. PICK t : holders = {t}
      BY <2>3, <2>5
    <3>2. Cardinality(holders) = 1
      BY <3>1, FS_Singleton
    <3>3. QED
      BY <2>2, <2>5, <3>2 DEF holders
  <2>6. QED
    BY <2>4, <2>5
<1>3. \A t \in Timers : QueueFor(t).ops[t] # <<>> => pending[t]
  BY <1>1 DEF FlagsKept
<1>4. QED
  BY <1>2, <1>3 DEF WaitsKept

\* Max is the later of two times.
LEMMA MaxIs ==
  ASSUME NEW a \in Nat, NEW b \in Nat
  PROVE  \A x \in Nat : x <= Max({a, b}) <=> x <= a \/ x <= b
<1>1. CASE a <= b
  <2>1. \A y \in {a, b} : y <= b
    BY <1>1
  <2>2. Max({a, b}) \in {a, b} /\ \A y \in {a, b} : Max({a, b}) >= y
    BY <2>1 DEF Max
  <2>3. QED
    BY <2>2
<1>2. CASE b <= a
  <2>1. \A y \in {a, b} : y <= a
    BY <1>2
  <2>2. Max({a, b}) \in {a, b} /\ \A y \in {a, b} : Max({a, b}) >= y
    BY <2>1 DEF Max
  <2>3. QED
    BY <2>2
<1>3. QED
  BY <1>1, <1>2

\* The invariant implies that the alarm is set.
LEMMA AlarmIsSet == Inv => AlarmSet
<1> SUFFICES ASSUME Inv, NEW d \in Deadlines
             PROVE  LET due == Max({d, now})
                    IN  \/ reactor = "check"
                        \/ timerFd /\ armed # Never /\ armed <= due
                        \/ /\ ~timerFd
                           /\ \/ reactor = "idle" \/ interrupted
                              \/ until # Never /\ until <= due
  BY DEF AlarmSet
<1>1. PICK k \in Queues : queue[k].heap # <<>> /\ d = queue[k].heap[1].time
  BY DEF Deadlines
<1>2. Alarmed(d) /\ d \in Nat
  BY <1>1, AlarmedNow
<1>3. now \in Nat /\ armed \in Nat \cup {Never} /\ until \in Nat \cup {Never}
  BY InvIs DEF TypeOK
<1> DEFINE due == Max({d, now})
<1>4. ASSUME NEW x \in Nat \cup {Never}, By(x, d) PROVE x # Never /\ x <= due
  <2>1. x \in Nat /\ x # Never /\ (x <= d \/ x <= now)
    BY <1>4 DEF By
  <2>2. QED
    BY <1>2, <1>3, <2>1, MaxIs
<1> HIDE DEF due
<1>5. By(armed, d) => armed # Never /\ armed <= due
  BY <1>3, <1>4
<1>6. By(until, d) => until # Never /\ until <= due
  BY <1>3, <1>4
<1>7. QED
  BY <1>2, <1>5, <1>6 DEF Alarmed, due

----------------------------------------------------------------------------
(* Timers is implemented *)

\* The operators that Timers sees are those that the queues use.
LEMMA SameToSet == \A s : Abstract!ToSet(s) = ToSet(s)
BY DEF ToSet, Abstract!ToSet

\* And RemoveFirst, which takes what SelectInSeq finds.
LEMMA SameRemoveFirst == \A s, e : Abstract!RemoveFirst(s, e) = RemoveFirst(s, e)
BY DEF RemoveFirst, Abstract!RemoveFirst, SelectInSeq, Abstract!SelectInSeq,
       RemoveAt, Abstract!RemoveAt, Min, Abstract!Min

\* The end of some waits, as Timers says it.
LEMMA EndIs ==
  ASSUME NEW L, NEW how, status' = Ended(status, L, how)
  PROVE  Abstract!End(L, how)
BY DEF Abstract!End, Ended

\* The end of all waits of some timers.
LEMMA EndAllIs ==
  ASSUME NEW T, T \subseteq Timers, NEW how,
         status' = Ended(status, UNION {ToSet(Held[t]) : t \in T}, how),
         Held' = [t \in Timers |-> IF t \in T THEN <<>> ELSE Held[t]]
  PROVE  Abstract!EndAll(T, how)
<1>1. UNION {Abstract!ToSet(Held[t]) : t \in T} = UNION {ToSet(Held[t]) : t \in T}
  BY SameToSet
<1>2. Abstract!End(UNION {Abstract!ToSet(Held[t]) : t \in T}, how)
  BY <1>1, EndIs
<1>3. QED
  BY <1>2 DEF Abstract!EndAll, Held

\* Nothing ends when no wait leaves.
LEMMA EndedNone ==
  ASSUME status \in [Waits -> Results], NEW how PROVE Ended(status, {}, how) = status
BY DEF Ended

Stutters == UNCHANGED Abstract!vars

\* What Timers does not see.
LEMMA StuttersIs ==
  ASSUME UNCHANGED <<now, expiry, status>>, Held' = Held PROVE Stutters
BY DEF Stutters, Abstract!vars, Held

\* All waits on a timer end, as Timers says it.
LEMMA ClearedIs ==
  ASSUME Inv, NEW t \in Timers, Cleared(t) PROVE Abstract!EndAll({t}, "aborted")
<1>1. Held \in Lists
  BY InvIs
<1>2. /\ Held' = [Held EXCEPT ![t] = <<>>]
      /\ status' = Ended(status, ToSet(Held[t]), "aborted")
  BY DEF Cleared
<1>3. Held' = [u \in Timers |-> IF u \in {t} THEN <<>> ELSE Held[u]]
  BY <1>1, <1>2 DEF Lists
<1>4. UNION {ToSet(Held[u]) : u \in {t}} = ToSet(Held[t])
  OBVIOUS
<1>5. QED
  BY <1>2, <1>3, <1>4, EndAllIs

\* When there are none, nothing happens.
LEMMA ClearedNone ==
  ASSUME Inv, NEW t \in Timers, Cleared(t), Held[t] = <<>>
  PROVE  Held' = Held /\ status' = status
<1>1. Held \in Lists /\ status \in [Waits -> Results]
  BY InvIs DEF TypeOK
<1>2. <<>> \in Seq(Waits)
  OBVIOUS
<1>3. ToSet(Held[t]) = {}
  BY <1>2, ToSetIs
<1>4. /\ Held' = [Held EXCEPT ![t] = <<>>]
      /\ status' = Ended(status, ToSet(Held[t]), "aborted")
  BY DEF Cleared
<1>5. Held' = Held
  BY <1>1, <1>4 DEF Lists
<1>6. QED
  BY <1>1, <1>3, <1>4, <1>5, EndedNone

\* cancel() is CancelAll, or nothing when no wait is there.
LEMMA CancelMaps ==
  ASSUME Inv, NEW t \in Timers, Cancel(t) PROVE Abstract!CancelAll(t) \/ Stutters
<1>1. Cleared(t) /\ UNCHANGED <<now, expiry>>
  BY CancelStep
<1>2. CASE Held[t] = <<>>
  BY <1>1, <1>2, ClearedNone, StuttersIs
<1>3. CASE Held[t] # <<>>
  <2>1. Abstract!EndAll({t}, "aborted")
    BY <1>1, ClearedIs
  <2>2. QED
    BY <1>1, <1>3, <2>1 DEF Abstract!CancelAll, Held
<1>4. QED
  BY <1>2, <1>3

\* expires_at() is Reset.
LEMMA ResetMaps ==
  ASSUME Inv, NEW t \in Timers, NEW e \in 0 .. MaxTime, ExpiresAt(t, e)
  PROVE  Abstract!Reset(t)
<1>1. Cleared(t) /\ now' = now /\ expiry' = [expiry EXCEPT ![t] = e]
  BY ExpiresAtStep
<1>2. Abstract!EndAll({t}, "aborted")
  BY <1>1, ClearedIs
<1>3. expiry \in [Timers -> 0 .. MaxTime] /\ MaxTime \in Nat
  BY InvIs, TimerAssumption DEF TypeOK
<1>4. expiry'[t] = e /\ e \in Nat
  BY <1>1, <1>3
<1>5. QED
  BY <1>1, <1>2, <1>4 DEF Abstract!Reset

\* async_wait() is Begin.
LEMMA BeginMaps ==
  ASSUME Inv, NEW t \in Timers, AsyncWait(t)
  PROVE  \E o \in Waits : Abstract!Begin(t, o)
<1>1. PICK o \in Waits : /\ status[o] = "new"
                         /\ status' = [status EXCEPT ![o] = "waiting"]
                         /\ Held' = [Held EXCEPT ![t] = Append(Held[t], o)]
                         /\ UNCHANGED <<now, expiry>>
  BY AsyncWaitStep
<1>2. Abstract!Begin(t, o)
  BY <1>1 DEF Abstract!Begin, Held
<1>3. QED
  BY <1>2

\* async_wait() after the shutdown is Refuse.
LEMMA RefuseMaps ==
  ASSUME Inv, NEW t \in Timers, AsyncWaitAfterShutdown(t)
  PROVE  \E o \in Waits : Abstract!Refuse(o)
<1>1. PICK o \in Waits : /\ status[o] = "new"
                         /\ status' = [status EXCEPT ![o] = "destroyed"]
                         /\ Held' = Held /\ UNCHANGED <<now, expiry>>
                         /\ \A s \in Timers : Held[s] = <<>>
  BY RefusedStep
<1>2. Abstract!Refuse(o)
  BY <1>1 DEF Abstract!Refuse, Held
<1>3. QED
  BY <1>2

\* Without its first member, a list of different members has lost that alone.
LEMMA TailIs ==
  ASSUME NEW w \in Lists, Once(w), NEW t \in Timers, w[t] # <<>>
  PROVE  /\ Dropped(w[t], 1) = Tail(w[t])
         /\ ToSet(w[t]) \ ToSet(Dropped(w[t], 1)) = {Head(w[t])}
<1> DEFINE s == w[t]
           r == Dropped(s, 1)
<1>1. s \in Seq(Waits) /\ s # <<>> /\ Len(s) \in Nat /\ Len(s) >= 1 /\ Head(s) = s[1]
  BY DEF Lists
<1>2. \A i, j \in 1 .. Len(s) : s[i] = s[j] => i = j
  BY DEF Once
<1> HIDE DEF s
<1>3. r \in Seq(Waits) /\ Len(r) = Len(s) - 1
      /\ \A i \in 1 .. Len(s) - 1 : r[i] = s[i + 1]
  <2>1. CASE 1 < Len(s)
    <3>1. r \in Seq(Waits) /\ Len(r) = Len(s) - 1
          /\ \A i \in 1 .. Len(s) - 1 : r[i] = s[1 + i]
      BY <1>1, <2>1, DroppedIs
    <3>2. \A i \in 1 .. Len(s) - 1 : 1 + i = i + 1
      OBVIOUS
    <3>3. QED
      BY <3>1, <3>2
  <2>2. CASE ~(1 < Len(s))
    <3> DEFINE n == Len(s)
    <3>1. n \in Nat /\ n >= 1 /\ ~(1 < n)
      BY <1>1, <2>2
    <3> HIDE DEF n
    <3>2. n = 1
      BY <3>1
    <3>3. Len(s) = 1
      BY <3>2 DEF n
    <3>4. r = <<>>
      BY <2>2 DEF Dropped
    <3>5. <<>> \in Seq(Waits) /\ Len(<<>>) = 0
      BY EmptySeq
    <3> HIDE DEF r
    <3>6. QED
      BY <3>3, <3>4, <3>5
  <2>3. QED
    BY <2>1, <2>2
<1> HIDE DEF r
<1>4. r = Tail(s)
  BY <1>1, <1>3
<1>5. \A o : o \in ToSet(s) <=> \E i \in 1 .. Len(s) : s[i] = o
  BY <1>1, ToSetIs
<1>6. \A o : o \in ToSet(r) <=> \E i \in 1 .. Len(r) : r[i] = o
  BY <1>3, ToSetIs
<1>7. s[1] \in ToSet(s) /\ s[1] \notin ToSet(r)
  <2>1. s[1] \in ToSet(s)
    BY <1>1, <1>5
  <2>2. ASSUME NEW i \in 1 .. Len(r), r[i] = s[1] PROVE FALSE
    <3>1. i + 1 \in 1 .. Len(s) /\ 1 \in 1 .. Len(s) /\ s[i + 1] = s[1] /\ i + 1 # 1
      BY <1>1, <1>3, <2>2
    <3>2. QED
      BY <1>2, <3>1
  <2>3. QED
    BY <1>6, <2>1, <2>2
<1>8. ASSUME NEW o \in ToSet(s), o # s[1] PROVE o \in ToSet(r)
  <2>1. PICK i \in 1 .. Len(s) : s[i] = o
    BY <1>5
  <2>2. i - 1 \in 1 .. Len(r) /\ r[i - 1] = o
    <3>1. i - 1 \in 1 .. Len(s) - 1 /\ (i - 1) + 1 = i
      BY <1>1, <1>8, <2>1
    <3>2. QED
      BY <1>3, <2>1, <3>1
  <2>3. QED
    BY <1>6, <2>2
<1>9. ToSet(s) \ ToSet(r) = {Head(s)}
  BY <1>1, <1>7, <1>8
<1>10. QED
  BY <1>4, <1>9 DEF r, s

\* Without o, a list of different members has lost that alone.
LEMMA RemovedIs ==
  ASSUME NEW w \in Lists, Once(w), NEW t \in Timers, NEW o, o \in ToSet(w[t])
  PROVE  ToSet(w[t]) \ ToSet(RemoveFirst(w[t], o)) = {o}
<1> DEFINE s == w[t]
           r == RemoveFirst(s, o)
<1>1. s \in Seq(Waits) /\ Len(s) \in Nat
  BY DEF Lists
<1>2. \A x : x \in ToSet(s) <=> \E i \in 1 .. Len(s) : s[i] = x
  BY <1>1, ToSetIs
<1>3. \A i, j \in 1 .. Len(s) : s[i] = s[j] => i = j
  BY DEF Once
<1>4. o \in ToSet(s)
  OBVIOUS
<1> HIDE DEF s
<1>5. /\ r \in Seq(Waits)
      /\ \/ r = s /\ \A i \in 1 .. Len(s) : s[i] # o
         \/ /\ Len(r) = Len(s) - 1
            /\ \E k \in 1 .. Len(s) :
                 /\ s[k] = o
                 /\ \A i \in 1 .. Len(s) - 1 : r[i] = IF i < k THEN s[i] ELSE s[i + 1]
  BY <1>1, RemoveFirstIs
<1> HIDE DEF r
<1>6. PICK k \in 1 .. Len(s) :
        /\ s[k] = o
        /\ \A i \in 1 .. Len(s) - 1 : r[i] = IF i < k THEN s[i] ELSE s[i + 1]
  BY <1>2, <1>5, <1>4
<1>7. Len(r) = Len(s) - 1
  BY <1>2, <1>5, <1>4
<1>8. \A x : x \in ToSet(r) <=> \E i \in 1 .. Len(r) : r[i] = x
  BY <1>5, ToSetIs
<1>9. o \notin ToSet(r)
  <2>1. ASSUME NEW i \in 1 .. Len(r), r[i] = o PROVE FALSE
    <3>1. CASE i < k
      <4>1. i \in 1 .. Len(s) /\ s[i] = o /\ i # k
        BY <1>1, <1>6, <1>7, <2>1, <3>1
      <4>2. QED
        BY <1>3, <1>6, <4>1
    <3>2. CASE ~(i < k)
      <4>1. i + 1 \in 1 .. Len(s) /\ s[i + 1] = o /\ i + 1 # k
        BY <1>1, <1>6, <1>7, <2>1, <3>2
      <4>2. QED
        BY <1>3, <1>6, <4>1
    <3>3. QED
      BY <3>1, <3>2
  <2>2. QED
    BY <1>8, <2>1
<1>10. ASSUME NEW x \in ToSet(s), x # o PROVE x \in ToSet(r)
  <2>1. PICK i \in 1 .. Len(s) : s[i] = x
    BY <1>2
  <2>2. i # k
    BY <1>6, <1>10, <2>1
  <2>3. CASE i < k
    <3>1. i \in 1 .. Len(r) /\ r[i] = x
      BY <1>1, <1>6, <1>7, <2>1, <2>3
    <3>2. QED
      BY <1>8, <3>1
  <2>4. CASE ~(i < k)
    <3>1. i - 1 \in 1 .. Len(s) - 1 /\ ~(i - 1 < k) /\ (i - 1) + 1 = i
      BY <1>1, <2>1, <2>2, <2>4
    <3>2. i - 1 \in 1 .. Len(r) /\ r[i - 1] = x
      BY <1>6, <1>7, <2>1, <3>1
    <3>3. QED
      BY <1>8, <3>2
  <2>5. QED
    BY <2>3, <2>4
<1>11. ToSet(s) \ ToSet(r) = {o}
  BY <1>4, <1>9, <1>10
<1>12. QED
  BY <1>11 DEF r, s

\* cancel_one() is CancelFirst, or nothing when no wait is there.
LEMMA CancelOneMaps ==
  ASSUME Inv, NEW t \in Timers, CancelOne(t)
  PROVE  Abstract!CancelFirst(t) \/ Stutters
<1> DEFINE s == Dropped(Held[t], 1)
<1>1. /\ Held' = [Held EXCEPT ![t] = s]
      /\ status' = Ended(status, ToSet(Held[t]) \ ToSet(s), "aborted")
      /\ UNCHANGED <<now, expiry>>
  BY CancelOneStep
<1>2. Held \in Lists /\ Once(Held) /\ status \in [Waits -> Results]
  BY InvIs DEF TypeOK
<1>3. CASE Held[t] = <<>>
  <2>1. s = <<>>
    BY <1>3 DEF Dropped
  <2>2. Held' = Held
    BY <1>1, <1>2, <1>3, <2>1 DEF Lists
  <2>3. ToSet(Held[t]) \ ToSet(s) = {}
    BY <1>3, <2>1
  <2>4. status' = status
    BY <1>1, <1>2, <2>3, EndedNone
  <2>5. QED
    BY <1>1, <2>2, <2>4, StuttersIs
<1>4. CASE Held[t] # <<>>
  <2>1. s = Tail(Held[t]) /\ ToSet(Held[t]) \ ToSet(s) = {Head(Held[t])}
    BY <1>2, <1>4, TailIs
  <2> HIDE DEF s
  <2>2. Abstract!End({Head(Held[t])}, "aborted")
    BY <1>1, <2>1, EndIs
  <2>3. Held' = [Held EXCEPT ![t] = Tail(Held[t])]
    BY <1>1, <2>1
  <2>4. QED
    BY <1>1, <1>4, <2>2, <2>3 DEF Abstract!CancelFirst, Held
<1>5. QED
  BY <1>3, <1>4

\* The cancellation handler is CancelWait, or nothing when the wait has ended or
\* moved away.
LEMMA CancelByKeyMaps ==
  ASSUME Inv, NEW o \in Waits, CancelByKey(o)
  PROVE  Abstract!CancelWait(o[1], o) \/ Stutters
<1> DEFINE t == o[1]
           s == RemoveFirst(Held[t], o)
<1>1. /\ Held' = [Held EXCEPT ![t] = s]
      /\ status' = Ended(status, ToSet(Held[t]) \ ToSet(s), "aborted")
      /\ UNCHANGED <<now, expiry>>
  BY CancelByKeyStep
<1>2. Held \in Lists /\ Once(Held) /\ status \in [Waits -> Results]
  BY InvIs DEF TypeOK
<1>3. t \in Timers
  BY DEF Waits
<1> HIDE DEF t
<1>4. Held[t] \in Seq(Waits)
  BY <1>2, <1>3 DEF Lists
<1>5. CASE o \notin ToSet(Held[t])
  <2>1. s = Held[t]
    <3>1. \A i \in 1 .. Len(Held[t]) : Held[t][i] # o
      BY <1>4, <1>5, ToSetIs
    <3>2. QED
      BY <1>4, <3>1, RemoveFirstIs
  <2> HIDE DEF s
  <2>2. Held' = Held
    BY <1>1, <1>2, <1>3, <2>1 DEF Lists
  <2>3. ToSet(Held[t]) \ ToSet(s) = {}
    BY <2>1
  <2>4. status' = status
    BY <1>1, <1>2, <2>3, EndedNone
  <2>5. QED
    BY <1>1, <2>2, <2>4, StuttersIs
<1>6. CASE o \in ToSet(Held[t])
  <2>1. ToSet(Held[t]) \ ToSet(s) = {o}
    BY <1>2, <1>3, <1>6, RemovedIs
  <2>2. Abstract!End({o}, "aborted")
    BY <1>1, <2>1, EndIs
  <2>3. Abstract!RemoveFirst(Held[t], o) = s /\ o \in Abstract!ToSet(Held[t])
    BY <1>6, SameRemoveFirst, SameToSet
  <2> HIDE DEF s
  <2>4. Held' = [Held EXCEPT ![t] = Abstract!RemoveFirst(Held[t], o)]
    BY <1>1, <2>3
  <2>5. Abstract!CancelWait(t, o)
    BY <1>1, <2>2, <2>3, <2>4 DEF Abstract!CancelWait, Held
  <2>6. QED
    BY <2>5 DEF t
<1>7. QED
  BY <1>5, <1>6

\* move_assign is Move.
LEMMA MoveMaps ==
  ASSUME Inv, NEW a \in Timers, NEW b \in Timers, Move(a, b)
  PROVE  Abstract!Move(a, b) /\ a # b
<1>1. /\ Held' = [Held EXCEPT ![a] = Held[b], ![b] = <<>>]
      /\ status' = Ended(status, ToSet(Held[a]), "aborted")
      /\ now' = now /\ expiry' = [expiry EXCEPT ![a] = expiry[b], ![b] = 0]
  BY MoveStep
<1>2. Abstract!End(Abstract!ToSet(Held[a]), "aborted")
  BY <1>1, SameToSet, EndIs
<1>3. a # b
  BY DEF Move
<1>4. QED
  BY <1>1, <1>2, <1>3 DEF Abstract!Move, Held

\* A check is Expire for the timers that it empties, or nothing.
LEMMA CheckMaps ==
  ASSUME Inv, Check
  PROVE  Stutters \/ \E S \in SUBSET Abstract!Due : Abstract!Expire(S)
<1>1. PICK S : S = Emptied(Held', Held)
  OBVIOUS
<1>2. /\ Held' \in Lists /\ DrainedTo(Held', Held, now)
      /\ status' = Ended(status, UNION {ToSet(Held[t]) : t \in S}, "expired")
      /\ UNCHANGED <<now, expiry>>
  BY <1>1, CheckStep DEF DrainedBy
<1>3. Held \in Lists /\ status \in [Waits -> Results]
  BY InvIs DEF TypeOK
<1>4. /\ S \subseteq Timers
      /\ \A t \in Timers : Held'[t] = IF t \in S THEN <<>> ELSE Held[t]
      /\ \A t \in S : Held[t] # <<>> /\ expiry[t] <= now
  BY <1>1, <1>2 DEF DrainedTo, Emptied
<1>5. Held' = [t \in Timers |-> IF t \in S THEN <<>> ELSE Held[t]]
  BY <1>2, <1>4 DEF Lists
<1>6. CASE S = {}
  <2>1. Held' = Held
    BY <1>3, <1>5, <1>6 DEF Lists
  <2>2. UNION {ToSet(Held[t]) : t \in S} = {}
    BY <1>6
  <2>3. status' = status
    BY <1>2, <1>3, <2>2, EndedNone
  <2>4. QED
    BY <1>2, <2>1, <2>3, StuttersIs
<1>7. CASE S # {}
  <2>1. Abstract!EndAll(S, "expired")
    BY <1>2, <1>4, <1>5, EndAllIs
  <2>2. S \subseteq Abstract!Due
    BY <1>4 DEF Abstract!Due, Held
  <2>3. Abstract!Expire(S)
    BY <1>2, <1>7, <2>1 DEF Abstract!Expire
  <2>4. S \in SUBSET Abstract!Due
    BY <2>2
  <2>5. QED
    BY <2>3, <2>4
<1>8. QED
  BY <1>6, <1>7

\* The shutdown is Shutdown.
LEMMA ShutdownMaps == ASSUME Inv, Shutdown PROVE Abstract!Shutdown
<1>1. /\ Held' = [t \in Timers |-> <<>>] /\ UNCHANGED <<now, expiry>>
      /\ status' = Ended(status, UNION {ToSet(Held[t]) : t \in Timers}, "destroyed")
  BY ShutdownStep
<1>2. Held' = [t \in Timers |-> IF t \in Timers THEN <<>> ELSE Held[t]]
  BY <1>1
<1>3. Abstract!EndAll(Timers, "destroyed")
  BY <1>1, <1>2, EndAllIs
<1>4. QED
  BY <1>1, <1>3 DEF Abstract!Shutdown

----------------------------------------------------------------------------
(* The theorems *)

\* The reactor is nothing that Timers sees.
LEMMA UnseenIs == ASSUME Unseen PROVE Stutters
BY StuttersIs DEF Unseen

\* Every step keeps the invariant, and is one of Timers or nothing.
LEMMA NextInv ==
  ASSUME Inv, [Next]_vars PROVE Inv' /\ [Abstract!Next]_(Abstract!vars)
<1>1. CASE Tick
  <2>1. Inv' /\ now' = now + 1 /\ UNCHANGED <<expiry, status>> /\ Held' = Held
    BY <1>1, TickStep
  <2>2. Abstract!Pass
    BY <2>1 DEF Abstract!Pass, Held
  <2>3. QED
    BY <2>1, <2>2 DEF Abstract!Next
<1>2. CASE ReactorStep \/ EpollWait(FALSE) \/ ReturnForOthers
  <2>1. CASE EpollWait(TRUE) \/ EpollWait(FALSE) \/ Return
    <3>1. Inv' /\ Unseen
      BY <2>1, EpollWaitStep, ReturnStep
    <3>2. QED
      BY <3>1, UnseenIs DEF Stutters
  <2>2. CASE Check
    <3>1. Inv'
      BY <2>2, CheckStep
    <3>2. QED
      BY <2>2, <3>1, CheckMaps DEF Stutters, Abstract!Next
  <2>3. QED
    BY <1>2, <2>1, <2>2 DEF ReactorStep, ReturnInTime, ReturnForOthers
<1>3. ASSUME NEW t \in Timers, AsyncWait(t)
      PROVE  Inv' /\ [Abstract!Next]_(Abstract!vars)
  <2>1. Inv'
    BY <1>3, AsyncWaitStep
  <2>2. PICK o \in Waits : Abstract!Begin(t, o)
    BY <1>3, BeginMaps
  <2>3. QED
    BY <2>1, <2>2 DEF Abstract!Next
<1>4. ASSUME NEW t \in Timers, AsyncWaitAfterShutdown(t)
      PROVE  Inv' /\ [Abstract!Next]_(Abstract!vars)
  <2>1. Inv'
    BY <1>4, RefusedStep
  <2>2. PICK o \in Waits : Abstract!Refuse(o)
    BY <1>4, RefuseMaps
  <2>3. QED
    BY <2>1, <2>2 DEF Abstract!Next
<1>5. ASSUME NEW t \in Timers, Cancel(t) PROVE Inv' /\ [Abstract!Next]_(Abstract!vars)
  <2>1. Inv'
    BY <1>5, CancelStep
  <2>2. QED
    BY <1>5, <2>1, CancelMaps DEF Stutters, Abstract!Next
<1>6. ASSUME NEW t \in Timers, CancelOne(t)
      PROVE  Inv' /\ [Abstract!Next]_(Abstract!vars)
  <2>1. Inv'
    BY <1>6, CancelOneStep
  <2>2. QED
    BY <1>6, <2>1, CancelOneMaps DEF Stutters, Abstract!Next
<1>7. ASSUME NEW t \in Timers, NEW e \in 0 .. MaxTime, ExpiresAt(t, e)
      PROVE  Inv' /\ [Abstract!Next]_(Abstract!vars)
  <2>1. Inv'
    BY <1>7, ExpiresAtStep
  <2>2. QED
    BY <1>7, <2>1, ResetMaps DEF Abstract!Next
<1>8. ASSUME NEW t \in Timers, NEW s \in Timers, Move(t, s)
      PROVE  Inv' /\ [Abstract!Next]_(Abstract!vars)
  <2>1. Inv'
    BY <1>8, MoveStep
  <2>2. Abstract!Move(t, s) /\ s \in Timers \ {t}
    BY <1>8, MoveMaps
  <2>3. QED
    BY <2>1, <2>2 DEF Abstract!Next
<1>9. ASSUME NEW o \in Waits, CancelByKey(o)
      PROVE  Inv' /\ [Abstract!Next]_(Abstract!vars)
  <2>1. Inv'
    BY <1>9, CancelByKeyStep
  <2>2. o[1] \in Timers
    BY DEF Waits
  <2>3. QED
    BY <1>9, <2>1, <2>2, CancelByKeyMaps DEF Stutters, Abstract!Next
<1>10. CASE ForkChild
  <2>1. Inv' /\ Unseen
    BY <1>10, ForkStep
  <2>2. QED
    BY <2>1, UnseenIs DEF Stutters
<1>11. CASE Shutdown
  <2>1. Inv'
    BY <1>11, ShutdownStep
  <2>2. QED
    BY <1>11, <2>1, ShutdownMaps DEF Abstract!Next
<1>12. CASE UNCHANGED vars
  <2>1. Inv'
    BY <1>12 DEF vars, implVars, fdVars, reactorVars, Inv, TypeOK, QueuesSound,
                 Kept, Held, QueueFor, In, Once, FlagsKept, AlarmKept, Alarmed, By,
                 DownIsIdle
  <2>2. Stutters
    BY <1>12 DEF vars, implVars, Stutters, Abstract!vars, QueueFor
  <2>3. QED
    BY <2>1, <2>2 DEF Stutters
<1>13. QED
  BY <1>1, <1>2, <1>3, <1>4, <1>5, <1>6, <1>7, <1>8, <1>9, <1>10, <1>11, <1>12 DEF Next

\* Whatever the program calls, and whenever, the queues are sound, each wait is
\* on one timer, the flags are set, and the alarm comes in time.
THEOREM TimerInvariant == Spec => []Inv
<1>1. Init => Inv
  BY InitInv
<1>2. Inv /\ [Next]_vars => Inv'
  BY NextInv
<1>3. QED
  BY <1>1, <1>2, PTL DEF Spec

\* The heap of timer_queue and the heap_index_ of its timers agree, and it is in
\* order, through every up_heap, down_heap, removal and move.
THEOREM HeapSoundAlways == Spec => []HeapSound
BY TimerInvariant, HeapIsSound, PTL

\* The list of active timers holds exactly the timers with waits, so that
\* cancel_timer, which looks only at the list, and get_all_timers find every
\* wait.
THEOREM ListSoundAlways == Spec => []ListSound
BY TimerInvariant, ListIsSound, PTL

\* might_have_pending_waits is set for each timer that has waits, and each wait
\* is with exactly one timer until it ends.
THEOREM WaitsKeptAlways == Spec => []WaitsKept
BY TimerInvariant, WaitsAreKept, PTL

\* The reactor does not sleep past the earliest timer of any queue: timerfd, the
\* timeout of epoll_wait or the interrupter will wake it, or it is awake.
THEOREM AlarmSetAlways == Spec => []AlarmSet
BY TimerInvariant, AlarmIsSet, PTL

\* The timer service does what Timers promises: no wait expires before its time,
\* none is lost or ends twice, and those that are cancelled or moved are those of
\* the timer that is named.
THEOREM TimersImplement == Spec => ImplementsTimers
<1>1. Init => Abstract!Init
  <2>1. Init => Held = [t \in Timers |-> <<>>]
    BY InitInv
  <2>2. Init => now = 0 /\ status = [o \in Waits |-> "new"] /\ expiry \in [Timers -> Nat]
    <3>1. MaxTime \in Nat
      BY TimerAssumption
    <3>2. 0 .. MaxTime \subseteq Nat
      BY <3>1
    <3>3. QED
      BY <3>2 DEF Init
  <2>3. QED
    BY <2>1, <2>2 DEF Abstract!Init, Held
<1>2. Inv /\ [Next]_vars => [Abstract!Next]_(Abstract!vars)
  BY NextInv
<1>3. QED
  BY <1>1, <1>2, TimerInvariant, PTL DEF Spec, ImplementsTimers, Abstract!Spec
===============================================================================
