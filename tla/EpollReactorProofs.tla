------------------------- MODULE EpollReactorProofs -------------------------
(***************************************************************************)
(* That the reactor loses no edge-triggered event, and what that rests on, *)
(* for any sockets, states, threads, operations and sizes of the buffers.  *)
(*                                                                         *)
(* The invariant has five parts.  Owners says whose state a descriptor     *)
(* state is in each phase of its socket.  Masks says what epoll looks for. *)
(* Waiting says where an operation may be in the queues.  Threads says     *)
(* where the task is, and with it that nobody links a state twice.  Events *)
(* extends NoLostEvent to a socket on which nobody waits: the flag that    *)
(* keeps the next operation from being tried is cleared only when its      *)
(* event is still to come.  Stream, with it, numbers the units of a        *)
(* connection for the order of reads.                                      *)
(***************************************************************************)
EXTENDS EpollReactor, FiniteSetTheorems, WellFoundedInduction, TLAPS

Phases == {"closed", "open", "deregistered", "unlinked"}
Statuses == {"new", "posted", "queued", "done", "destroyed"}
Results == {"none", "bad_descriptor", "not_supported", "aborted", "received",
            "ended", "ready", "sent", "invalid"}
Entries == [state : States, events : SUBSET OpTypes]
Records == [sock : Sockets, kind : Kinds] \cup {NoOp}

SockOK ==
  /\ phase \in [Sockets -> Phases]
  /\ data \in [Sockets -> States \cup {NoState}]
KernelOK ==
  /\ files \in SUBSET Sockets
  /\ unread \in [Sockets -> Nat] /\ room \in [Sockets -> Nat]
  /\ ended \in [Sockets -> BOOLEAN] /\ urgent \in [Sockets -> BOOLEAN]
  /\ mask \in [Sockets -> SUBSET OpTypes] /\ listed \in [Sockets -> BOOLEAN]
StateOK ==
  /\ opQueue \in [States -> [OpTypes -> Seq(Ops)]]
  /\ trySpeculative \in [States -> SUBSET OpTypes]
  /\ registered \in [States -> SUBSET OpTypes]
  /\ down \in SUBSET States /\ live \in SUBSET States
SchedOK ==
  /\ queue \in Seq(Entries \cup {Task})
  /\ pc \in [Workers -> {"idle", "polled", "perform"}]
  /\ at \in [Workers -> Entries \cup {Nothing}]
  /\ polled \in [Workers -> Seq(Entries)]
OpOK ==
  /\ op \in [Ops -> Records] /\ status \in [Ops -> Statuses]
  /\ result \in [Ops -> Results]
TypeOK ==
  /\ SockOK /\ KernelOK /\ StateOK /\ SchedOK /\ OpOK
  /\ work \in Int /\ shut \in BOOLEAN

\* Who owns a state: a socket from register_descriptor to
\* cleanup_descriptor_data, unless the context was shut down in between.
Owners ==
  /\ shut => live = {}
  /\ \A k \in Sockets :
       /\ phase[k] = "closed" => data[k] = NoState
       /\ phase[k] = "open" => data[k] \in IF shut THEN down ELSE live \ down
       /\ phase[k] \in {"deregistered", "unlinked"} =>
            IF shut THEN data[k] = NoState ELSE data[k] \in live
  /\ \A k, l \in Sockets : data[k] = data[l] /\ data[k] # NoState => k = l

\* What epoll looks for is what the state says, and what operations wait for.
Masks ==
  /\ \A k \in Sockets :
       /\ phase[k] \in {"closed", "unlinked"} => mask[k] = {} /\ k \notin files
       /\ phase[k] = "open" =>
            /\ mask[k] = registered[data[k]]
            /\ mask[k] = {} \/ {"read", "except"} \subseteq mask[k]
            /\ k \in files => mask[k] = {}
  /\ \A d \in States, j \in OpTypes :
       opQueue[d][j] # <<>> => j \in registered[d]

\* Operations are queued where they belong, in the order of their start.
RightQueues ==
  \A d \in States, j \in OpTypes : \A n \in DOMAIN opQueue[d][j] :
    LET r == op[opQueue[d][j][n]]
    IN  r # NoOp /\ r.kind \in Kinds /\ TypeOf(r.kind) = j

StartOrder ==
  /\ \A d \in States, j \in OpTypes : \A m, n \in DOMAIN opQueue[d][j] :
       m < n => opQueue[d][j][m] < opQueue[d][j][n]
  /\ \A o, p \in Ops : status[o] = "new" /\ o < p => status[p] = "new"

Waiting == OpsOfOwner /\ RightQueues /\ StartOrder

\* One thread at most runs the task, which is then in no queue, and alone in
\* the queue when it is first.
Threads ==
  /\ \A w \in Workers : pc[w] = "polled" =>
       queue = <<>> /\ \A v \in Workers : pc[v] = "polled" => v = w
  /\ \A w \in Workers : pc[w] # "polled" => polled[w] = <<>>
  /\ \A w \in Workers : IF pc[w] = "perform" THEN at[w] \in Entries
                                             ELSE at[w] = Nothing
  /\ \A i \in DOMAIN queue : i < Len(queue) => queue[i] # Task
  /\ Once(queue) /\ \A w \in Workers : Once(polled[w])
  /\ shut => queue = <<>> /\ \A w \in Workers : pc[w] = "idle"

\* Somebody waits for the event j, or will not be performed at once.
Relied(k, j) ==
  \/ Queued(k, j) # <<>>
  \/ j \notin trySpeculative[data[k]] /\ j \in mask[k]

Due(k, j) ==
  /\ phase[k] = "open" /\ ~shut /\ j \in ReadyEvents(k) /\ Relied(k, j)
  /\ j = "read" => \/ unread[k] > 0
                   \/ Queued(k, j) # <<>> /\ j \in trySpeculative[data[k]]

Events == \A k \in Sockets, j \in OpTypes : Due(k, j) => Notified(k, j)

Under == {o \in Ops : status[o] \in {"queued", "posted"}}

Inv ==
  /\ TypeOK /\ Owners /\ Masks /\ Waiting /\ Threads /\ Events /\ WorkIsOps

----------------------------------------------------------------------------
(* Numbers, and sequences of operations *)

\* A set of numbers has a least one.
LEMMA NatMin ==
  ASSUME NEW S \in SUBSET Nat, S # {}
  PROVE  Min(S) \in S /\ \A m \in S : Min(S) <= m
<1>1. IsWellFoundedOn(OpToRel(<, Nat), Nat)
  BY NatLessThanWellFounded
<1>2. PICK n \in S : \A m \in S : ~(<<m, n>> \in OpToRel(<, Nat))
  BY <1>1, WFMin
<1>3. \A m \in S : ~(m < n)
  BY <1>2 DEF OpToRel
<1>4. \A m \in S : n <= m
  BY <1>3
<1>5. QED
  BY <1>4 DEF Min

\* A bounded set of numbers has a greatest one.
LEMMA NatMax ==
  ASSUME NEW L \in Nat, NEW S \in SUBSET (0 .. L), S # {}
  PROVE  Max(S) \in S /\ \A m \in S : m <= Max(S)
<1> DEFINE R == {x \in 0 .. L : L - x \in S}
<1>1. \A m \in S : m \in 0 .. L /\ L - m \in R
  OBVIOUS
<1>2. R \in SUBSET Nat
  OBVIOUS
<1> HIDE DEF R
<1>3. Min(R) \in R /\ \A m \in R : Min(R) <= m
  <2>1. PICK m \in S : TRUE
    OBVIOUS
  <2>2. R # {}
    BY <1>1, <2>1
  <2>3. QED
    BY <1>2, <2>2, NatMin
<1>4. Min(R) \in 0 .. L /\ L - Min(R) \in S
  BY <1>3 DEF R
<1>5. PICK n \in S : \A m \in S : m <= n
  BY <1>1, <1>3, <1>4
<1>6. QED
  BY <1>5 DEF Max

\* Max({0, x}) does not go below zero.
LEMMA MaxZero ==
  ASSUME NEW x \in Int
  PROVE  Max({0, x}) = IF x > 0 THEN x ELSE 0
<1>1. \E m \in {0, x} : \A y \in {0, x} : m >= y
  OBVIOUS
<1>2. QED
  BY <1>1 DEF Max

\* How many there are of a kind.
LEMMA BeforeNat ==
  ASSUME NEW ks, NEW i \in Nat, NEW kind
  PROVE  Before(ks, i + 1, kind) \in Nat
<1>1. IsFiniteSet(1 .. i)
  BY FS_Interval
<1>2. IsFiniteSet({n \in 1 .. i : ks[n] = kind})
  BY <1>1, FS_Subset
<1>3. QED
  BY <1>2, FS_CardinalityType DEF Before

\* Nothing comes before the first operation.
LEMMA BeforeFirst ==
  ASSUME NEW ks, NEW kind
  PROVE  Before(ks, 1, kind) = 0
<1>1. {n \in 1 .. 0 : ks[n] = kind} = {}
  OBVIOUS
<1>2. QED
  BY <1>1, FS_EmptySet DEF Before

\* Before counts on from one operation to the next.
LEMMA BeforeNext ==
  ASSUME NEW ks, NEW i \in Nat \ {0}, NEW kind
  PROVE  Before(ks, i + 1, kind) =
           Before(ks, i, kind) + (IF ks[i] = kind THEN 1 ELSE 0)
<1> DEFINE S == {n \in 1 .. i - 1 : ks[n] = kind}
           T == {n \in 1 .. i : ks[n] = kind}
<1>1. IsFiniteSet(1 .. i - 1)
  BY FS_Interval
<1>2. IsFiniteSet(S) /\ Cardinality(S) \in Nat
  BY <1>1, FS_Subset, FS_CardinalityType
<1>3. /\ Before(ks, i, kind) = Cardinality(S)
      /\ Before(ks, i + 1, kind) = Cardinality(T)
  BY DEF Before
<1>4. CASE ks[i] = kind
  <2>1. T = S \cup {i} /\ i \notin S
    BY <1>4
  <2>2. QED
    BY <1>2, <1>3, <1>4, <2>1, FS_AddElement
<1>5. CASE ks[i] # kind
  <2>1. T = S
    BY <1>5
  <2>2. QED
    BY <1>2, <1>3, <1>5, <2>1
<1>6. QED
  BY <1>4, <1>5

\* The loop of perform_io stops at the end of the queue, or at an operation that
\* cannot be performed, or after one that leaves nothing for the next.
LEMMA PerformedStops ==
  ASSUME NEW k, NEW ks, Len(ks) \in Nat
  PROVE  /\ Performed(k, ks) \in 0 .. Len(ks)
         /\ \A i \in 1 .. Performed(k, ks) : ~NotDone(k, ks, i)
         /\ Performed(k, ks) < Len(ks) =>
              \/ NotDone(k, ks, Performed(k, ks) + 1)
              \/ Performed(k, ks) > 0 /\ Exhausts(k, ks, Performed(k, ks))
<1> DEFINE Good(n) == \A i \in 1 .. n :
                        ~NotDone(k, ks, i) /\ (i < n => ~Exhausts(k, ks, i))
           S == {n \in 0 .. Len(ks) : Good(n)}
<1>1. S \in SUBSET (0 .. Len(ks)) /\ 0 \in S
  OBVIOUS
<1>2. Performed(k, ks) = Max(S)
  BY DEF Performed
<1> HIDE DEF S
<1>3. Max(S) \in S /\ \A m \in S : m <= Max(S)
  BY <1>1, NatMax
<1> DEFINE n == Max(S)
<1>4. n \in 0 .. Len(ks) /\ Good(n)
  BY <1>3 DEF S
<1>5. n < Len(ks) => ~Good(n + 1)
  <2>1. n + 1 \notin S
    BY <1>3, <1>4
  <2>2. QED
    BY <1>4, <2>1 DEF S
<1> HIDE DEF n
<1>6. n < Len(ks) =>
        NotDone(k, ks, n + 1) \/ (n > 0 /\ Exhausts(k, ks, n))
  BY <1>4, <1>5
<1>7. QED
  BY <1>2, <1>4, <1>6 DEF n

----------------------------------------------------------------------------
(* Sockets and their states *)

\* The operations and the threads leave the sockets alone.
LEMMA SocketSteps ==
  ASSUME [Next]_vars
  PROVE  \/ UNCHANGED <<sockVars, down, live, shut>>
         \/ \E k \in Sockets :
              \/ \E d \in States, isFile \in BOOLEAN : Open(k, d, isFile)
              \/ \E closing \in BOOLEAN : Deregister(k, closing)
              \/ CloseDescriptor(k) \/ Cleanup(k)
         \/ Shutdown
<1> DEFINE Same == UNCHANGED <<sockVars, down, live, shut>>
<1>1. ASSUME NEW w \in Workers, Thread(w) PROVE Same
  BY <1>1 DEF Thread, Poll, TaskCleanup, TakeState, PerformIo, stateVars
<1>2. ASSUME NEW o \in Ops, RunPosted(o) PROVE Same
  BY <1>2 DEF RunPosted, stateVars
<1>3. ASSUME NEW k \in Sockets, \/ PeerSends(k) \/ PeerSendsUrgent(k)
                                \/ PeerEnds(k) \/ PeerReceives(k)
      PROVE  Same
  BY <1>3 DEF PeerSends, PeerSendsUrgent, PeerEnds, PeerReceives, stateVars
<1>4. ASSUME NEW k \in Sockets, NEW kind \in Kinds, Start(k, kind) PROVE Same
  BY <1>4 DEF Start, StartClosed, StartPerformed, StartNotSupported,
              StartQueued, stateVars
<1>5. ASSUME NEW k \in Sockets,
             Cancel(k) \/ \E j \in OpTypes, i \in 1 .. MaxOp :
                            CancelByKey(k, j, i)
      PROVE  Same
  BY <1>5 DEF Cancel, CancelByKey, CancelOps
<1>6. CASE UNCHANGED vars
  BY <1>6 DEF vars, stateVars
<1>7. QED
  BY <1>1, <1>2, <1>3, <1>4, <1>5, <1>6 DEF Next

\* A state has one owner, from Open to Cleanup or Shutdown.
LEMMA NextOwners == TypeOK /\ Owners /\ [Next]_vars => Owners'
<1> SUFFICES ASSUME TypeOK, Owners, [Next]_vars PROVE Owners'
  OBVIOUS
<1> USE ReactorAssumption DEF ReactorAssumption, Owners, TypeOK, SockOK, StateOK
<1>1. CASE UNCHANGED <<sockVars, down, live, shut>>
  BY <1>1 DEF sockVars
<1>2. ASSUME NEW k \in Sockets, NEW d \in States, NEW isFile \in BOOLEAN,
             Open(k, d, isFile)
      PROVE  Owners'
  BY <1>2 DEF Open, Phases
<1>3. ASSUME NEW k \in Sockets, NEW closing \in BOOLEAN, Deregister(k, closing)
      PROVE  Owners'
  BY <1>3 DEF Deregister, DataLeft
<1>4. ASSUME NEW k \in Sockets, CloseDescriptor(k) PROVE Owners'
  BY <1>4 DEF CloseDescriptor, stateVars
<1>5. ASSUME NEW k \in Sockets, Cleanup(k) PROVE Owners'
  BY <1>5 DEF Cleanup
<1>6. CASE Shutdown
  BY <1>6 DEF Shutdown, sockVars
<1>7. QED
  BY <1>1, <1>2, <1>3, <1>4, <1>5, <1>6, SocketSteps

----------------------------------------------------------------------------
(* What perform_io does *)

\* The sequence of a finite set has each of its elements once.
LEMMA SetAsSeq ==
  ASSUME NEW S, IsFiniteSet(S)
  PROVE  /\ SetToSeq(S) \in Seq(S) /\ ToSet(SetToSeq(S)) = S
         /\ \A i, j \in DOMAIN SetToSeq(S) :
              SetToSeq(S)[i] = SetToSeq(S)[j] => i = j
<1> DEFINE n == Cardinality(S)
<1>1. n \in Nat /\ ExistsBijection(1 .. n, S)
  BY FS_CardinalityType
<1>2. \E f \in [1 .. n -> S] : IsInjective(f)
  BY <1>1 DEF ExistsBijection, Bijection, Injection
<1>3. SetToSeq(S) \in [1 .. n -> S] /\ IsInjective(SetToSeq(S))
  BY <1>2 DEF SetToSeq
<1>4. SetToSeq(S) \in Injection(1 .. n, S)
  BY <1>3 DEF Injection
<1>5. Cardinality(1 .. n) = n
  BY <1>1, FS_Interval
<1>6. SetToSeq(S) \in Surjection(1 .. n, S)
  BY <1>4, <1>5, FS_Injection
<1> HIDE DEF n
<1>7. SetToSeq(S) \in Seq(S)
  BY <1>1, <1>3
<1>8. DOMAIN SetToSeq(S) = 1 .. n
  BY <1>3
<1>9. \A x \in S : \E i \in 1 .. n : SetToSeq(S)[i] = x
  BY <1>6 DEF Surjection
<1>10. ToSet(SetToSeq(S)) = S
  BY <1>3, <1>8, <1>9 DEF ToSet
<1>11. QED
  BY <1>3, <1>7, <1>10 DEF IsInjective

\* The kinds of a queue are those of its operations, one by one.
LEMMA KindsOfSeq ==
  ASSUME NEW q \in Seq(Ops)
  PROVE  Len(KindsOf(q)) = Len(q)
         /\ \A i \in 1 .. Len(q) : KindsOf(q)[i] = op[q[i]].kind
BY DEF KindsOf

\* Of each queue, what is in front is done.
LEMMA DoneFront ==
  ASSUME StateOK, NEW k, NEW d \in States, NEW ev, NEW j \in OpTypes
  PROVE  LET q == opQueue[d][j]
             n == Len(DoneOf(k, d, ev, j))
         IN  /\ n \in 0 .. Len(q)
             /\ DoneOf(k, d, ev, j) \in Seq(Ops)
             /\ ToSet(DoneOf(k, d, ev, j)) = {q[i] : i \in 1 .. n}
             /\ IF j \in ev THEN n = Performed(k, KindsOf(q)) ELSE n = 0
<1> DEFINE q == opQueue[d][j]
           p == Performed(k, KindsOf(q))
<1>1. q \in Seq(Ops)
  BY DEF StateOK
<1>2. p \in 0 .. Len(q)
  BY <1>1, KindsOfSeq, PerformedStops
<1> HIDE DEF p, q
<1>3. CASE j \in ev
  <2>1. DoneOf(k, d, ev, j) = SubSeq(q, 1, p)
    BY <1>3 DEF DoneOf, p, q
  <2>2. SubSeq(q, 1, p) \in Seq(Ops) /\ Len(SubSeq(q, 1, p)) = p
        /\ \A i \in 1 .. p : SubSeq(q, 1, p)[i] = q[i]
    BY <1>1, <1>2
  <2>3. ToSet(SubSeq(q, 1, p)) = {q[i] : i \in 1 .. p}
    BY <2>2 DEF ToSet
  <2>4. QED
    BY <1>2, <1>3, <2>1, <2>2, <2>3 DEF p, q
<1>4. CASE j \notin ev
  <2>1. DoneOf(k, d, ev, j) = <<>>
    BY <1>4 DEF DoneOf
  <2>2. QED
    BY <1>1, <1>4, <2>1 DEF ToSet, q
<1>5. QED
  BY <1>3, <1>4

\* How much of a queue perform_io completes.
LEMMA DoneCount ==
  ASSUME StateOK, NEW k, NEW d \in States, NEW ev, NEW j \in OpTypes
  PROVE  /\ Len(DoneOf(k, d, ev, j)) \in 0 .. Len(opQueue[d][j])
         /\ j \in ev => Len(DoneOf(k, d, ev, j)) =
                 Performed(k, KindsOf(opQueue[d][j]))
BY DoneFront

\* What is in two sequences, one after the other.
LEMMA ConcatSet ==
  ASSUME NEW S, NEW s \in Seq(S), NEW t \in Seq(S)
  PROVE  s \o t \in Seq(S) /\ ToSet(s \o t) = ToSet(s) \cup ToSet(t)
<1>1. /\ DOMAIN s = 1 .. Len(s) /\ DOMAIN t = 1 .. Len(t)
      /\ DOMAIN (s \o t) = 1 .. Len(s) + Len(t)
  OBVIOUS
<1>2. \A i \in 1 .. Len(s) : s[i] = (s \o t)[i]
  OBVIOUS
<1>3. \A i \in 1 .. Len(t) : t[i] = (s \o t)[i + Len(s)]
  OBVIOUS
<1>4. \A i \in 1 .. Len(s) + Len(t) :
        i \in 1 .. Len(s) \/ i - Len(s) \in 1 .. Len(t)
  OBVIOUS
<1>5. ToSet(s \o t) \subseteq ToSet(s) \cup ToSet(t)
  BY <1>1, <1>2, <1>3, <1>4 DEF ToSet
<1>6. ToSet(s) \subseteq ToSet(s \o t)
  BY <1>1, <1>2 DEF ToSet
<1>7. ToSet(t) \subseteq ToSet(s \o t)
  <2>1. \A i \in 1 .. Len(t) : i + Len(s) \in 1 .. Len(s) + Len(t)
    OBVIOUS
  <2>2. QED
    BY <1>1, <1>3, <2>1 DEF ToSet
<1>8. QED
  BY <1>5, <1>6, <1>7

\* The operations that are done in one call.
Performances(k, d, ev) == UNION {ToSet(DoneOf(k, d, ev, j)) : j \in OpTypes}

\* DoneBy lists the operations that perform_io completes.
LEMMA DoneTogether ==
  ASSUME StateOK, NEW k, NEW d \in States, NEW ev
  PROVE  /\ DoneBy(k, d, ev) \in Seq(Ops)
         /\ ToSet(DoneBy(k, d, ev)) = Performances(k, d, ev)
         /\ DoneBy(k, d, ev) # <<>> =>
              Head(DoneBy(k, d, ev)) \in Performances(k, d, ev)
         /\ DoneBy(k, d, ev) = <<>> => Performances(k, d, ev) = {}
<1> DEFINE a == DoneOf(k, d, ev, "except")
           b == DoneOf(k, d, ev, "write")
           c == DoneOf(k, d, ev, "read")
<1>1. a \in Seq(Ops) /\ b \in Seq(Ops) /\ c \in Seq(Ops)
  BY DoneFront DEF OpTypes
<1>2. Performances(k, d, ev) = ToSet(a) \cup ToSet(b) \cup ToSet(c)
  BY DEF Performances, OpTypes
<1>3. DoneBy(k, d, ev) = a \o b \o c
  BY DEF DoneBy
<1> HIDE DEF a, b, c
<1>4. /\ (a \o b) \o c \in Seq(Ops)
      /\ ToSet((a \o b) \o c) = ToSet(a) \cup ToSet(b) \cup ToSet(c)
  <2>1. \A s, t \in Seq(Ops) :
          s \o t \in Seq(Ops) /\ ToSet(s \o t) = ToSet(s) \cup ToSet(t)
    BY ConcatSet
  <2>2. a \o b \in Seq(Ops) /\ ToSet(a \o b) = ToSet(a) \cup ToSet(b)
    BY <1>1, <2>1
  <2>3. QED
    BY <1>1, <2>1, <2>2
<1>5. /\ DoneBy(k, d, ev) \in Seq(Ops)
      /\ ToSet(DoneBy(k, d, ev)) = Performances(k, d, ev)
  BY <1>2, <1>3, <1>4
<1>6. \A s \in Seq(Ops) : /\ s # <<>> => Head(s) \in ToSet(s)
                          /\ s = <<>> => ToSet(s) = {}
  BY DEF ToSet
<1>7. QED
  BY <1>5, <1>6

----------------------------------------------------------------------------
(* Types *)

\* How much is left after n operations of each kind.
LEMMA ConsumeLeaves ==
  ASSUME KernelOK, NEW k \in Sockets, NEW n \in [AllKinds -> Nat], Consume(k, n)
  PROVE  /\ unread' \in [Sockets -> Nat] /\ room' \in [Sockets -> Nat]
         /\ urgent' \in [Sockets -> BOOLEAN]
         /\ \A l \in Sockets \ {k} : /\ unread'[l] = unread[l]
                                     /\ room'[l] = room[l]
                                     /\ urgent'[l] = urgent[l]
         /\ unread'[k] =
              IF unread[k] > n["read"] THEN unread[k] - n["read"] ELSE 0
         /\ k \notin files =>
              room'[k] = IF room[k] > WriteSize * n["write"]
                           THEN room[k] - WriteSize * n["write"] ELSE 0
         /\ k \in files => room'[k] = room[k]
         /\ urgent'[k] = (urgent[k] /\ n["urgent"] = 0)
<1>1. n["read"] \in Nat /\ n["write"] \in Nat /\ n["urgent"] \in Nat
  BY DEF AllKinds
<1>2. WriteSize * n["write"] \in Nat
  BY <1>1, ReactorAssumption DEF ReactorAssumption
<1>3. unread[k] \in Nat /\ room[k] \in Nat
  BY DEF KernelOK
<1> DEFINE u == Max({0, unread[k] - n["read"]})
           r == Max({0, room[k] - WriteSize * n["write"]})
<1>4. u = IF unread[k] > n["read"] THEN unread[k] - n["read"] ELSE 0
  BY <1>1, <1>3, MaxZero
<1>5. r = IF room[k] > WriteSize * n["write"]
            THEN room[k] - WriteSize * n["write"] ELSE 0
  BY <1>2, <1>3, MaxZero
<1>6. /\ unread' = [unread EXCEPT ![k] = u]
      /\ room' = [room EXCEPT ![k] = IF k \in files THEN room[k] ELSE r]
      /\ urgent' = [urgent EXCEPT ![k] = urgent[k] /\ n["urgent"] = 0]
  BY DEF Consume
<1> HIDE DEF u, r
<1>7. u \in Nat /\ r \in Nat
  BY <1>1, <1>2, <1>3, <1>4, <1>5
<1>8. unread' \in [Sockets -> Nat] /\ room' \in [Sockets -> Nat]
  BY <1>3, <1>6, <1>7 DEF KernelOK
<1>9. urgent' \in [Sockets -> BOOLEAN]
  BY <1>6 DEF KernelOK
<1>10. \A l \in Sockets \ {k} : /\ unread'[l] = unread[l] /\ room'[l] = room[l]
                                /\ urgent'[l] = urgent[l]
  BY <1>6 DEF KernelOK
<1>11. /\ unread'[k] = u /\ room'[k] = IF k \in files THEN room[k] ELSE r
       /\ urgent'[k] = (urgent[k] /\ n["urgent"] = 0)
  BY <1>6 DEF KernelOK
<1>12. QED
  BY <1>4, <1>5, <1>8, <1>9, <1>10, <1>11

\* The buffers keep their types.
LEMMA ConsumeType ==
  ASSUME KernelOK, NEW k \in Sockets, NEW n \in [AllKinds -> Nat], Consume(k, n)
  PROVE  /\ unread' \in [Sockets -> Nat] /\ room' \in [Sockets -> Nat]
         /\ urgent' \in [Sockets -> BOOLEAN]
BY ConsumeLeaves

\* So many operations of a kind are completed.
LEMMA DoneOfKindNat ==
  ASSUME StateOK, NEW k, NEW d \in States, NEW ev, NEW kind \in AllKinds
  PROVE  DoneOfKind(k, d, ev, kind) \in Nat
<1>1. TypeOf(kind) \in OpTypes
  BY DEF TypeOf, OpTypes
<1>2. Len(DoneOf(k, d, ev, TypeOf(kind))) \in Nat
  BY <1>1, DoneFront DEF StateOK
<1>3. QED
  BY <1>2, BeforeNat DEF DoneOfKind

\* Sockets keep their types.
LEMMA NextSockType == TypeOK /\ Owners /\ [Next]_vars => SockOK'
<1> SUFFICES ASSUME TypeOK, Owners, [Next]_vars PROVE SockOK'
  OBVIOUS
<1> USE DEF TypeOK, SockOK, Phases
<1>1. CASE UNCHANGED <<sockVars, down, live, shut>>
  BY <1>1 DEF sockVars
<1>2. ASSUME NEW k \in Sockets, NEW d \in States, NEW isFile \in BOOLEAN,
             Open(k, d, isFile)
      PROVE  SockOK'
  BY <1>2 DEF Open
<1>3. ASSUME NEW k \in Sockets, NEW closing \in BOOLEAN, Deregister(k, closing)
      PROVE  SockOK'
  BY <1>3 DEF Deregister, DataLeft
<1>4. ASSUME NEW k \in Sockets, CloseDescriptor(k) PROVE SockOK'
  BY <1>4 DEF CloseDescriptor
<1>5. ASSUME NEW k \in Sockets, Cleanup(k) PROVE SockOK'
  BY <1>5 DEF Cleanup
<1>6. CASE Shutdown
  BY <1>6 DEF Shutdown, sockVars
<1>7. QED
  BY <1>1, <1>2, <1>3, <1>4, <1>5, <1>6, SocketSteps

\* What a thread has in hand.
LEMMA AtWork ==
  ASSUME TypeOK, Threads, NEW w \in Workers, pc[w] = "perform"
  PROVE  at[w].state \in States /\ at[w].events \in SUBSET OpTypes
BY DEF Threads, Entries

\* An open socket has a state.
LEMMA ReadyState ==
  ASSUME TypeOK, Owners, NEW k \in Sockets, phase[k] = "open"
  PROVE  data[k] \in States
BY DEF TypeOK, StateOK, Owners

\* So does what the kernel knows of them.
LEMMA NextKernelType == TypeOK /\ Owners /\ Threads /\ [Next]_vars => KernelOK'
<1> SUFFICES ASSUME TypeOK, Owners, Threads, [Next]_vars PROVE KernelOK'
  OBVIOUS
<1> USE ReactorAssumption DEF ReactorAssumption, TypeOK, KernelOK, kernelVars
<1>1. ASSUME NEW w \in Workers, Thread(w) PROVE KernelOK'
  <2>1. CASE Poll(w)
    BY <2>1 DEF Poll
  <2>2. CASE TaskCleanup(w) \/ TakeState(w)
    BY <2>2 DEF TaskCleanup, TakeState
  <2>3. CASE PerformIo(w)
    <3> DEFINE d == at[w].state
               ev == at[w].events
    <3>1. d \in States /\ UNCHANGED <<files, ended, mask, listed>>
      BY <2>3, AtWork DEF PerformIo
    <3>2. ASSUME NEW k \in Sockets, Complete(k, d, ev) PROVE KernelOK'
      <4>1. Consume(k, [x \in AllKinds |-> DoneOfKind(k, d, ev, x)])
        BY <3>2 DEF Complete
      <4>2. [x \in AllKinds |-> DoneOfKind(k, d, ev, x)] \in [AllKinds -> Nat]
        BY <3>1, DoneOfKindNat
      <4> HIDE DEF d, ev
      <4>3. QED
        BY <3>1, <4>1, <4>2, ConsumeType
    <3>3. QED
      BY <2>3, <3>1, <3>2 DEF PerformIo
  <2>4. QED
    BY <1>1, <2>1, <2>2, <2>3 DEF Thread
<1>2. ASSUME NEW o \in Ops, RunPosted(o) PROVE KernelOK'
  BY <1>2 DEF RunPosted
<1>3. ASSUME NEW k \in Sockets, \/ PeerSends(k) \/ PeerSendsUrgent(k)
                                \/ PeerEnds(k) \/ PeerReceives(k)
      PROVE  KernelOK'
  <2>1. \A j : Edge(k, j) => listed' \in [Sockets -> BOOLEAN]
    BY DEF Edge
  <2>2. CASE PeerSends(k)
    BY <2>1, <2>2 DEF PeerSends
  <2>3. CASE PeerSendsUrgent(k)
    BY <2>1, <2>3 DEF PeerSendsUrgent
  <2>4. CASE PeerEnds(k)
    BY <2>1, <2>4 DEF PeerEnds
  <2>5. CASE PeerReceives(k)
    BY <2>1, <2>5 DEF PeerReceives
  <2>6. QED
    BY <1>3, <2>2, <2>3, <2>4, <2>5
<1>4. ASSUME NEW k \in Sockets, NEW kind \in Kinds, Start(k, kind)
      PROVE  KernelOK'
  <2>1. CASE StartClosed(k, kind) \/ StartNotSupported(k, kind)
    BY <2>1 DEF StartClosed, StartNotSupported
  <2>2. CASE StartPerformed(k, kind)
    <3>1. Consume(k, [x \in AllKinds |-> IF x = kind THEN 1 ELSE 0])
      BY <2>2 DEF StartPerformed
    <3>2. [x \in AllKinds |-> IF x = kind THEN 1 ELSE 0] \in [AllKinds -> Nat]
      OBVIOUS
    <3>3. QED
      BY <2>2, <3>1, <3>2, ConsumeType DEF StartPerformed
  <2>3. CASE StartQueued(k, kind)
    <3>1. CASE AsksEpoll(k, kind)
      <4>1. registered[data[k]] \cup ({TypeOf(kind)} \cap {"write"})
              \in SUBSET OpTypes
        BY ReadyState, <2>3 DEF StartQueued, StateOK, OpTypes
      <4>2. QED
        BY <2>3, <3>1, <4>1 DEF StartQueued, Control
    <3>2. CASE ~AsksEpoll(k, kind)
      BY <2>3, <3>2 DEF StartQueued
    <3>3. QED
      BY <3>1, <3>2
  <2>4. QED
    BY <1>4, <2>1, <2>2, <2>3 DEF Start
<1>5. ASSUME NEW k \in Sockets,
             Cancel(k) \/ \E j \in OpTypes, i \in 1 .. MaxOp :
                            CancelByKey(k, j, i)
      PROVE  KernelOK'
  BY <1>5 DEF Cancel, CancelByKey, CancelOps
<1>6. ASSUME NEW k \in Sockets, NEW d \in States, NEW isFile \in BOOLEAN,
             Open(k, d, isFile)
      PROVE  KernelOK'
  BY <1>6 DEF Open, Control, OpTypes
<1>7. ASSUME NEW k \in Sockets, NEW closing \in BOOLEAN, Deregister(k, closing)
      PROVE  KernelOK'
  BY <1>7 DEF Deregister
<1>8. ASSUME NEW k \in Sockets, CloseDescriptor(k) \/ Cleanup(k) PROVE KernelOK'
  <2>1. CASE CloseDescriptor(k)
    BY <2>1 DEF CloseDescriptor
  <2>2. CASE Cleanup(k)
    BY <2>2 DEF Cleanup
  <2>3. QED
    BY <1>8, <2>1, <2>2
<1>9. CASE Shutdown \/ UNCHANGED vars
  BY <1>9 DEF Shutdown, vars
<1>10. QED
  BY <1>1, <1>2, <1>3, <1>4, <1>5, <1>6, <1>7, <1>8, <1>9 DEF Next

----------------------------------------------------------------------------
(* The queues of operations *)

\* r is q without the operations of S.
Thinned(q, r, S) ==
  /\ r \in Seq(Ops) /\ ToSet(r) = ToSet(q) \ S
  /\ \E f \in [DOMAIN r -> DOMAIN q] :
       /\ \A i \in DOMAIN r : r[i] = q[f[i]]
       /\ \A i, j \in DOMAIN r : i < j => f[i] < f[j]

\* A queue without any of S stays as it is.
LEMMA ThinnedNot ==
  ASSUME NEW q \in Seq(Ops), NEW S, ToSet(q) \cap S = {}
  PROVE  Thinned(q, q, S)
<1> DEFINE f == [i \in DOMAIN q |-> i]
<1>1. /\ f \in [DOMAIN q -> DOMAIN q] /\ \A i \in DOMAIN q : q[i] = q[f[i]]
      /\ \A i, j \in DOMAIN q : i < j => f[i] < f[j]
  OBVIOUS
<1> HIDE DEF f
<1>2. QED
  BY <1>1 DEF Thinned

\* A queue of operations of S is emptied.
LEMMA ThinnedEmpty ==
  ASSUME NEW q \in Seq(Ops), NEW S, ToSet(q) \subseteq S
  PROVE  Thinned(q, <<>>, S)
<1>1. /\ <<>> \in Seq(Ops) /\ DOMAIN <<>> = {} /\ ToSet(<<>>) = {}
  BY DEF ToSet
<1>2. \E f \in [{} -> DOMAIN q] : TRUE
  <2>1. [i \in {} |-> 1] \in [{} -> DOMAIN q]
    OBVIOUS
  <2>2. QED
    BY <2>1
<1>3. QED
  BY <1>1, <1>2 DEF Thinned

\* Those of S are at the front: the rest is left.
LEMMA ThinnedFront ==
  ASSUME NEW q \in Seq(Ops), NEW n \in 0 .. Len(q), NEW S,
         \A i, j \in DOMAIN q : q[i] = q[j] => i = j,
         ToSet(q) \cap S = {q[i] : i \in 1 .. n}
  PROVE  Thinned(q, SubSeq(q, n + 1, Len(q)), S)
<1> DEFINE r == SubSeq(q, n + 1, Len(q))
           f == [i \in 1 .. Len(q) - n |-> i + n]
<1>1. /\ r \in Seq(Ops) /\ DOMAIN r = 1 .. Len(q) - n /\ DOMAIN q = 1 .. Len(q)
      /\ \A i \in 1 .. Len(q) - n : r[i] = q[i + n]
  OBVIOUS
<1>2. /\ f \in [DOMAIN r -> DOMAIN q]
      /\ \A i \in DOMAIN r : r[i] = q[f[i]]
      /\ \A i, j \in DOMAIN r : i < j => f[i] < f[j]
  BY <1>1
<1> HIDE DEF r, f
<1>3. ToSet(r) \subseteq ToSet(q) \ S
  <2> SUFFICES ASSUME NEW i \in 1 .. Len(q) - n PROVE r[i] \in ToSet(q) \ S
    BY <1>1 DEF ToSet
  <2>1. i + n \in DOMAIN q /\ r[i] = q[i + n] /\ r[i] \in ToSet(q)
    BY <1>1 DEF ToSet
  <2>2. \A m \in 1 .. n : m \in DOMAIN q /\ m # i + n
    BY <1>1
  <2>3. r[i] \notin {q[m] : m \in 1 .. n}
    BY <2>1, <2>2
  <2>4. QED
    BY <2>1, <2>3
<1>4. ToSet(q) \ S \subseteq ToSet(r)
  <2> SUFFICES ASSUME NEW m \in DOMAIN q, q[m] \notin S PROVE q[m] \in ToSet(r)
    BY DEF ToSet
  <2>1. ~(m \in 1 .. n)
    BY DEF ToSet
  <2>2. m - n \in 1 .. Len(q) - n
    BY <1>1, <2>1
  <2>3. r[m - n] = q[m]
    BY <1>1, <2>2
  <2>4. QED
    BY <1>1, <2>2, <2>3 DEF ToSet
<1>5. QED
  BY <1>1, <1>2, <1>3, <1>4 DEF Thinned, r

\* One operation of a queue is in S: RemoveAt removes it.
LEMMA ThinnedAt ==
  ASSUME NEW q \in Seq(Ops), NEW n \in DOMAIN q, NEW S,
         \A i, j \in DOMAIN q : q[i] = q[j] => i = j,
         ToSet(q) \cap S = {q[n]}
  PROVE  Thinned(q, RemoveAt(q, n), S)
<1> DEFINE r == RemoveAt(q, n)
           f == [i \in 1 .. Len(q) - 1 |-> IF i < n THEN i ELSE i + 1]
<1>1. /\ r \in Seq(Ops) /\ DOMAIN r = 1 .. Len(q) - 1 /\ DOMAIN q = 1 .. Len(q)
      /\ \A i \in 1 .. Len(q) - 1 : r[i] = IF i < n THEN q[i] ELSE q[i + 1]
  <2> DEFINE a == SubSeq(q, 1, n - 1)
             b == SubSeq(q, n + 1, Len(q))
  <2>1. /\ a \in Seq(Ops) /\ Len(a) = n - 1 /\ \A i \in 1 .. n - 1 : a[i] = q[i]
        /\ n \in 1 .. Len(q)
    OBVIOUS
  <2>2. /\ b \in Seq(Ops) /\ Len(b) = Len(q) - n
        /\ \A i \in 1 .. Len(q) - n : b[i] = q[i + n]
    OBVIOUS
  <2>3. r = a \o b
    BY DEF RemoveAt
  <2> HIDE DEF r, a, b
  <2>4. /\ r \in Seq(Ops) /\ Len(r) = Len(q) - 1
        /\ \A i \in 1 .. Len(q) - 1 :
             r[i] = IF i < n THEN a[i] ELSE b[i - (n - 1)]
    <3>1. \A s, t \in Seq(Ops) :
            /\ s \o t \in Seq(Ops) /\ Len(s \o t) = Len(s) + Len(t)
            /\ \A i \in 1 .. Len(s) + Len(t) :
                 (s \o t)[i] = IF i <= Len(s) THEN s[i] ELSE t[i - Len(s)]
      OBVIOUS
    <3>2. /\ a \o b \in Seq(Ops) /\ Len(a \o b) = Len(a) + Len(b)
          /\ \A i \in 1 .. Len(a) + Len(b) :
               (a \o b)[i] = IF i <= Len(a) THEN a[i] ELSE b[i - Len(a)]
      BY <2>1, <2>2, <3>1
    <3>3. Len(q) \in Nat /\ Len(a) = n - 1 /\ Len(a) + Len(b) = Len(q) - 1
      BY <2>1, <2>2
    <3>4. r \in Seq(Ops) /\ Len(r) = Len(q) - 1
      BY <2>3, <3>2, <3>3
    <3>5. ASSUME NEW i \in 1 .. Len(q) - 1
          PROVE  r[i] = IF i < n THEN a[i] ELSE b[i - (n - 1)]
      <4>1. r[i] = IF i <= Len(a) THEN a[i] ELSE b[i - Len(a)]
        BY <2>3, <3>2, <3>3
      <4>2. i <= n - 1 <=> i < n
        BY <2>1
      <4>3. QED
        BY <3>3, <4>1, <4>2
    <3>6. QED
      BY <3>4, <3>5
  <2>5. \A i \in 1 .. Len(q) - 1 : r[i] = IF i < n THEN q[i] ELSE q[i + 1]
    <3> SUFFICES ASSUME NEW i \in 1 .. Len(q) - 1
                 PROVE  r[i] = IF i < n THEN q[i] ELSE q[i + 1]
      OBVIOUS
    <3>1. i < n => a[i] = q[i]
      BY <2>1
    <3>2. ~(i < n) => b[i - (n - 1)] = q[i + 1]
      <4>1. ~(i < n) => i - (n - 1) \in 1 .. Len(q) - n
                        /\ (i - (n - 1)) + n = i + 1
        BY <2>1
      <4>2. QED
        BY <2>2, <4>1
    <3>3. QED
      BY <2>4, <3>1, <3>2
  <2>6. QED
    BY <2>4, <2>5
<1>2. /\ f \in [DOMAIN r -> DOMAIN q]
      /\ \A i \in DOMAIN r : r[i] = q[f[i]] /\ f[i] # n
      /\ \A i, j \in DOMAIN r : i < j => f[i] < f[j]
      /\ \A m \in DOMAIN q : m # n => \E i \in DOMAIN r : f[i] = m
  <2> HIDE DEF r
  <2>1. /\ f \in [DOMAIN r -> DOMAIN q]
        /\ \A i \in DOMAIN r : r[i] = q[f[i]] /\ f[i] # n
        /\ \A i, j \in DOMAIN r : i < j => f[i] < f[j]
    BY <1>1
  <2>2. ASSUME NEW m \in DOMAIN q, m # n PROVE \E i \in DOMAIN r : f[i] = m
    <3>1. CASE m < n
      <4>1. m \in DOMAIN r /\ f[m] = m
        BY <1>1, <3>1
      <4>2. QED
        BY <4>1
    <3>2. CASE m > n
      <4>1. m - 1 \in DOMAIN r /\ f[m - 1] = m
        BY <1>1, <3>2
      <4>2. QED
        BY <4>1
    <3>3. QED
      BY <1>1, <2>2, <3>1, <3>2
  <2>3. QED
    BY <2>1, <2>2
<1> HIDE DEF r, f
<1>3. ToSet(r) = ToSet(q) \ {q[n]}
  BY <1>2 DEF ToSet
<1>4. ToSet(q) \ S = ToSet(q) \ {q[n]}
  OBVIOUS
<1>5. QED
  BY <1>1, <1>2, <1>3, <1>4 DEF Thinned, r

\* A step that takes the operations of S out of their queues, and starts none.
Removes(S) ==
  /\ \A d \in States, j \in OpTypes : Thinned(opQueue[d][j], opQueue'[d][j], S)
  /\ \A o \in Ops :
       /\ status'[o] = "queued" <=> status[o] = "queued" /\ o \notin S
       /\ status'[o] = "new" <=> status[o] = "new"
       /\ status'[o] = "queued" => op'[o] = op[o]

\* The sockets of those that stay keep their states.
Kept(S) == \A d \in States : \A o \in QueuedIn(d) \ S :
             d \in live' /\ data'[op[o].sock] = d /\ phase'[op[o].sock] = "open"

\* An operation has one place.
LEMMA OnePlace ==
  ASSUME StateOK, OpsOfOwner, NEW d \in States, NEW j \in OpTypes
  PROVE  /\ opQueue[d][j] \in Seq(Ops)
         /\ \A m, n \in DOMAIN opQueue[d][j] :
              opQueue[d][j][m] = opQueue[d][j][n] => m = n
         /\ ToSet(opQueue[d][j]) \subseteq QueuedIn(d)
         /\ \A e \in States, h \in OpTypes :
              ToSet(opQueue[d][j]) \cap ToSet(opQueue[e][h]) # {} =>
                e = d /\ h = j
         /\ \A e \in States :
              ToSet(opQueue[d][j]) \cap QueuedIn(e) # {} => e = d
         /\ \A o \in ToSet(opQueue[d][j]) : status[o] = "queued" /\ o \in Ops
<1>1. opQueue[d][j] \in Seq(Ops)
  BY DEF StateOK
<1>2. \A m, n \in DOMAIN opQueue[d][j] :
        opQueue[d][j][m] = opQueue[d][j][n] => m = n
  BY DEF OpsOfOwner
<1>3. ToSet(opQueue[d][j]) \subseteq QueuedIn(d)
  BY DEF QueuedIn
<1>4. \A e \in States, h \in OpTypes :
        ToSet(opQueue[d][j]) \cap ToSet(opQueue[e][h]) # {} => e = d /\ h = j
  BY DEF OpsOfOwner, ToSet
<1>5. \A e \in States : ToSet(opQueue[d][j]) \cap QueuedIn(e) # {} => e = d
  BY <1>4 DEF QueuedIn
<1>6. \A o \in ToSet(opQueue[d][j]) : o \in Ops
  BY <1>1 DEF ToSet
<1>7. \A o \in ToSet(opQueue[d][j]) : status[o] = "queued"
  BY <1>3, <1>6 DEF OpsOfOwner
<1>8. QED
  BY <1>1, <1>2, <1>3, <1>4, <1>5, <1>6, <1>7

\* Nothing is misplaced by taking operations away.
LEMMA RemovesWaiting ==
  ASSUME StateOK, Waiting, NEW S, Removes(S), Kept(S)
  PROVE  Waiting'
<1> USE DEF Waiting
<1> DEFINE q(d, j) == opQueue[d][j]
           r(d, j) == opQueue'[d][j]
<1>1. ASSUME NEW d \in States, NEW j \in OpTypes
      PROVE  \E f \in [DOMAIN r(d, j) -> DOMAIN q(d, j)] :
               /\ \A i \in DOMAIN r(d, j) : r(d, j)[i] = q(d, j)[f[i]]
               /\ \A m, n \in DOMAIN r(d, j) : m < n => f[m] < f[n]
  BY DEF Removes, Thinned
<1>2. \A d \in States, j \in OpTypes : /\ q(d, j) \in Seq(Ops)
                                       /\ r(d, j) \in Seq(Ops)
                                       /\ ToSet(r(d, j)) = ToSet(q(d, j)) \ S
  BY DEF Removes, Thinned, StateOK
<1>3. \A d \in States : QueuedIn(d)' = QueuedIn(d) \ S
  BY <1>2 DEF QueuedIn
<1>4. \A o \in Ops :
        status'[o] = "queued" <=> \E d \in States : o \in QueuedIn(d)'
  <2>1. \A o \in Ops :
          status[o] = "queued" <=> \E d \in States : o \in QueuedIn(d)
    BY DEF OpsOfOwner
  <2>2. QED
    BY <1>3, <2>1 DEF Removes
<1>5. ASSUME NEW d \in States, NEW e \in States, NEW h \in OpTypes,
             NEW j \in OpTypes,
             NEW m \in DOMAIN r(d, h), NEW n \in DOMAIN r(e, j),
             r(d, h)[m] = r(e, j)[n]
      PROVE  d = e /\ h = j /\ m = n
  <2>1. PICK f \in [DOMAIN r(d, h) -> DOMAIN q(d, h)] :
               /\ \A i \in DOMAIN r(d, h) : r(d, h)[i] = q(d, h)[f[i]]
               /\ \A i, l \in DOMAIN r(d, h) : i < l => f[i] < f[l]
    BY <1>1
  <2>2. PICK g \in [DOMAIN r(e, j) -> DOMAIN q(e, j)] :
               \A i \in DOMAIN r(e, j) : r(e, j)[i] = q(e, j)[g[i]]
    BY <1>1
  <2>3. d = e /\ h = j
    BY <1>5, <2>1, <2>2 DEF OpsOfOwner
  <2>4. q(d, h)[f[m]] = q(d, h)[f[n]]
    BY <1>5, <2>1, <2>3
  <2>5. f[m] = f[n] /\ f[m] \in Nat
    <3>1. f[m] \in DOMAIN q(d, h) /\ f[n] \in DOMAIN q(d, h)
      BY <2>1, <2>3
    <3>2. QED
      BY <1>2, <2>4, <3>1, OnePlace
  <2>6. m \in Nat /\ n \in Nat
    BY <1>2
  <2>7. QED
    BY <2>1, <2>3, <2>5, <2>6
<1>6. OpsOfOwner'
  <2>1. ASSUME NEW d \in States, NEW o \in QueuedIn(d)'
        PROVE  d \in live' /\ data'[op'[o].sock] = d
               /\ phase'[op'[o].sock] = "open"
    <3>1. o \in QueuedIn(d) \ S /\ o \in Ops
      BY <1>2, <1>3 DEF QueuedIn, ToSet
    <3>2. op'[o] = op[o]
      BY <1>4, <3>1 DEF Removes
    <3>3. QED
      BY <3>1, <3>2 DEF Kept
  <2>2. QED
    BY <1>4, <1>5, <2>1 DEF OpsOfOwner
<1>7. ASSUME NEW d \in States, NEW j \in OpTypes, NEW n \in DOMAIN r(d, j)
      PROVE  LET o == r(d, j)[n]
             IN  op'[o] # NoOp /\ op'[o].kind \in Kinds
                 /\ TypeOf(op'[o].kind) = j
  <2>1. PICK f \in [DOMAIN r(d, j) -> DOMAIN q(d, j)] :
               \A i \in DOMAIN r(d, j) : r(d, j)[i] = q(d, j)[f[i]]
    BY <1>1
  <2>2. r(d, j)[n] \in ToSet(r(d, j)) /\ r(d, j)[n] \in Ops
    BY <1>2 DEF ToSet
  <2>3. r(d, j)[n] \in QueuedIn(d)'
    BY <2>2 DEF QueuedIn
  <2>4. op'[r(d, j)[n]] = op[q(d, j)[f[n]]]
    BY <1>4, <2>1, <2>2, <2>3 DEF Removes
  <2>5. f[n] \in DOMAIN q(d, j)
    BY <2>1
  <2>6. QED
    BY <2>4, <2>5 DEF RightQueues
<1>8. RightQueues'
  BY <1>7 DEF RightQueues, TypeOf
<1>9. ASSUME NEW d \in States, NEW j \in OpTypes,
             NEW m \in DOMAIN r(d, j), NEW n \in DOMAIN r(d, j), m < n
      PROVE  r(d, j)[m] < r(d, j)[n]
  <2>1. PICK f \in [DOMAIN r(d, j) -> DOMAIN q(d, j)] :
               /\ \A i \in DOMAIN r(d, j) : r(d, j)[i] = q(d, j)[f[i]]
               /\ \A i, l \in DOMAIN r(d, j) : i < l => f[i] < f[l]
    BY <1>1
  <2>2. f[m] < f[n] /\ f[m] \in DOMAIN q(d, j) /\ f[n] \in DOMAIN q(d, j)
    BY <1>9, <2>1
  <2>3. q(d, j)[f[m]] < q(d, j)[f[n]]
    BY <2>2 DEF StartOrder
  <2>4. QED
    BY <2>1, <2>3
<1>10. StartOrder'
  BY <1>9 DEF StartOrder, Removes
<1>11. QED
  BY <1>6, <1>8, <1>10

\* NextOp is the first operation that has not started.
LEMMA NewIsNext ==
  ASSUME OpOK, NewOps # {}
  PROVE  /\ NextOp \in Ops /\ status[NextOp] = "new"
         /\ \A o \in Ops : status[o] = "new" => NextOp <= o
<1>1. NewOps \in SUBSET Nat
  BY ReactorAssumption DEF ReactorAssumption, NewOps, Ops
<1>2. NextOp \in NewOps /\ \A o \in NewOps : NextOp <= o
  BY <1>1, NatMin DEF NextOp
<1>3. QED
  BY <1>2 DEF NewOps

\* An operation that starts is not in a queue, and its record is made.
LEMMA StartsMakes ==
  ASSUME StateOK, OpOK, Waiting, NewOps # {}, NEW k \in Sockets,
         NEW kind \in Kinds,
         NEW how, NEW res, Starts(k, kind, how, res)
  PROVE  /\ op'[NextOp] = [sock |-> k, kind |-> kind] /\ status'[NextOp] = how
         /\ \A o \in Ops \ {NextOp} : op'[o] = op[o] /\ status'[o] = status[o]
         /\ \A d \in States, j \in OpTypes : NextOp \notin ToSet(opQueue[d][j])
<1>1. NextOp \in Ops /\ status[NextOp] = "new"
  BY NewIsNext
<1> HIDE DEF NextOp
<1>2. /\ op'[NextOp] = [sock |-> k, kind |-> kind] /\ status'[NextOp] = how
      /\ \A o \in Ops \ {NextOp} : op'[o] = op[o] /\ status'[o] = status[o]
  BY <1>1 DEF Starts, OpOK
<1>3. \A d \in States, j \in OpTypes : NextOp \notin ToSet(opQueue[d][j])
  BY <1>1, OnePlace DEF Waiting
<1>4. QED
  BY <1>2, <1>3

\* An operation that is posted joins no queue.
LEMMA PostsWaiting ==
  ASSUME StateOK, OpOK, Waiting, NewOps # {}, NEW k \in Sockets,
         NEW kind \in Kinds,
         NEW res, Starts(k, kind, "posted", res),
         UNCHANGED <<opQueue, live, data, phase>>
  PROVE  Waiting'
<1> DEFINE n == NextOp
<1>1. /\ n \in Ops /\ status[n] = "new"
      /\ \A o \in Ops : status[o] = "new" => n <= o
  BY NewIsNext
<1>2. /\ status'[n] = "posted"
      /\ \A o \in Ops \ {n} : op'[o] = op[o] /\ status'[o] = status[o]
      /\ \A d \in States, j \in OpTypes : n \notin ToSet(opQueue[d][j])
  BY StartsMakes
<1> HIDE DEF n
<1>3. \A d \in States : QueuedIn(d)' = QueuedIn(d) /\ n \notin QueuedIn(d)
  BY <1>2 DEF QueuedIn
<1>4. \A d \in States : QueuedIn(d) \subseteq Ops
  BY DEF QueuedIn, ToSet, StateOK
<1>5. \A d \in States : \A o \in QueuedIn(d) : op'[o] = op[o]
  BY <1>2, <1>3, <1>4
<1>6. OpsOfOwner'
  <2>1. \A d \in States : \A o \in QueuedIn(d)' :
          d \in live' /\ data'[op'[o].sock] = d /\ phase'[op'[o].sock] = "open"
    BY <1>3, <1>5 DEF Waiting, OpsOfOwner
  <2>2. \A o \in Ops :
          status'[o] = "queued" <=> \E d \in States : o \in QueuedIn(d)'
    BY <1>1, <1>2, <1>3 DEF Waiting, OpsOfOwner
  <2>3. QED
    BY <2>1, <2>2 DEF Waiting, OpsOfOwner
<1>7. RightQueues'
  <2>1. \A d \in States, j \in OpTypes : \A i \in DOMAIN opQueue[d][j] :
          op'[opQueue[d][j][i]] = op[opQueue[d][j][i]]
    BY <1>2 DEF ToSet, StateOK
  <2>2. QED
    BY <2>1 DEF Waiting, RightQueues, TypeOf
<1>8. StartOrder'
  BY <1>1, <1>2 DEF Waiting, StartOrder, Ops
<1>9. QED
  BY <1>6, <1>7, <1>8 DEF Waiting

\* An operation is queued behind those that were started before it.
LEMMA QueuesWaiting ==
  ASSUME TypeOK, Owners, Waiting, NEW k \in Sockets, NEW kind \in Kinds,
         StartQueued(k, kind)
  PROVE  Waiting'
<1>a. PICK n \in Ops, d \in States, j \in OpTypes :
        n = NextOp /\ d = data[k] /\ j = TypeOf(kind)
  BY NewIsNext, ReadyState DEF StartQueued, CanStart, TypeOK, TypeOf, OpTypes
<1>1. /\ n \in Ops /\ status[n] = "new"
      /\ \A o \in Ops : status[o] = "new" => n <= o
  BY <1>a, NewIsNext DEF StartQueued, CanStart, TypeOK
<1>2. /\ op'[n] = [sock |-> k, kind |-> kind] /\ status'[n] = "queued"
      /\ \A o \in Ops \ {n} : op'[o] = op[o] /\ status'[o] = status[o]
      /\ \A e \in States, h \in OpTypes : n \notin ToSet(opQueue[e][h])
  BY <1>a, StartsMakes DEF StartQueued, CanStart, TypeOK
<1>3. /\ d \in States /\ j \in OpTypes /\ phase[k] = "open" /\ ~shut
      /\ d \in live
      /\ opQueue' = [opQueue EXCEPT ![d][j] = Append(@, n)]
      /\ UNCHANGED <<live, data, phase>>
  BY <1>a DEF StartQueued, PushBack, CanStart, sockVars, Owners
<1>4. /\ \A e \in States, h \in OpTypes : opQueue[e][h] \in Seq(Ops)
      /\ Append(opQueue[d][j], n) \in Seq(Ops)
  BY <1>1, <1>3 DEF TypeOK, StateOK
<1>5. \A e \in States, h \in OpTypes :
        opQueue'[e][h] = IF e = d /\ h = j THEN Append(opQueue[d][j], n)
                                           ELSE opQueue[e][h]
  BY <1>3 DEF TypeOK, StateOK
<1>6. \A e \in States, h \in OpTypes : \A m \in DOMAIN opQueue'[e][h] :
        \/ m \in DOMAIN opQueue[e][h] /\ opQueue'[e][h][m] = opQueue[e][h][m]
        \/ /\ e = d /\ h = j /\ m = Len(opQueue[d][j]) + 1
           /\ opQueue'[e][h][m] = n
  BY <1>3, <1>4, <1>5
<1>7. \A e \in States, h \in OpTypes : \A m \in DOMAIN opQueue[e][h] :
        /\ opQueue[e][h][m] # n /\ opQueue[e][h][m] \in Ops
        /\ op'[opQueue[e][h][m]] = op[opQueue[e][h][m]]
        /\ m \in Nat /\ m <= Len(opQueue[e][h])
        /\ opQueue[e][h][m] < n
  <2> SUFFICES ASSUME NEW e \in States, NEW h \in OpTypes,
                      NEW m \in DOMAIN opQueue[e][h]
               PROVE  /\ opQueue[e][h][m] # n /\ opQueue[e][h][m] \in Ops
                      /\ m \in Nat /\ m <= Len(opQueue[e][h])
                      /\ opQueue[e][h][m] < n
    BY <1>2
  <2>1. /\ opQueue[e][h][m] \in ToSet(opQueue[e][h]) /\ opQueue[e][h][m] \in Ops
        /\ m \in Nat /\ m <= Len(opQueue[e][h])
    BY <1>4 DEF ToSet
  <2>2. opQueue[e][h][m] # n
    BY <1>2, <2>1
  <2>3. status[opQueue[e][h][m]] = "queued"
    BY <2>1, OnePlace DEF Waiting, TypeOK
  <2>4. ~(n < opQueue[e][h][m])
    BY <1>1, <2>1, <2>3 DEF Waiting, StartOrder
  <2>5. QED
    BY <1>1, <2>1, <2>2, <2>4 DEF Ops
<1>8. \A e \in States :
        QueuedIn(e)' = QueuedIn(e) \cup (IF e = d THEN {n} ELSE {})
  <2>1. ToSet(Append(opQueue[d][j], n)) = ToSet(opQueue[d][j]) \cup {n}
    <3>1. \A m \in DOMAIN opQueue[d][j] :
            /\ m \in DOMAIN Append(opQueue[d][j], n)
            /\ Append(opQueue[d][j], n)[m] = opQueue[d][j][m]
      BY <1>3, <1>4
    <3>2. /\ Len(opQueue[d][j]) + 1 \in DOMAIN Append(opQueue[d][j], n)
          /\ Append(opQueue[d][j], n)[Len(opQueue[d][j]) + 1] = n
      BY <1>3, <1>4
    <3>3. \A m \in DOMAIN Append(opQueue[d][j], n) :
            m \in DOMAIN opQueue[d][j] \/ m = Len(opQueue[d][j]) + 1
      BY <1>3, <1>4
    <3>4. QED
      BY <3>1, <3>2, <3>3 DEF ToSet
  <2>2. \A h \in OpTypes \ {j} : ToSet(opQueue'[d][h]) = ToSet(opQueue[d][h])
    BY <1>5
  <2>6. ToSet(opQueue'[d][j]) = ToSet(opQueue[d][j]) \cup {n}
    BY <1>5, <2>1
  <2>3. ASSUME NEW e \in States, e # d PROVE QueuedIn(e)' = QueuedIn(e)
    <3>1. \A h \in OpTypes : opQueue'[e][h] = opQueue[e][h]
      BY <1>5, <2>3
    <3>2. QED
      BY <3>1 DEF QueuedIn
  <2>4. QueuedIn(d)' = QueuedIn(d) \cup {n}
    <3>1. \A h \in OpTypes :
            /\ ToSet(opQueue'[d][h]) \subseteq ToSet(opQueue[d][h]) \cup {n}
            /\ ToSet(opQueue[d][h]) \subseteq ToSet(opQueue'[d][h])
      BY <2>2, <2>6
    <3>2. ASSUME NEW o \in QueuedIn(d)' PROVE o \in QueuedIn(d) \cup {n}
      <4>1. PICK h \in OpTypes : o \in ToSet(opQueue'[d][h])
        BY DEF QueuedIn
      <4>2. o \in ToSet(opQueue[d][h]) \/ o = n
        BY <3>1, <4>1
      <4>3. QED
        BY <4>2 DEF QueuedIn
    <3>3. ASSUME NEW o \in QueuedIn(d) PROVE o \in QueuedIn(d)'
      <4>1. PICK h \in OpTypes : o \in ToSet(opQueue[d][h])
        BY DEF QueuedIn
      <4>2. o \in ToSet(opQueue'[d][h])
        BY <3>1, <4>1
      <4>3. QED
        BY <4>2 DEF QueuedIn
    <3>4. n \in QueuedIn(d)'
      BY <1>3, <2>6 DEF QueuedIn
    <3>5. QED
      BY <3>2, <3>3, <3>4
  <2>5. QED
    BY <1>3, <2>3, <2>4
<1>9. \A e \in States : \A o \in QueuedIn(e) : o \in Ops /\ o # n
  BY <1>7 DEF QueuedIn, ToSet
<1>10. OpsOfOwner'
  <2>1. \A e \in States : \A o \in QueuedIn(e)' :
          e \in live' /\ data'[op'[o].sock] = e /\ phase'[op'[o].sock] = "open"
    <3> SUFFICES ASSUME NEW e \in States, NEW o \in QueuedIn(e)'
                 PROVE  e \in live /\ data[op'[o].sock] = e
                        /\ phase[op'[o].sock] = "open"
      BY <1>3
    <3>1. CASE o \in QueuedIn(e)
      BY <1>2, <1>9, <3>1 DEF Waiting, OpsOfOwner
    <3>2. CASE o = n /\ e = d
      BY <1>a, <1>2, <1>3, <3>2
    <3>3. QED
      BY <1>8, <3>1, <3>2
  <2>2. \A o \in Ops :
          status'[o] = "queued" <=> \E e \in States : o \in QueuedIn(e)'
    BY <1>1, <1>2, <1>3, <1>8, <1>9 DEF Waiting, OpsOfOwner
  <2>3. ASSUME NEW e \in States, NEW f \in States, NEW h \in OpTypes,
               NEW i \in OpTypes,
               NEW m \in DOMAIN opQueue'[e][h], NEW l \in DOMAIN opQueue'[f][i],
               opQueue'[e][h][m] = opQueue'[f][i][l]
        PROVE  e = f /\ h = i /\ m = l
    <3>1. CASE opQueue'[e][h][m] = n
      <4>1. e = d /\ h = j /\ m = Len(opQueue[d][j]) + 1
        BY <1>6, <1>7, <3>1
      <4>2. opQueue'[f][i][l] = n
        BY <2>3, <3>1
      <4>3. f = d /\ i = j /\ l = Len(opQueue[d][j]) + 1
        BY <1>6, <1>7, <4>2
      <4>4. QED
        BY <4>1, <4>3
    <3>2. CASE opQueue'[e][h][m] # n
      <4>1. /\ m \in DOMAIN opQueue[e][h] /\ l \in DOMAIN opQueue[f][i]
            /\ opQueue[e][h][m] = opQueue[f][i][l]
        BY <1>6, <2>3, <3>2
      <4>2. QED
        BY <4>1 DEF Waiting, OpsOfOwner
    <3>3. QED
      BY <3>1, <3>2
  <2>4. QED
    BY <2>1, <2>2, <2>3 DEF OpsOfOwner
<1>11. RightQueues'
  <2> SUFFICES ASSUME NEW e \in States, NEW h \in OpTypes,
                      NEW m \in DOMAIN opQueue'[e][h]
               PROVE  LET r == op'[opQueue'[e][h][m]]
                      IN  r # NoOp /\ r.kind \in Kinds /\ TypeOf(r.kind) = h
    BY DEF RightQueues, TypeOf
  <2>1. CASE m \in DOMAIN opQueue[e][h] /\ opQueue'[e][h][m] = opQueue[e][h][m]
    BY <1>7, <2>1 DEF Waiting, RightQueues
  <2>2. CASE h = j /\ opQueue'[e][h][m] = n
    <3>1. kind # "none"
      BY ReactorAssumption DEF ReactorAssumption, AllKinds
    <3>2. QED
      BY <1>a, <1>2, <2>2, <3>1 DEF NoOp
  <2>3. QED
    BY <1>6, <2>1, <2>2
<1>12. StartOrder'
  <2>1. \A e \in States, h \in OpTypes : \A m, l \in DOMAIN opQueue'[e][h] :
          m < l => opQueue'[e][h][m] < opQueue'[e][h][l]
    BY <1>6, <1>7 DEF Waiting, StartOrder
  <2>2. \A o, p \in Ops : status'[o] = "new" /\ o < p => status'[p] = "new"
    BY <1>1, <1>2 DEF Waiting, StartOrder, Ops
  <2>3. QED
    BY <2>1, <2>2 DEF StartOrder
<1>13. QED
  BY <1>10, <1>11, <1>12 DEF Waiting

\* Most steps leave the queues alone, or operations that are in none.
LEMMA NoneRemoved ==
  ASSUME StateOK, UNCHANGED opQueue,
         \A o \in Ops : /\ status'[o] = "queued" <=> status[o] = "queued"
                        /\ status'[o] = "new" <=> status[o] = "new"
                        /\ status'[o] = "queued" => op'[o] = op[o]
  PROVE  Removes({})
<1>1. \A d \in States, j \in OpTypes : opQueue[d][j] \in Seq(Ops)
  BY DEF StateOK
<1>2. \A d \in States, j \in OpTypes : Thinned(opQueue[d][j], opQueue[d][j], {})
  BY <1>1, ThinnedNot
<1>3. \A d \in States, j \in OpTypes :
        Thinned(opQueue[d][j], opQueue'[d][j], {})
  BY <1>2
<1>4. QED
  BY <1>3 DEF Removes

\* Steps that leave the queues alone.
LEMMA NothingRemoved ==
  StateOK /\ UNCHANGED <<opQueue, op, status>> => Removes({})
BY NoneRemoved

\* All that waits in a state is removed.
LEMMA EmptiesState ==
  ASSUME StateOK, OpOK, OpsOfOwner, NEW d \in States,
         opQueue' = [opQueue EXCEPT ![d] = EmptyQueues(@)], Abort(Emptied(d))
  PROVE  Removes(QueuedIn(d))
<1>1. Emptied(d) = QueuedIn(d)
  BY DEF Emptied, QueuedIn, AllQueues
<1>2. \A e \in States, j \in OpTypes :
        opQueue'[e][j] = IF e = d THEN <<>> ELSE opQueue[e][j]
  BY DEF StateOK, EmptyQueues, AllQueues
<1> DEFINE S == QueuedIn(d)
<1>3. \A e \in States, j \in OpTypes :
        /\ opQueue[e][j] \in Seq(Ops)
        /\ IF e = d THEN ToSet(opQueue[e][j]) \subseteq S
                    ELSE ToSet(opQueue[e][j]) \cap S = {}
  BY OnePlace
<1>4. \A o \in S : o \in Ops /\ status[o] = "queued"
  <2>1. \A o \in S : o \in Ops
    BY DEF QueuedIn, ToSet, StateOK
  <2>2. QED
    BY <2>1 DEF OpsOfOwner
<1>5. \A o \in Ops :
        /\ status'[o] = (IF o \in S THEN "posted" ELSE status[o])
        /\ op'[o] = op[o]
  BY <1>1 DEF Abort
<1> HIDE DEF S
<1>6. \A e \in States, j \in OpTypes : Thinned(opQueue[e][j], opQueue'[e][j], S)
  BY <1>2, <1>3, ThinnedNot, ThinnedEmpty
<1>7. Removes(S)
  BY <1>4, <1>5, <1>6 DEF Removes
<1>8. QED
  BY <1>7 DEF S

\* cancel_ops_by_key takes one operation out.
LEMMA RemovesByKey ==
  ASSUME StateOK, OpOK, OpsOfOwner, NEW d \in States, NEW j \in OpTypes,
         NEW i \in DOMAIN opQueue[d][j],
         opQueue' = [opQueue EXCEPT ![d][j] = RemoveAt(@, i)],
         Abort({opQueue[d][j][i]})
  PROVE  Removes({opQueue[d][j][i]})
<1> DEFINE o == opQueue[d][j][i]
<1>1. \A e \in States, h \in OpTypes :
        opQueue'[e][h] = IF e = d /\ h = j THEN RemoveAt(opQueue[d][j], i)
                                           ELSE opQueue[e][h]
  BY DEF StateOK
<1>2. o \in ToSet(opQueue[d][j]) /\ o \in Ops /\ status[o] = "queued"
  BY OnePlace DEF ToSet
<1>3. \A e \in States, h \in OpTypes :
        /\ opQueue[e][h] \in Seq(Ops)
        /\ ~(e = d /\ h = j) => ToSet(opQueue[e][h]) \cap {o} = {}
  <2>1. \A e \in States, h \in OpTypes :
          ToSet(opQueue[d][j]) \cap ToSet(opQueue[e][h]) # {} => e = d /\ h = j
    BY OnePlace
  <2>2. \A e \in States, h \in OpTypes : opQueue[e][h] \in Seq(Ops)
    BY DEF StateOK
  <2>3. QED
    BY <1>2, <2>1, <2>2
<1>4. ToSet(opQueue[d][j]) \cap {o} = {o}
  BY <1>2
<1>5. Thinned(opQueue[d][j], RemoveAt(opQueue[d][j], i), {o})
  BY <1>3, <1>4, OnePlace, ThinnedAt
<1>6. \A p \in Ops :
        /\ status'[p] = (IF p \in {o} THEN "posted" ELSE status[p])
        /\ op'[p] = op[p]
  BY DEF Abort
<1> HIDE DEF o
<1>7. \A e \in States, h \in OpTypes :
        Thinned(opQueue[e][h], opQueue'[e][h], {o})
  BY <1>1, <1>3, <1>5, ThinnedNot
<1>8. Removes({o})
  BY <1>2, <1>6, <1>7 DEF Removes
<1>9. QED
  BY <1>8 DEF o

\* perform_io completes what is queued.
LEMMA DoneAreQueued ==
  ASSUME StateOK, NEW k, NEW d \in States, NEW ev, NEW j \in OpTypes
  PROVE  ToSet(DoneOf(k, d, ev, j)) \subseteq ToSet(opQueue[d][j])
<1> DEFINE n == Len(DoneOf(k, d, ev, j))
<1>1. /\ n \in 0 .. Len(opQueue[d][j])
      /\ ToSet(DoneOf(k, d, ev, j)) = {opQueue[d][j][i] : i \in 1 .. n}
  BY DoneFront
<1>2. opQueue[d][j] \in Seq(Ops)
  BY DEF StateOK
<1>3. \A i \in 1 .. n : i \in DOMAIN opQueue[d][j]
  BY <1>1, <1>2
<1> HIDE DEF n
<1>4. QED
  BY <1>1, <1>3 DEF ToSet

\* What perform_io completes leaves its queue: one operation is done, whose
\* work is finished, and the others are posted.
LEMMA CompleteDone ==
  ASSUME StateOK, OpOK, OpsOfOwner, work \in Int,
         NEW k \in Sockets, NEW d \in States, NEW ev \in SUBSET OpTypes,
         Complete(k, d, ev)
  PROVE  LET S == Performances(k, d, ev)
         IN  /\ Removes(S)
             /\ \A o \in S : o \in Ops /\ status[o] = "queued"
             /\ \A o \in Ops \ S : /\ status'[o] = status[o] /\ op'[o] = op[o]
                                   /\ result'[o] = result[o]
             /\ IF S = {}
                  THEN work' = work
                  ELSE /\ work' = work - 1
                       /\ \E h \in S :
                            /\ status'[h] = "done"
                            /\ \A o \in S \ {h} : status'[o] = "posted"
<1> DEFINE S == Performances(k, d, ev)
           all == DoneBy(k, d, ev)
           here == IF all = <<>> THEN {} ELSE {Head(all)}
<1>1. /\ all \in Seq(Ops) /\ ToSet(all) = S
      /\ all # <<>> => Head(all) \in S
      /\ all = <<>> => S = {}
  BY DoneTogether
<1>2. /\ \A o \in Ops : status'[o] = IF o \in here THEN "done"
                                     ELSE IF o \in S \ here THEN "posted"
                                          ELSE status[o]
      /\ \A o \in Ops : op'[o] = IF o \in here THEN NoOp ELSE op[o]
      /\ \A o \in Ops \ S : result'[o] = result[o]
      /\ work' = work + Compensation(all) - 1
      /\ opQueue' = [opQueue EXCEPT ![d] =
           [j \in OpTypes |->
              SubSeq(@[j], Len(DoneOf(k, d, ev, j)) + 1, Len(@[j]))]]
  <2>1. ToSet(all) \ here = S \ here
    BY <1>1
  <2>2. QED
    BY <1>1, <2>1 DEF Complete
<1>3. \A j \in OpTypes :
        LET n == Len(DoneOf(k, d, ev, j))
            q == opQueue[d][j]
        IN  n \in 0 .. Len(q) /\ ToSet(q) \cap S = {q[i] : i \in 1 .. n}
  <2> SUFFICES ASSUME NEW j \in OpTypes
               PROVE  LET n == Len(DoneOf(k, d, ev, j))
                          q == opQueue[d][j]
                      IN  n \in 0 .. Len(q)
                          /\ ToSet(q) \cap S = {q[i] : i \in 1 .. n}
    OBVIOUS
  <2>1. \A h \in OpTypes :
          /\ Len(DoneOf(k, d, ev, h)) \in 0 .. Len(opQueue[d][h])
          /\ ToSet(DoneOf(k, d, ev, h)) =
               {opQueue[d][h][i] : i \in 1 .. Len(DoneOf(k, d, ev, h))}
    BY DoneFront
  <2>2. \A h \in OpTypes :
          ToSet(DoneOf(k, d, ev, h)) \subseteq ToSet(opQueue[d][h])
    BY DoneAreQueued
  <2>3. \A h \in OpTypes :
          ToSet(opQueue[d][j]) \cap ToSet(opQueue[d][h]) # {} => h = j
    BY OnePlace
  <2>4. ToSet(opQueue[d][j]) \cap S = ToSet(DoneOf(k, d, ev, j))
    BY <2>2, <2>3 DEF Performances
  <2>5. QED
    BY <2>1, <2>4
<1>4. \A e \in States, j \in OpTypes : e # d => ToSet(opQueue[e][j]) \cap S = {}
  <2>1. S \subseteq QueuedIn(d)
    <3>1. \A h \in OpTypes :
            ToSet(DoneOf(k, d, ev, h)) \subseteq ToSet(opQueue[d][h])
      BY DoneAreQueued
    <3>2. QED
      BY <3>1 DEF Performances, QueuedIn
  <2>2. QED
    BY <2>1, OnePlace
<1>5. \A o \in S : o \in Ops /\ status[o] = "queued"
  <2>1. \A o \in S : \E j \in OpTypes : o \in ToSet(opQueue[d][j])
    BY DoneAreQueued DEF Performances
  <2>2. QED
    BY <2>1, OnePlace
<1> HIDE DEF S, all
<1>6. \A e \in States, j \in OpTypes : Thinned(opQueue[e][j], opQueue'[e][j], S)
  <2> SUFFICES ASSUME NEW e \in States, NEW j \in OpTypes
               PROVE  Thinned(opQueue[e][j], opQueue'[e][j], S)
    OBVIOUS
  <2>1. /\ opQueue[e][j] \in Seq(Ops)
        /\ \A m, n \in DOMAIN opQueue[e][j] :
             opQueue[e][j][m] = opQueue[e][j][n] => m = n
    BY OnePlace
  <2>2. CASE e # d
    <3>1. opQueue'[e][j] = opQueue[e][j]
      BY <1>2, <2>2 DEF StateOK
    <3>2. QED
      BY <1>4, <2>1, <2>2, <3>1, ThinnedNot
  <2>3. CASE e = d
    <3>1. opQueue'[d][j] =
            SubSeq(opQueue[d][j], Len(DoneOf(k, d, ev, j)) + 1,
                   Len(opQueue[d][j]))
      BY <1>2 DEF StateOK
    <3>2. /\ Len(DoneOf(k, d, ev, j)) \in 0 .. Len(opQueue[d][j])
          /\ ToSet(opQueue[d][j]) \cap S =
               {opQueue[d][j][i] : i \in 1 .. Len(DoneOf(k, d, ev, j))}
      BY <1>3
    <3>3. Thinned(opQueue[d][j],
                  SubSeq(opQueue[d][j], Len(DoneOf(k, d, ev, j)) + 1,
                         Len(opQueue[d][j])), S)
      BY <2>1, <2>3, <3>2, ThinnedFront
    <3>4. QED
      BY <2>3, <3>1, <3>3
  <2>4. QED
    BY <2>2, <2>3
<1>7. here \subseteq S
  BY <1>1
<1>8. Removes(S)
  BY <1>2, <1>5, <1>6, <1>7 DEF Removes
<1>9. \A o \in Ops \ S : status'[o] = status[o] /\ op'[o] = op[o]
                         /\ result'[o] = result[o]
  BY <1>2, <1>7
<1>10. CASE all = <<>>
  <2>1. S = {} /\ work' = work + 1 - 1
    BY <1>1, <1>2, <1>10 DEF Compensation
  <2>2. QED
    BY <1>5, <1>8, <1>9, <2>1 DEF S
<1>11. CASE all # <<>>
  <2>1. S # {} /\ work' = work + 0 - 1 /\ here = {Head(all)} /\ Head(all) \in S
    BY <1>1, <1>2, <1>11 DEF Compensation
  <2>2. status'[Head(all)] = "done"
        /\ \A o \in S \ {Head(all)} : status'[o] = "posted"
    BY <1>2, <1>5, <2>1
  <2>3. QED
    BY <1>5, <1>8, <1>9, <2>1, <2>2 DEF S
<1>12. QED
  BY <1>10, <1>11

\* RemoveAt leaves a sequence of the same elements.
LEMMA RemoveAtType ==
  ASSUME NEW S, NEW q \in Seq(S), NEW i \in DOMAIN q
  PROVE  RemoveAt(q, i) \in Seq(S)
<1>1. i \in 1 .. Len(q)
  OBVIOUS
<1>2. SubSeq(q, 1, i - 1) \in Seq(S) /\ SubSeq(q, i + 1, Len(q)) \in Seq(S)
  BY <1>1
<1>3. QED
  BY <1>2 DEF RemoveAt

\* States keep their types.
LEMMA NextStateType ==
  TypeOK /\ Owners /\ Threads /\ Waiting /\ [Next]_vars => StateOK'
<1> SUFFICES ASSUME TypeOK, Owners, Threads, Waiting, [Next]_vars PROVE StateOK'
  OBVIOUS
<1> USE ReactorAssumption DEF ReactorAssumption, TypeOK, StateOK, stateVars
<1>1. ASSUME NEW w \in Workers, Thread(w) PROVE StateOK'
  <2>1. CASE Poll(w) \/ TaskCleanup(w) \/ TakeState(w)
    BY <2>1 DEF Poll, TaskCleanup, TakeState
  <2>2. CASE PerformIo(w)
    <3> DEFINE d == at[w].state
               ev == at[w].events
    <3>1. /\ d \in States /\ ev \in SUBSET OpTypes
          /\ UNCHANGED <<registered, down, live>>
      BY <2>2, AtWork DEF PerformIo
    <3>2. CASE UNCHANGED opQueue
               /\ trySpeculative' = [trySpeculative EXCEPT ![d] = @ \cup ev]
      <4> HIDE DEF d, ev
      <4>1. QED
        BY <3>1, <3>2
    <3>3. ASSUME NEW k \in Sockets, Complete(k, d, ev),
                 trySpeculative' = [trySpeculative EXCEPT ![d] =
                                      (@ \cup ev) \ Exhausted(k, d, ev)]
          PROVE  StateOK'
      <4> HIDE DEF d, ev
      <4>1. opQueue' = [opQueue EXCEPT ![d] =
              [j \in OpTypes |->
                 SubSeq(@[j], Len(DoneOf(k, d, ev, j)) + 1, Len(@[j]))]]
        BY <3>3 DEF Complete
      <4>2. \A j \in OpTypes :
              SubSeq(opQueue[d][j], Len(DoneOf(k, d, ev, j)) + 1,
                     Len(opQueue[d][j])) \in Seq(Ops)
        <5>1. \A j \in OpTypes :
                Len(DoneOf(k, d, ev, j)) \in 0 .. Len(opQueue[d][j])
          BY <3>1, DoneFront
        <5>2. \A j \in OpTypes : opQueue[d][j] \in Seq(Ops)
          BY <3>1
        <5>3. QED
          BY <5>1, <5>2
      <4>3. opQueue' \in [States -> [OpTypes -> Seq(Ops)]]
        BY <3>1, <4>1, <4>2
      <4>4. trySpeculative' \in [States -> SUBSET OpTypes]
        BY <3>1, <3>3
      <4>5. QED
        BY <3>1, <4>3, <4>4
    <3>4. QED
      BY <2>2, <3>2, <3>3 DEF PerformIo
  <2>3. QED
    BY <1>1, <2>1, <2>2 DEF Thread
<1>2. ASSUME NEW o \in Ops, RunPosted(o) PROVE StateOK'
  BY <1>2 DEF RunPosted
<1>3. ASSUME NEW k \in Sockets, \/ PeerSends(k) \/ PeerSendsUrgent(k)
                                \/ PeerEnds(k) \/ PeerReceives(k)
      PROVE  StateOK'
  BY <1>3 DEF PeerSends, PeerSendsUrgent, PeerEnds, PeerReceives
<1>4. ASSUME NEW k \in Sockets, NEW kind \in Kinds, Start(k, kind)
      PROVE  StateOK'
  <2>1. CASE StartClosed(k, kind) \/ StartNotSupported(k, kind)
    BY <2>1 DEF StartClosed, StartNotSupported
  <2>2. CASE StartPerformed(k, kind)
    BY <2>2, ReadyState DEF StartPerformed
  <2>3. CASE StartQueued(k, kind)
    <3>1. data[k] \in States
      BY ReadyState, <2>3 DEF StartQueued
    <3>2. NextOp \in Ops
      BY <2>3, NewIsNext DEF StartQueued, CanStart
    <3>3. opQueue' \in [States -> [OpTypes -> Seq(Ops)]]
      <4>1. opQueue' = [opQueue EXCEPT
              ![data[k]][TypeOf(kind)] = Append(@, NextOp)]
        BY <2>3 DEF StartQueued, PushBack
      <4> HIDE DEF NextOp
      <4>2. TypeOf(kind) \in OpTypes
        BY DEF TypeOf, OpTypes
      <4>3. Append(opQueue[data[k]][TypeOf(kind)], NextOp) \in Seq(Ops)
        BY <3>1, <3>2, <4>2
      <4>4. QED
        BY <3>1, <4>1, <4>2, <4>3
    <3>4. registered' \in [States -> SUBSET OpTypes]
      <4>1. registered[data[k]] \cup ({TypeOf(kind)} \cap {"write"})
              \in SUBSET OpTypes
        BY <3>1 DEF OpTypes
      <4>2. QED
        BY <2>3, <3>1, <4>1 DEF StartQueued
    <3>5. QED
      BY <2>3, <3>3, <3>4 DEF StartQueued
  <2>4. QED
    BY <1>4, <2>1, <2>2, <2>3 DEF Start
<1>5. ASSUME NEW k \in Sockets, Cancel(k) PROVE StateOK'
  <2>1. \A q \in [OpTypes -> Seq(Ops)] :
          EmptyQueues(q) \in [OpTypes -> Seq(Ops)]
    BY DEF EmptyQueues
  <2>2. data[k] \in States
    BY <1>5, ReadyState DEF Cancel, CancelOps
  <2>3. QED
    BY <1>5, <2>1, <2>2 DEF Cancel, CancelOps
<1>6. ASSUME NEW k \in Sockets, NEW j \in OpTypes, NEW i \in 1 .. MaxOp,
             CancelByKey(k, j, i)
      PROVE  StateOK'
  <2>1. data[k] \in States /\ i \in DOMAIN opQueue[data[k]][j]
    BY <1>6, ReadyState DEF CancelByKey, Queued
  <2>2. RemoveAt(opQueue[data[k]][j], i) \in Seq(Ops)
    BY <2>1, RemoveAtType
  <2>3. QED
    BY <1>6, <2>1, <2>2 DEF CancelByKey, CancelOps
<1>7. ASSUME NEW k \in Sockets, NEW d \in States, NEW isFile \in BOOLEAN,
             Open(k, d, isFile)
      PROVE  StateOK'
  BY <1>7 DEF Open, OpTypes
<1>8. ASSUME NEW k \in Sockets, NEW closing \in BOOLEAN, Deregister(k, closing)
      PROVE  StateOK'
  <2>1. \A q \in [OpTypes -> Seq(Ops)] :
          EmptyQueues(q) \in [OpTypes -> Seq(Ops)]
    BY DEF EmptyQueues
  <2>2. data[k] \in States
    BY <1>8, ReadyState DEF Deregister
  <2>3. \/ UNCHANGED <<opQueue, down>>
        \/ /\ opQueue' = [opQueue EXCEPT ![data[k]] = EmptyQueues(@)]
           /\ down' = down \cup {data[k]}
    BY <1>8 DEF Deregister
  <2>4. /\ opQueue' \in [States -> [OpTypes -> Seq(Ops)]]
        /\ down' \in SUBSET States
    BY <2>1, <2>2, <2>3
  <2>5. QED
    BY <1>8, <2>4 DEF Deregister
<1>9. ASSUME NEW k \in Sockets, CloseDescriptor(k) \/ Cleanup(k) PROVE StateOK'
  BY <1>9 DEF CloseDescriptor, Cleanup
<1>10. CASE Shutdown
  <2>1. \A q \in [OpTypes -> Seq(Ops)] :
          EmptyQueues(q) \in [OpTypes -> Seq(Ops)]
    BY DEF EmptyQueues
  <2>2. QED
    BY <1>10, <2>1 DEF Shutdown
<1>11. CASE UNCHANGED vars
  BY <1>11 DEF vars
<1>12. QED
  BY <1>1, <1>2, <1>3, <1>4, <1>5, <1>6, <1>7, <1>8, <1>9, <1>10, <1>11 DEF Next

\* What the task collects: the states of the sockets that epoll returns, each
\* once.
LEMMA PollCollects ==
  ASSUME TypeOK, Owners, Masks, Threads, NEW w \in Workers, Poll(w)
  PROVE  /\ polled' = [polled EXCEPT ![w] = polled'[w]]
         /\ polled'[w] \in Seq(Entries) /\ Once(polled'[w])
         /\ \A k \in Listed :
              /\ data[k] \in States
              /\ Entry(data[k], mask[k] \cap ReadyEvents(k))
                   \in ToSet(polled'[w])
<1> USE ReactorAssumption DEF ReactorAssumption
<1> DEFINE E(k) == Entry(data[k], mask[k] \cap ReadyEvents(k))
           C == {E(k) : k \in Listed}
<1>1. ~shut
  BY DEF Poll, Threads
<1>2. \A k \in Listed : k \in Sockets /\ data[k] \in States
  <2> SUFFICES ASSUME NEW k \in Listed PROVE k \in Sockets /\ data[k] \in States
    OBVIOUS
  <2>1. k \in Sockets /\ mask[k] # {}
    BY DEF Listed
  <2>2. phase[k] \in {"open", "deregistered"}
    BY <2>1 DEF Masks, TypeOK, SockOK, Phases
  <2>3. data[k] \in live
    BY <1>1, <2>1, <2>2 DEF Owners
  <2>4. QED
    BY <2>1, <2>3 DEF TypeOK, StateOK
<1>3. \A k \in Listed : E(k) \in Entries
  <2>1. \A k \in Listed : mask[k] \cap ReadyEvents(k) \in SUBSET OpTypes
    BY <1>2 DEF TypeOK, KernelOK
  <2>2. QED
    BY <1>2, <2>1 DEF Entries, Entry
<1>4. IsFiniteSet(C)
  <2>1. IsFiniteSet(Listed)
    BY <1>2, FS_Subset
  <2> DEFINE f == [k \in Listed |-> E(k)]
  <2>2. f \in [Listed -> C] /\ \A e \in C : \E k \in Listed : f[k] = e
    OBVIOUS
  <2> HIDE DEF f, C
  <2>3. f \in Surjection(Listed, C)
    BY <2>2 DEF Surjection
  <2>4. QED
    BY <2>1, <2>3, FS_Surjection
<1>5. C \subseteq Entries
  BY <1>3
<1>6. /\ SetToSeq(C) \in Seq(C) /\ ToSet(SetToSeq(C)) = C
      /\ \A i, j \in DOMAIN SetToSeq(C) :
           SetToSeq(C)[i] = SetToSeq(C)[j] => i = j
  BY <1>4, SetAsSeq
<1>7. polled' = [polled EXCEPT ![w] = SetToSeq(C)] /\ polled'[w] = SetToSeq(C)
  BY DEF Poll, TypeOK, SchedOK
<1>8. \A x, y \in C : x.state = y.state => x = y
  <2> SUFFICES ASSUME NEW k \in Listed, NEW l \in Listed,
                      E(k).state = E(l).state
               PROVE  E(k) = E(l)
    OBVIOUS
  <2>1. E(k).state = data[k] /\ E(l).state = data[l]
    BY DEF Entry
  <2>2. data[k] = data[l] /\ data[k] # NoState
    BY <1>2, <2>1
  <2>3. k = l
    BY <1>2, <2>2 DEF Owners
  <2>4. QED
    BY <2>3
<1>9. \A k \in Listed : E(k) \in C
  OBVIOUS
<1> HIDE DEF C
<1>10. Once(SetToSeq(C))
  <2>1. \A i \in DOMAIN SetToSeq(C) : SetToSeq(C)[i] \in C
    BY <1>6
  <2>2. QED
    BY <1>6, <1>8, <2>1 DEF Once
<1>11. SetToSeq(C) \in Seq(Entries)
  BY <1>5, <1>6
<1>12. QED
  BY <1>2, <1>6, <1>7, <1>9, <1>10, <1>11

\* The task is no state with its events.
LEMMA TaskApart == Task \notin Entries
BY ReactorAssumption DEF ReactorAssumption, Task, Entry, Entries

\* Only the threads and shutdown() move what the scheduler has.
LEMMA SchedSteps ==
  ASSUME [Next]_vars
  PROVE  \/ \E w \in Workers : Thread(w)
         \/ UNCHANGED <<schedVars, shut>>
         \/ Shutdown
<1> DEFINE Same == UNCHANGED <<schedVars, shut>>
<1>1. ASSUME NEW o \in Ops, RunPosted(o) PROVE Same
  BY <1>1 DEF RunPosted
<1>2. ASSUME NEW k \in Sockets, \/ PeerSends(k) \/ PeerSendsUrgent(k)
                                \/ PeerEnds(k) \/ PeerReceives(k)
      PROVE  Same
  BY <1>2 DEF PeerSends, PeerSendsUrgent, PeerEnds, PeerReceives
<1>3. ASSUME NEW k \in Sockets, NEW kind \in Kinds, Start(k, kind) PROVE Same
  BY <1>3 DEF Start, StartClosed, StartPerformed, StartNotSupported, StartQueued
<1>4. ASSUME NEW k \in Sockets,
             Cancel(k) \/ \E j \in OpTypes, i \in 1 .. MaxOp :
                            CancelByKey(k, j, i)
      PROVE  Same
  BY <1>4 DEF Cancel, CancelByKey, CancelOps
<1>5. ASSUME NEW k \in Sockets,
             \/ \E d \in States, isFile \in BOOLEAN : Open(k, d, isFile)
             \/ \E closing \in BOOLEAN : Deregister(k, closing)
             \/ CloseDescriptor(k) \/ Cleanup(k)
      PROVE  Same
  BY <1>5 DEF Open, Deregister, CloseDescriptor, Cleanup
<1>6. CASE UNCHANGED vars
  BY <1>6 DEF vars
<1>7. QED
  BY <1>1, <1>2, <1>3, <1>4, <1>5, <1>6 DEF Next

\* The queues of the scheduler keep their types.
LEMMA NextSchedType ==
  TypeOK /\ Owners /\ Masks /\ Threads /\ [Next]_vars => SchedOK'
<1> SUFFICES ASSUME TypeOK, Owners, Masks, Threads, [Next]_vars PROVE SchedOK'
  OBVIOUS
<1> USE DEF TypeOK, SchedOK
<1>1. ASSUME NEW w \in Workers, Poll(w) PROVE SchedOK'
  <2>1. polled' \in [Workers -> Seq(Entries)]
    BY <1>1, PollCollects
  <2>2. QED
    BY <1>1, <2>1 DEF Poll
<1>2. ASSUME NEW w \in Workers, TaskCleanup(w) PROVE SchedOK'
  <2>1. Append(polled[w], Task) \in Seq(Entries \cup {Task})
    OBVIOUS
  <2>2. queue \o Append(polled[w], Task) \in Seq(Entries \cup {Task})
    BY <2>1
  <2>3. QED
    BY <1>2, <2>2 DEF TaskCleanup, WithTask
<1>3. ASSUME NEW w \in Workers, TakeState(w) PROVE SchedOK'
  <2>1. Tail(queue) \in Seq(Entries \cup {Task}) /\ Head(queue) \in Entries
    BY <1>3 DEF TakeState
  <2>2. QED
    BY <1>3, <2>1 DEF TakeState
<1>4. ASSUME NEW w \in Workers, PerformIo(w) PROVE SchedOK'
  BY <1>4 DEF PerformIo
<1>5. CASE UNCHANGED schedVars
  BY <1>5 DEF schedVars
<1>6. CASE Shutdown
  BY <1>6 DEF Shutdown
<1>7. QED
  BY <1>1, <1>2, <1>3, <1>4, <1>5, <1>6, SchedSteps DEF Thread

\* Every operation has an outcome.
LEMMA OutcomeResult == ASSUME NEW k, NEW ks, NEW i
  PROVE Outcome(k, ks, i) \in Results
BY DEF Outcome, Results

\* The operations keep their types when some are aborted.
LEMMA AbortType == ASSUME OpOK, NEW S, Abort(S) PROVE OpOK'
BY DEF OpOK, Abort, Statuses, Results

\* They do in every step.
LEMMA NextOpType == TypeOK /\ Owners /\ Threads /\ [Next]_vars => OpOK'
<1> SUFFICES ASSUME TypeOK, Owners, Threads, [Next]_vars PROVE OpOK'
  OBVIOUS
<1> USE DEF TypeOK
<1>1. ASSUME NEW w \in Workers, Thread(w) PROVE OpOK'
  <2>1. CASE UNCHANGED opVars
    BY <2>1 DEF OpOK, opVars
  <2>2. ASSUME NEW k, NEW d, NEW ev, Complete(k, d, ev) PROVE OpOK'
    <3> DEFINE all == DoneBy(k, d, ev)
               here == IF all = <<>> THEN {} ELSE {Head(all)}
               posted == ToSet(all) \ here
               OutcomeOf(o) ==
                 LET q == opQueue[d][TypeOf(op[o].kind)]
                 IN  Outcome(k, KindsOf(q), CHOOSE i \in DOMAIN q : q[i] = o)
    <3>1. /\ op' = [o \in Ops |-> IF o \in here THEN NoOp ELSE op[o]]
          /\ status' = [o \in Ops |-> CASE o \in here -> "done"
                                        [] o \in posted -> "posted"
                                        [] OTHER -> status[o]]
          /\ result' = [o \in Ops |->
               IF o \in posted THEN OutcomeOf(o) ELSE result[o]]
      BY <2>2 DEF Complete
    <3>2. \A o : OutcomeOf(o) \in Results
      BY OutcomeResult
    <3> HIDE DEF here, posted, OutcomeOf
    <3>3. op' \in [Ops -> Records]
      BY <3>1 DEF OpOK, Records
    <3>4. status' \in [Ops -> Statuses]
      BY <3>1 DEF OpOK, Statuses
    <3>5. result' \in [Ops -> Results]
      BY <3>1, <3>2 DEF OpOK
    <3>6. QED
      BY <3>3, <3>4, <3>5 DEF OpOK
  <2>3. QED
    BY <1>1, <2>1, <2>2 DEF Thread, Poll, TaskCleanup, TakeState, PerformIo
<1>2. ASSUME NEW o \in Ops, RunPosted(o) PROVE OpOK'
  BY <1>2 DEF RunPosted, OpOK, Records, Statuses, Results
<1>3. ASSUME NEW k \in Sockets, \/ PeerSends(k) \/ PeerSendsUrgent(k)
                                \/ PeerEnds(k) \/ PeerReceives(k)
      PROVE  OpOK'
  BY <1>3 DEF PeerSends, PeerSendsUrgent, PeerEnds, PeerReceives, opVars, OpOK
<1>4. ASSUME NEW k \in Sockets, NEW kind \in Kinds, Start(k, kind)
      PROVE  OpOK'
  <2>1. ASSUME NEW how \in Statuses, NEW res \in Results, Starts(k, kind, how,
               res)
        PROVE OpOK'
    <3>1. [sock |-> k, kind |-> kind] \in Records
      BY DEF Records
    <3>2. QED
      BY <2>1, <3>1 DEF Starts, OpOK
  <2>2. Outcome(k, <<kind>>, 1) \in Results
    BY OutcomeResult
  <2>3. QED
    BY <1>4, <2>1, <2>2
       DEF Start, StartClosed, StartPerformed, StartNotSupported,
       StartQueued, Statuses, Results
<1>5. ASSUME NEW k \in Sockets,
             Cancel(k) \/ \E j \in OpTypes, i \in 1 .. MaxOp :
                            CancelByKey(k, j, i)
      PROVE  OpOK'
  BY <1>5, AbortType DEF Cancel, CancelByKey, CancelOps
<1>6. ASSUME NEW k \in Sockets, NEW closing \in BOOLEAN, Deregister(k, closing)
      PROVE  OpOK'
  <2>1. UNCHANGED opVars \/ Abort(Emptied(data[k]))
    BY <1>6 DEF Deregister
  <2>2. QED
    BY <2>1, AbortType DEF opVars, OpOK
<1>7. ASSUME NEW k \in Sockets,
             \/ \E d \in States, isFile \in BOOLEAN : Open(k, d, isFile)
             \/ CloseDescriptor(k) \/ Cleanup(k)
      PROVE  OpOK'
  BY <1>7 DEF Open, CloseDescriptor, Cleanup, opVars, OpOK
<1>8. CASE Shutdown
  BY <1>8 DEF Shutdown, OpOK, Statuses
<1>9. CASE UNCHANGED vars
  BY <1>9 DEF vars, opVars, OpOK
<1>10. QED
  BY <1>1, <1>2, <1>3, <1>4, <1>5, <1>6, <1>7, <1>8, <1>9 DEF Next

\* An operation that waits has a socket.
LEMMA QueuedOp ==
  ASSUME StateOK, OpOK, Waiting, NEW d \in States, NEW o \in QueuedIn(d)
  PROVE  /\ o \in Ops /\ status[o] = "queued" /\ op[o].sock \in Sockets
         /\ d \in live /\ data[op[o].sock] = d /\ phase[op[o].sock] = "open"
<1>1. PICK j \in OpTypes : o \in ToSet(opQueue[d][j])
  BY DEF QueuedIn
<1>2. o \in Ops /\ status[o] = "queued"
  BY <1>1, OnePlace DEF Waiting
<1>3. PICK i \in DOMAIN opQueue[d][j] : opQueue[d][j][i] = o
  BY <1>1 DEF ToSet
<1>4. op[o] # NoOp
  BY <1>3 DEF Waiting, RightQueues
<1>5. op[o].sock \in Sockets
  BY <1>2, <1>4 DEF OpOK, Records
<1>6. d \in live /\ data[op[o].sock] = d /\ phase[op[o].sock] = "open"
  BY DEF Waiting, OpsOfOwner
<1>7. QED
  BY <1>2, <1>5, <1>6

\* Sockets that do not change keep their states.
LEMMA OthersKept ==
  ASSUME OpsOfOwner, UNCHANGED <<data, phase, live>>, NEW S
  PROVE  Kept(S)
BY DEF OpsOfOwner, Kept

\* Shutdown takes out every operation.
LEMMA ShutdownRemoves ==
  ASSUME StateOK, OpOK, Waiting, Shutdown
  PROVE  LET S == {o \in Ops : status[o] = "queued"}
         IN  Removes(S) /\ Kept(S)
<1> DEFINE S == {o \in Ops : status[o] = "queued"}
<1>1. \A d \in States :
        QueuedIn(d) \subseteq S /\ (QueuedIn(d) # {} => d \in live)
  BY QueuedOp
<1>2. \A d \in States : Emptied(d) = QueuedIn(d)
  BY DEF Emptied, QueuedIn, AllQueues
<1>3. ASSUME NEW d \in States, NEW j \in OpTypes
      PROVE  Thinned(opQueue[d][j], opQueue'[d][j], S)
  <2>1. opQueue[d][j] \in Seq(Ops) /\ ToSet(opQueue[d][j]) \subseteq S
    BY <1>1, OnePlace DEF Waiting
  <2>2. opQueue'[d][j] = <<>>
    <3>1. CASE d \in live
      BY <3>1 DEF Shutdown, StateOK, EmptyQueues, AllQueues
    <3>2. CASE d \notin live
      <4>1. ToSet(opQueue[d][j]) = {}
        BY <1>1, <3>2 DEF QueuedIn
      <4>2. \A q \in Seq(Ops) : ToSet(q) = {} => q = <<>>
        <5>1. \A q \in Seq(Ops) : q # <<>> => 1 \in DOMAIN q
          OBVIOUS
        <5>2. QED
          BY <5>1 DEF ToSet
      <4>3. opQueue[d][j] = <<>>
        BY <2>1, <4>1, <4>2
      <4>4. QED
        BY <3>2, <4>3 DEF Shutdown
    <3>3. QED
      BY <3>1, <3>2
  <2> HIDE DEF S
  <2>3. QED
    BY <2>1, <2>2, ThinnedEmpty
<1>4. \A o \in Ops : status'[o] = IF o \in S \/ status[o] = "posted"
                                   THEN "destroyed" ELSE status[o]
  <2>1. \A o \in Ops : (\E d \in live : o \in Emptied(d)) <=> o \in S
    <3>1. \A o \in S : \E d \in States : o \in QueuedIn(d)
      BY DEF Waiting, OpsOfOwner
    <3>2. live \subseteq States
      BY DEF StateOK
    <3>3. QED
      BY <1>1, <1>2, <3>1, <3>2
  <2>2. \A o \in Ops : status'[o] = IF \/ \E d \in live : o \in Emptied(d)
                                       \/ status[o] = "posted"
                                      THEN "destroyed" ELSE status[o]
    BY DEF Shutdown
  <2>3. QED
    BY <2>1, <2>2
<1>5. \A o \in Ops :
        /\ status'[o] = "queued" <=> status[o] = "queued" /\ o \notin S
        /\ status'[o] = "new" <=> status[o] = "new"
        /\ status'[o] = "queued" => op'[o] = op[o]
  BY <1>4 DEF Shutdown
<1>6. Kept(S)
  BY <1>1 DEF Kept
<1> HIDE DEF S
<1>7. Removes(S)
  BY <1>3, <1>5 DEF Removes
<1>8. QED
  BY <1>6, <1>7 DEF S

\* Apart from the operations that start, a step takes some out of their queues,
\* and keeps the others where they are.
RemovesSome == \E S : Removes(S) /\ Kept(S)

\* How a step may change the queues.
LEMMA WaitSteps ==
  ASSUME TypeOK, Owners, Threads, Waiting, [Next]_vars
  PROVE  \/ RemovesSome
         \/ \E k \in Sockets, kind \in Kinds : Start(k, kind)
<1>0. StateOK /\ OpOK /\ OpsOfOwner /\ work \in Int
  BY DEF TypeOK, Waiting
<1> DEFINE Same == UNCHANGED <<data, phase, live>>
<1>a. ASSUME NEW S, Removes(S), Same PROVE RemovesSome
  BY <1>0, <1>a, OthersKept DEF RemovesSome
<1>b. ASSUME UNCHANGED <<opQueue, op, status>>, Same PROVE RemovesSome
  BY <1>0, <1>a, <1>b, NothingRemoved
<1>1. ASSUME NEW w \in Workers, Thread(w) PROVE RemovesSome
  <2>1. CASE Poll(w) \/ TaskCleanup(w) \/ TakeState(w)
    BY <1>b, <2>1 DEF Poll, TaskCleanup, TakeState, sockVars, stateVars, opVars
  <2>2. CASE PerformIo(w)
    <3>1. Same
      BY <2>2 DEF PerformIo, sockVars
    <3>2. CASE UNCHANGED <<opQueue, op, status>>
      BY <1>b, <3>1, <3>2
    <3>3. ASSUME NEW k \in Sockets, Complete(k, at[w].state, at[w].events)
          PROVE RemovesSome
      <4>1. at[w].state \in States /\ at[w].events \in SUBSET OpTypes
        BY <2>2, AtWork DEF PerformIo
      <4>2. Removes(Performances(k, at[w].state, at[w].events))
        BY <1>0, <3>3, <4>1, CompleteDone
      <4>3. QED
        BY <1>a, <3>1, <4>2
    <3>4. QED
      BY <2>2, <3>2, <3>3 DEF PerformIo, opVars
  <2>3. QED
    BY <1>1, <2>1, <2>2 DEF Thread
<1>2. ASSUME NEW o \in Ops, RunPosted(o) PROVE RemovesSome
  <2>1. UNCHANGED opQueue /\ Same
    BY <1>2 DEF RunPosted, sockVars, stateVars
  <2>2. \A p \in Ops : /\ status'[p] = "queued" <=> status[p] = "queued"
                       /\ status'[p] = "new" <=> status[p] = "new"
                       /\ status'[p] = "queued" => op'[p] = op[p]
    BY <1>2, <1>0 DEF RunPosted, OpOK
  <2>3. Removes({})
    BY <1>0, <2>1, <2>2, NoneRemoved
  <2>4. QED
    BY <1>a, <2>1, <2>3
<1>3. ASSUME NEW k \in Sockets, \/ PeerSends(k) \/ PeerSendsUrgent(k)
                                \/ PeerEnds(k) \/ PeerReceives(k)
      PROVE  RemovesSome
  BY <1>b, <1>3
     DEF PeerSends, PeerSendsUrgent, PeerEnds, PeerReceives, sockVars,
     stateVars, opVars
<1>5. ASSUME NEW k \in Sockets, Cancel(k) PROVE RemovesSome
  <2>1. data[k] \in States
    BY <1>5, ReadyState DEF Cancel, CancelOps
  <2>2. Removes(QueuedIn(data[k]))
    BY <1>0, <1>5, <2>1, EmptiesState DEF Cancel, CancelOps
  <2>3. QED
    BY <1>a, <1>5, <2>2 DEF Cancel, CancelOps, sockVars
<1>6. ASSUME NEW k \in Sockets, NEW j \in OpTypes, NEW i \in 1 .. MaxOp,
             CancelByKey(k, j, i)
      PROVE  RemovesSome
  <2>1. data[k] \in States
    BY <1>6, ReadyState DEF CancelByKey
  <2>2. Removes({opQueue[data[k]][j][i]})
    BY <1>0, <1>6, <2>1, RemovesByKey DEF CancelByKey, CancelOps, Queued
  <2>3. QED
    BY <1>a, <1>6, <2>2 DEF CancelByKey, CancelOps, sockVars
<1>7. ASSUME NEW k \in Sockets, NEW d \in States, NEW isFile \in BOOLEAN,
             Open(k, d, isFile)
      PROVE  RemovesSome
  <2>1. Removes({})
    BY <1>0, <1>7, NothingRemoved DEF Open, opVars
  <2>2. \A e \in States : \A o \in QueuedIn(e) : op[o].sock # k
    BY <1>7, <1>0, QueuedOp DEF Open
  <2>3. \A e \in States : \A o \in QueuedIn(e) \ {} :
          e \in live' /\ data'[op[o].sock] = e /\ phase'[op[o].sock] = "open"
    BY <1>7, <1>0, <2>2, QueuedOp DEF Open, TypeOK, SockOK
  <2>4. QED
    BY <1>0, <2>1, <2>3 DEF Kept, RemovesSome
<1>8. ASSUME NEW k \in Sockets, NEW closing \in BOOLEAN, Deregister(k, closing)
      PROVE  RemovesSome
  <2>0. data[k] \in States
    BY <1>8, ReadyState DEF Deregister
  <2>1. CASE data[k] \in down
    <3>1. Removes({})
      BY <1>0, <1>8, <2>1, NothingRemoved DEF Deregister, opVars
    <3>2. live = {}
      BY <1>8, <2>1 DEF Deregister, Owners
    <3>3. \A e \in States : QueuedIn(e) = {}
      BY <1>0, <3>2, QueuedOp
    <3>4. QED
      BY <1>0, <3>1, <3>3 DEF Kept, RemovesSome
  <2>2. CASE data[k] \notin down
    <3>1. Removes(QueuedIn(data[k]))
      BY <1>0, <1>8, <2>0, <2>2, EmptiesState DEF Deregister
    <3>2. \A e \in States : \A o \in QueuedIn(e) \ QueuedIn(data[k]) :
            op[o].sock # k
      BY <1>0, QueuedOp
    <3>3. \A e \in States : \A o \in QueuedIn(e) \ QueuedIn(data[k]) :
            e \in live' /\ data'[op[o].sock] = e /\ phase'[op[o].sock] = "open"
      BY <1>8, <1>0, <3>2, QueuedOp DEF Deregister, TypeOK, SockOK
    <3>4. QED
      BY <1>0, <3>1, <3>3 DEF Kept, RemovesSome
  <2>3. QED
    BY <2>1, <2>2
<1>9. ASSUME NEW k \in Sockets, CloseDescriptor(k) \/ Cleanup(k)
      PROVE RemovesSome
  <2>1. Removes({})
    BY <1>0, <1>9, NothingRemoved
       DEF CloseDescriptor, Cleanup, opVars, stateVars
  <2>2. \A e \in States : \A o \in QueuedIn(e) : op[o].sock # k
    BY <1>9, <1>0, QueuedOp DEF CloseDescriptor, Cleanup
  <2>3. \A e \in States : \A o \in QueuedIn(e) : data[k] # e
    BY <1>0, <2>2, QueuedOp, ReactorAssumption DEF ReactorAssumption, Owners
  <2>4. \A e \in States : \A o \in QueuedIn(e) \ {} :
          e \in live' /\ data'[op[o].sock] = e /\ phase'[op[o].sock] = "open"
    BY <1>9, <1>0, <2>2, <2>3, QueuedOp
       DEF CloseDescriptor, Cleanup, TypeOK, SockOK, stateVars
  <2>5. QED
    BY <1>0, <2>1, <2>4 DEF Kept, RemovesSome
<1>10. CASE Shutdown
  BY <1>0, <1>10, ShutdownRemoves DEF RemovesSome
<1>11. CASE UNCHANGED vars
  BY <1>b, <1>11 DEF vars, sockVars, stateVars, opVars
<1>12. QED
  BY <1>1, <1>2, <1>3, <1>5, <1>6, <1>7, <1>8, <1>9, <1>10, <1>11 DEF Next

\* Operations wait in the states of their sockets, in order.
LEMMA NextWaiting ==
  TypeOK /\ Owners /\ Threads /\ Waiting /\ [Next]_vars => Waiting'
<1> SUFFICES ASSUME TypeOK, Owners, Threads, Waiting, [Next]_vars PROVE Waiting'
  OBVIOUS
<1>0. StateOK /\ OpOK
  BY DEF TypeOK
<1>1. CASE RemovesSome
  BY <1>0, <1>1, RemovesWaiting DEF RemovesSome
<1>2. ASSUME NEW k \in Sockets, NEW kind \in Kinds, Start(k, kind)
      PROVE  Waiting'
  <2>1. ASSUME NEW res, Starts(k, kind, "posted", res), NewOps # {},
               UNCHANGED <<opQueue, live, data, phase>>
        PROVE  Waiting'
    BY <1>0, <2>1, PostsWaiting
  <2>2. CASE StartClosed(k, kind) \/ StartNotSupported(k, kind)
    BY <2>1, <2>2
       DEF StartClosed, StartNotSupported, CanStart, sockVars, stateVars
  <2>3. CASE StartPerformed(k, kind)
    BY <2>1, <2>3 DEF StartPerformed, CanStart, sockVars
  <2>4. CASE StartQueued(k, kind)
    BY <2>4, QueuesWaiting
  <2>5. QED
    BY <1>2, <2>2, <2>3, <2>4 DEF Start
<1>3. QED
  BY <1>1, <1>2, WaitSteps

----------------------------------------------------------------------------
(* What epoll looks for, and who runs the task *)

\* The queues that are not empty were so before, unless an operation joins one.
LEMMA QueuesShrink ==
  ASSUME StateOK, NEW S, Removes(S)
  PROVE  \A d \in States, j \in OpTypes :
           opQueue'[d][j] # <<>> => opQueue[d][j] # <<>>
<1> SUFFICES ASSUME NEW d \in States, NEW j \in OpTypes, opQueue'[d][j] # <<>>
             PROVE  opQueue[d][j] # <<>>
  OBVIOUS
<1>1. /\ opQueue'[d][j] \in Seq(Ops)
      /\ ToSet(opQueue'[d][j]) = ToSet(opQueue[d][j]) \ S
  BY DEF Removes, Thinned
<1>2. 1 \in DOMAIN opQueue'[d][j]
  BY <1>1
<1>3. ToSet(opQueue[d][j]) # {}
  BY <1>1, <1>2 DEF ToSet
<1>4. QED
  BY <1>3 DEF ToSet

\* Few steps change what epoll looks for.
LEMMA MaskSteps ==
  ASSUME [Next]_vars
  PROVE  \/ UNCHANGED <<phase, data, files, mask, registered>>
         \/ \E k \in Sockets :
              \/ \E kind \in Kinds : StartQueued(k, kind)
              \/ \E d \in States, isFile \in BOOLEAN : Open(k, d, isFile)
              \/ \E closing \in BOOLEAN : Deregister(k, closing)
              \/ CloseDescriptor(k) \/ Cleanup(k)
<1> DEFINE Same == UNCHANGED <<phase, data, files, mask, registered>>
<1> USE DEF sockVars, kernelVars, stateVars
<1>1. ASSUME NEW w \in Workers, Thread(w) PROVE Same
  BY <1>1 DEF Thread, Poll, TaskCleanup, TakeState, PerformIo, stateVars
<1>2. ASSUME NEW o \in Ops, RunPosted(o) PROVE Same
  BY <1>2 DEF RunPosted, stateVars
<1>3. ASSUME NEW k \in Sockets, \/ PeerSends(k) \/ PeerSendsUrgent(k)
                                \/ PeerEnds(k) \/ PeerReceives(k)
      PROVE  Same
  BY <1>3 DEF PeerSends, PeerSendsUrgent, PeerEnds, PeerReceives, stateVars
<1>4. ASSUME NEW k \in Sockets,
             Cancel(k) \/ \E j \in OpTypes, i \in 1 .. MaxOp :
                            CancelByKey(k, j, i)
      PROVE  Same
  BY <1>4 DEF Cancel, CancelByKey, CancelOps
<1>5. ASSUME NEW k \in Sockets, NEW kind \in Kinds,
             StartClosed(k, kind) \/ StartPerformed(k, kind)
             \/ StartNotSupported(k, kind)
      PROVE  Same
  BY <1>5 DEF StartClosed, StartPerformed, StartNotSupported
<1>6. CASE Shutdown \/ UNCHANGED vars
  BY <1>6 DEF Shutdown, vars, stateVars
<1>7. QED
  BY <1>1, <1>2, <1>3, <1>4, <1>5, <1>6 DEF Next, Start

\* A socket whose state may be changed is open, and a state that is registered
\* anew was nobody's.
LEMMA NextQueuesMasks ==
  ASSUME TypeOK, Owners, Masks, Threads, Waiting, [Next]_vars
  PROVE  \A d \in States, j \in OpTypes :
           opQueue'[d][j] # <<>> => j \in registered'[d]
<1> USE DEF TypeOK
<1>0. StateOK /\ OpOK /\ \A d \in States, j \in OpTypes :
                         opQueue[d][j] # <<>> => j \in registered[d]
  BY DEF Masks
<1>1. ASSUME NEW S, Removes(S),
             \A d \in States : registered[d] \subseteq registered'[d]
      PROVE  \A d \in States, j \in OpTypes :
               opQueue'[d][j] # <<>> => j \in registered'[d]
  BY <1>0, <1>1, QueuesShrink
<1>2. ASSUME NEW k \in Sockets, NEW kind \in Kinds, Start(k, kind)
      PROVE  \A d \in States, j \in OpTypes :
               opQueue'[d][j] # <<>> => j \in registered'[d]
  <2>1. CASE StartClosed(k, kind) \/ StartPerformed(k, kind)
             \/ StartNotSupported(k, kind)
    BY <1>0, <2>1 DEF StartClosed, StartPerformed, StartNotSupported, stateVars
  <2>2. CASE StartQueued(k, kind)
    <3>1. /\ data[k] \in States /\ phase[k] = "open"
          /\ mask[k] = registered[data[k]]
      BY <2>2, ReadyState DEF StartQueued, Masks
    <3>2. \A d \in States, j \in OpTypes :
            \/ opQueue'[d][j] = opQueue[d][j]
            \/ d = data[k] /\ j = TypeOf(kind)
      BY <2>2, <3>1 DEF StartQueued, StateOK
    <3>3. \A d \in States : registered[d] \subseteq registered'[d]
      BY <2>2, <3>1 DEF StartQueued, StateOK
    <3>4. TypeOf(kind) \in registered'[data[k]]
      <4>1. CASE Queued(k, TypeOf(kind)) # <<>>
        BY <1>0, <3>1, <3>3, <4>1 DEF Queued, TypeOf, OpTypes
      <4>2. CASE TypeOf(kind) # "write" /\ Queued(k, TypeOf(kind)) = <<>>
        <5>1. registered[data[k]] # {}
          BY <2>2, <4>2 DEF StartQueued
        <5>2. {"read", "except"} \subseteq registered[data[k]]
          BY <3>1, <5>1 DEF Masks
        <5>3. QED
          BY <3>1, <3>3, <4>2, <5>2 DEF TypeOf
      <4>3. CASE TypeOf(kind) = "write" /\ Queued(k, TypeOf(kind)) = <<>>
        <5>1. kind = "write"
          BY <4>3 DEF TypeOf
        <5>2. CASE "write" \in registered[data[k]]
          BY <3>1, <3>3, <4>3, <5>2
        <5>3. CASE "write" \notin registered[data[k]]
          <6>1. AsksEpoll(k, kind)
            BY <4>3, <5>1, <5>3 DEF AsksEpoll
          <6>2. registered' = [registered EXCEPT ![data[k]] =
                  registered[data[k]] \cup ({TypeOf(kind)} \cap {"write"})]
            BY <2>2, <6>1 DEF StartQueued
          <6>3. QED
            BY <3>1, <4>3, <6>2 DEF StateOK
        <5>4. QED
          BY <5>2, <5>3
      <4>4. QED
        BY <4>1, <4>2, <4>3
    <3>5. QED
      BY <1>0, <3>2, <3>3, <3>4
  <2>3. QED
    BY <1>2, <2>1, <2>2 DEF Start
<1>3. ASSUME NEW k \in Sockets, NEW d \in States, NEW isFile \in BOOLEAN,
             Open(k, d, isFile)
      PROVE  \A e \in States, j \in OpTypes :
               opQueue'[e][j] # <<>> => j \in registered'[e]
  <2>1. QueuedIn(d) = {}
    BY <1>0, <1>3, QueuedOp DEF Open
  <2>2. \A j \in OpTypes : opQueue[d][j] = <<>>
    <3>1. \A j \in OpTypes :
            opQueue[d][j] \in Seq(Ops) /\ ToSet(opQueue[d][j]) = {}
      BY <2>1, OnePlace DEF Waiting
    <3>2. \A q \in Seq(Ops) : q # <<>> => 1 \in DOMAIN q
      OBVIOUS
    <3>3. QED
      BY <3>1, <3>2 DEF ToSet
  <2>3. \A e \in States : e # d => registered'[e] = registered[e]
    BY <1>3 DEF Open, StateOK
  <2>4. QED
    BY <1>0, <1>3, <2>2, <2>3 DEF Open
<1>4. \/ UNCHANGED registered
      \/ \E k \in Sockets, kind \in Kinds : Start(k, kind)
      \/ \E k \in Sockets, d \in States, isFile \in BOOLEAN : Open(k, d, isFile)
  BY MaskSteps DEF Start, Deregister, CloseDescriptor, Cleanup, stateVars
<1>5. QED
  BY <1>1, <1>2, <1>3, <1>4, WaitSteps DEF RemovesSome

\* epoll looks for what the states say.
LEMMA NextMasks ==
  TypeOK /\ Owners /\ Masks /\ Threads /\ Waiting /\ [Next]_vars => Masks'
<1> SUFFICES ASSUME TypeOK, Owners, Masks, Threads, Waiting, [Next]_vars
             PROVE Masks'
  OBVIOUS
<1> DEFINE M(k) == /\ phase[k] \in {"closed", "unlinked"} =>
                        mask[k] = {} /\ k \notin files
                   /\ phase[k] = "open" =>
                        /\ mask[k] = registered[data[k]]
                        /\ mask[k] = {} \/ {"read", "except"} \subseteq mask[k]
                        /\ k \in files => mask[k] = {}
<1>0. \A k \in Sockets : M(k)
  BY DEF Masks
<1> USE ReactorAssumption DEF ReactorAssumption, TypeOK, SockOK, KernelOK,
      StateOK
<1>1. CASE UNCHANGED <<phase, data, files, mask, registered>>
  <2>1. \A k \in Sockets : M(k)'
    BY <1>0, <1>1
  <2>2. QED
    BY <2>1, NextQueuesMasks DEF Masks
<1>2. ASSUME NEW k \in Sockets, NEW kind \in Kinds, StartQueued(k, kind)
      PROVE  \A l \in Sockets : M(l)'
  <2>1. CASE AsksEpoll(k, kind)
    <3> DEFINE ev == registered[data[k]] \cup ({TypeOf(kind)} \cap {"write"})
    <3>1. /\ registered' = [registered EXCEPT ![data[k]] = ev]
          /\ mask' = [mask EXCEPT ![k] = ev] /\ UNCHANGED <<phase, data, files>>
          /\ phase[k] = "open" /\ registered[data[k]] # {}
      BY <1>2, <2>1 DEF StartQueued, Control, sockVars, AsksEpoll
    <3>2. data[k] \in States /\ mask[k] = registered[data[k]] /\ k \notin files
          /\ {"read", "except"} \subseteq registered[data[k]]
      BY <1>0, <3>1, ReadyState
    <3>3. {"read", "except"} \subseteq ev
      BY <3>2
    <3> HIDE DEF ev
    <3>4. M(k)'
      BY <3>1, <3>2, <3>3
    <3>5. ASSUME NEW l \in Sockets, l # k PROVE M(l)'
      <4>1. phase[l] = "open" => data[l] # data[k]
        BY <3>2, <3>5 DEF Owners
      <4>2. QED
        BY <1>0, <3>1, <3>5, <4>1
    <3>6. QED
      BY <3>4, <3>5
  <2>2. CASE ~AsksEpoll(k, kind)
    BY <1>0, <1>2, <2>2 DEF StartQueued, sockVars
  <2>3. QED
    BY <2>1, <2>2
<1>3. ASSUME NEW k \in Sockets, NEW d \in States, NEW isFile \in BOOLEAN,
             Open(k, d, isFile)
      PROVE  \A l \in Sockets : M(l)'
  <2>1. /\ phase' = [phase EXCEPT ![k] = "open"]
        /\ data' = [data EXCEPT ![k] = d]
        /\ files' = IF isFile THEN files \cup {k} ELSE files
        /\ registered' = [registered EXCEPT
             ![d] = IF isFile THEN {} ELSE {"read", "except"}]
        /\ mask' = [mask EXCEPT
             ![k] = IF isFile THEN {} ELSE {"read", "except"}]
        /\ phase[k] = "closed" /\ d \notin live /\ ~shut
    BY <1>3 DEF Open, Control
  <2>2. k \notin files
    BY <1>0, <2>1
  <2>3. M(k)'
    BY <2>1, <2>2
  <2>4. ASSUME NEW l \in Sockets, l # k PROVE M(l)'
    <3>1. phase[l] = "open" => data[l] # d
      BY <2>1 DEF Owners
    <3>2. QED
      BY <1>0, <2>1, <2>4, <3>1
  <2>5. QED
    BY <2>3, <2>4
<1>4. ASSUME NEW k \in Sockets, NEW closing \in BOOLEAN, Deregister(k, closing)
      PROVE  \A l \in Sockets : M(l)'
  <2>1. /\ phase' = [phase EXCEPT ![k] = "deregistered"]
        /\ data' = [data EXCEPT ![k] = DataLeft(k)]
        /\ UNCHANGED <<files, registered>>
        /\ \A l \in Sockets \ {k} : mask'[l] = mask[l]
    BY <1>4 DEF Deregister
  <2>2. QED
    BY <1>0, <2>1
<1>5. ASSUME NEW k \in Sockets, CloseDescriptor(k)
      PROVE \A l \in Sockets : M(l)'
  BY <1>0, <1>5 DEF CloseDescriptor, stateVars
<1>6. ASSUME NEW k \in Sockets, Cleanup(k) PROVE \A l \in Sockets : M(l)'
  BY <1>0, <1>6 DEF Cleanup, kernelVars
<1>7. (\A k \in Sockets : M(k)') => Masks'
  BY NextQueuesMasks DEF Masks
<1> HIDE DEF M
<1>8. QED
  BY <1>1, <1>2, <1>3, <1>4, <1>5, <1>6, <1>7, MaskSteps

\* One thread at most runs the task.
LEMMA NextThreads ==
  TypeOK /\ Owners /\ Masks /\ Threads /\ [Next]_vars => Threads'
<1> SUFFICES ASSUME TypeOK, Owners, Masks, Threads, [Next]_vars PROVE Threads'
  OBVIOUS
<1> USE DEF TypeOK, SchedOK
<1>1. ASSUME NEW w \in Workers, Poll(w) PROVE Threads'
  <2>1. queue \in Seq(Entries \cup {Task}) /\ queue # <<>> /\ queue[1] = Task
    BY <1>1 DEF Poll
  <2>2. Len(queue) = 1
    <3>1. 1 \in DOMAIN queue /\ Len(queue) \in Nat /\ Len(queue) >= 1
      BY <2>1
    <3>2. ~(1 < Len(queue))
      BY <2>1, <3>1 DEF Threads
    <3>3. \A n \in Nat : n >= 1 /\ ~(1 < n) => n = 1
      OBVIOUS
    <3>4. QED
      BY <3>1, <3>2, <3>3, Zenon
  <2>3. queue' = <<>>
    BY <1>1, <2>1, <2>2 DEF Poll
  <2>4. \A v \in Workers : pc[v] # "polled"
    BY <2>1 DEF Threads
  <2>5. Once(polled'[w]) /\ \A v \in Workers \ {w} : polled'[v] = polled[v]
    BY <1>1, PollCollects DEF Poll
  <2>6. Once(queue')
    BY <2>3 DEF Once
  <2>7. /\ pc' = [pc EXCEPT ![w] = "polled"] /\ at' = at /\ shut' = shut
        /\ pc[w] = "idle" /\ ~shut
    BY <1>1, <2>1 DEF Poll, Threads
  <2>8. \A v \in Workers : Once(polled'[v])
    BY <2>5 DEF Threads, Once
  <2>9. \A v \in Workers : pc'[v] = IF v = w THEN "polled" ELSE pc[v]
    BY <2>7
  <2>10. QED
    BY <2>3, <2>4, <2>5, <2>6, <2>7, <2>8, <2>9 DEF Threads
<1>2. ASSUME NEW w \in Workers, TaskCleanup(w) PROVE Threads'
  <2>1. /\ queue = <<>> /\ ~shut /\ \A v \in Workers : pc[v] = "polled" => v = w
        /\ polled[w] \in Seq(Entries) /\ Once(polled[w])
    BY <1>2 DEF TaskCleanup, Threads
  <2>2. queue' = Append(polled[w], Task)
    <3>1. Append(polled[w], Task) \in Seq(Entries \cup {Task})
      BY <2>1
    <3>2. queue' = <<>> \o Append(polled[w], Task)
      BY <1>2, <2>1 DEF TaskCleanup, WithTask
    <3>3. QED
      BY <3>1, <3>2
  <2>3. \A i \in DOMAIN queue' :
          \/ i \in DOMAIN polled[w] /\ queue'[i] = polled[w][i]
          \/ i = Len(polled[w]) + 1 /\ queue'[i] = Task
    BY <2>1, <2>2
  <2>4. \A i \in DOMAIN polled[w] : polled[w][i].state \in States
    <3>1. \A i \in DOMAIN polled[w] : polled[w][i] \in Entries
      BY <2>1
    <3>2. QED
      BY <3>1 DEF Entries
  <2>5. Task.state \notin States
    BY ReactorAssumption DEF ReactorAssumption, Task, Entry
  <2>6. Once(queue')
    BY <2>1, <2>3, <2>4, <2>5 DEF Once
  <2>7. \A i \in DOMAIN queue' : i < Len(queue') => queue'[i] # Task
    <3>1. Len(queue') = Len(polled[w]) + 1
      BY <2>1, <2>2
    <3>2. QED
      BY <2>3, <2>4, <2>5, <3>1
  <2>8. /\ pc' = [pc EXCEPT ![w] = "idle"]
        /\ polled' = [polled EXCEPT ![w] = <<>>]
        /\ at' = at /\ shut' = shut /\ pc[w] = "polled"
    BY <1>2 DEF TaskCleanup
  <2>9. \A v \in Workers : /\ pc'[v] = IF v = w THEN "idle" ELSE pc[v]
                           /\ polled'[v] = IF v = w THEN <<>> ELSE polled[v]
    BY <2>8
  <2>10. \A v \in Workers : Once(polled'[v])
    BY <2>9 DEF Threads, Once
  <2>11. \A v \in Workers : pc'[v] # "polled"
    BY <2>1, <2>9
  <2>12. \A v \in Workers : /\ pc'[v] # "polled" => polled'[v] = <<>>
                            /\ IF pc'[v] = "perform" THEN at'[v] \in Entries
                                                     ELSE at'[v] = Nothing
    BY <2>8, <2>9 DEF Threads
  <2>13. QED
    BY <2>1, <2>6, <2>7, <2>8, <2>10, <2>11, <2>12 DEF Threads
<1>3. ASSUME NEW w \in Workers, TakeState(w) PROVE Threads'
  <2>1. /\ queue \in Seq(Entries \cup {Task}) /\ queue # <<>> /\ ~shut
        /\ Head(queue) \in Entries /\ queue' = Tail(queue)
        /\ \A v \in Workers : pc[v] # "polled"
    BY <1>3 DEF TakeState, Threads
  <2>2. \A i \in DOMAIN queue' : /\ i + 1 \in DOMAIN queue
                                 /\ queue'[i] = queue[i + 1]
                                 /\ i < Len(queue') => i + 1 < Len(queue)
                                 /\ i \in Nat
    BY <2>1
  <2>3. Once(queue')
    BY <2>2 DEF Threads, Once
  <2>4. \A i \in DOMAIN queue' : i < Len(queue') => queue'[i] # Task
    BY <2>2 DEF Threads
  <2>5. /\ pc' = [pc EXCEPT ![w] = "perform"]
        /\ at' = [at EXCEPT ![w] = Head(queue)]
        /\ polled' = polled /\ shut' = shut
    BY <1>3 DEF TakeState
  <2>6. \A v \in Workers : /\ pc'[v] = IF v = w THEN "perform" ELSE pc[v]
                           /\ at'[v] = IF v = w THEN Head(queue) ELSE at[v]
    BY <2>5
  <2>7. \A v \in Workers : Once(polled'[v])
    BY <2>5 DEF Threads
  <2>8. QED
    BY <2>1, <2>3, <2>4, <2>5, <2>6, <2>7 DEF Threads
<1>4. ASSUME NEW w \in Workers, PerformIo(w) PROVE Threads'
  <2>1. /\ pc' = [pc EXCEPT ![w] = "idle"] /\ at' = [at EXCEPT ![w] = Nothing]
        /\ polled' = polled /\ shut' = shut /\ queue' = queue
        /\ pc[w] = "perform" /\ ~shut
    BY <1>4 DEF PerformIo, Threads
  <2>2. \A v \in Workers : /\ pc'[v] = IF v = w THEN "idle" ELSE pc[v]
                           /\ at'[v] = IF v = w THEN Nothing ELSE at[v]
    BY <2>1
  <2>3. Once(queue') /\ \A v \in Workers : Once(polled'[v])
    BY <2>1 DEF Threads
  <2>4. \A i \in DOMAIN queue' : i < Len(queue') => queue'[i] # Task
    BY <2>1 DEF Threads
  <2>5. \A v \in Workers : /\ pc'[v] # "polled" => polled'[v] = <<>>
                            /\ IF pc'[v] = "perform" THEN at'[v] \in Entries
                                                     ELSE at'[v] = Nothing
    BY <2>1, <2>2 DEF Threads
  <2>6. \A v \in Workers : pc'[v] = "polled" =>
           queue' = <<>> /\ \A u \in Workers : pc'[u] = "polled" => u = v
    BY <2>1, <2>2 DEF Threads
  <2>7. QED
    BY <2>1, <2>3, <2>4, <2>5, <2>6 DEF Threads
<1>5. CASE UNCHANGED <<schedVars, shut>>
  BY <1>5 DEF schedVars, Threads, Once
<1>6. CASE Shutdown
  <2>1. /\ \A v \in Workers : pc[v] = "idle" /\ queue' = <<>>
        /\ UNCHANGED <<pc, at, polled>>
    BY <1>6 DEF Shutdown
  <2>2. Once(queue') /\ \A v \in Workers : Once(polled'[v])
    BY <1>6 DEF Shutdown, Threads, Once
  <2>3. QED
    BY <1>6, <2>2 DEF Shutdown, Threads
<1>7. QED
  BY <1>1, <1>2, <1>3, <1>4, <1>5, <1>6, SchedSteps DEF Thread

----------------------------------------------------------------------------
(* Work *)

\* Of the operations that are under way, one is gone, or one has come.
LEMMA UnderFinite == IsFiniteSet(Under)
<1>1. IsFiniteSet(Ops)
  BY FS_Interval, ReactorAssumption DEF ReactorAssumption, Ops
<1>2. QED
  BY <1>1, FS_Subset DEF Under

\* One has come.
LEMMA UnderMore ==
  ASSUME ~shut => work = Cardinality(Under), UNCHANGED shut, work \in Int,
         NEW o, o \notin Under, Under' = Under \cup {o}, work' = work + 1
  PROVE  WorkIsOps'
<1>1. Cardinality(Under') = Cardinality(Under) + 1
  BY UnderFinite, FS_AddElement
<1>2. QED
  BY <1>1 DEF WorkIsOps, Under

\* One is gone.
LEMMA UnderLess ==
  ASSUME ~shut => work = Cardinality(Under), UNCHANGED shut, work \in Int,
         NEW o, o \in Under, Under' = Under \ {o}, work' = work - 1
  PROVE  WorkIsOps'
<1>1. Cardinality(Under') = Cardinality(Under) - 1
  BY UnderFinite, FS_RemoveElement
<1>2. QED
  BY <1>1 DEF WorkIsOps, Under

\* There are as many as before.
LEMMA UnderSame ==
  ASSUME WorkIsOps, Under' = Under, work' = work, shut' = shut
  PROVE  WorkIsOps'
BY DEF WorkIsOps, Under

\* What is aborted was queued, and is posted.
LEMMA AbortSame ==
  ASSUME OpOK, WorkIsOps, NEW S, Abort(S), UNCHANGED shut,
         \A o \in S : status[o] = "queued"
  PROVE  WorkIsOps'
<1>1. Under' = Under
  BY DEF Under, Abort, OpOK
<1>2. QED
  BY <1>1, UnderSame DEF Abort

\* The count of the work follows the operations.
LEMMA NextWork ==
  TypeOK /\ Owners /\ Threads /\ Waiting /\ WorkIsOps /\ [Next]_vars
    => WorkIsOps'
<1> SUFFICES ASSUME TypeOK, Owners, Threads, Waiting, WorkIsOps, [Next]_vars
             PROVE  WorkIsOps'
  OBVIOUS
<1>0. /\ StateOK /\ OpOK /\ OpsOfOwner /\ work \in Int
      /\ ~shut => work = Cardinality(Under)
  BY DEF TypeOK, Waiting, WorkIsOps, Under
<1>a. ASSUME UNCHANGED <<status, work, shut>> PROVE WorkIsOps'
  BY <1>a DEF WorkIsOps
<1>b. \A d \in States : \A o \in QueuedIn(d) : status[o] = "queued"
  BY <1>0, QueuedOp
<1>1. ASSUME NEW w \in Workers, Thread(w) PROVE WorkIsOps'
  <2>1. CASE Poll(w) \/ TaskCleanup(w) \/ TakeState(w)
    BY <1>a, <2>1 DEF Poll, TaskCleanup, TakeState, opVars
  <2>2. CASE PerformIo(w)
    <3> DEFINE d == at[w].state
               ev == at[w].events
    <3>1. d \in States /\ ev \in SUBSET OpTypes /\ UNCHANGED shut
      BY <2>2, AtWork DEF PerformIo
    <3>2. CASE work' = work + Compensation(<<>>) - 1 /\ UNCHANGED opVars
      BY <1>0, <1>a, <3>1, <3>2 DEF Compensation, opVars
    <3>3. ASSUME NEW k \in Sockets, Complete(k, d, ev) PROVE WorkIsOps'
      <4> HIDE DEF d, ev
      <4> DEFINE S == Performances(k, d, ev)
      <4>1. /\ \A o \in S : o \in Ops /\ status[o] = "queued"
            /\ \A o \in Ops \ S : status'[o] = status[o]
            /\ IF S = {}
                 THEN work' = work
                 ELSE /\ work' = work - 1
                      /\ \E h \in S :
                           /\ status'[h] = "done"
                           /\ \A o \in S \ {h} : status'[o] = "posted"
        BY <1>0, <3>1, <3>3, CompleteDone
      <4> HIDE DEF S
      <4>2. CASE S = {}
        <5>1. Under' = Under
          BY <4>1, <4>2 DEF Under
        <5>2. QED
          BY <3>1, <4>1, <4>2, <5>1, UnderSame
      <4>3. CASE S # {}
        <5>1. PICK h \in S : /\ status'[h] = "done"
                             /\ \A o \in S \ {h} : status'[o] = "posted"
          BY <4>1, <4>3
        <5>2. Under' = Under \ {h} /\ h \in Under
          BY <4>1, <5>1 DEF Under
        <5>3. QED
          BY <1>0, <3>1, <4>1, <4>3, <5>2, UnderLess
      <4>4. QED
        BY <4>2, <4>3
    <3>4. QED
      BY <2>2, <3>2, <3>3 DEF PerformIo
  <2>3. QED
    BY <1>1, <2>1, <2>2 DEF Thread
<1>2. ASSUME NEW o \in Ops, RunPosted(o) PROVE WorkIsOps'
  <2>1. Under' = Under \ {o} /\ o \in Under
    BY <1>0, <1>2 DEF RunPosted, Under, OpOK
  <2>2. QED
    BY <1>0, <1>2, <2>1, UnderLess DEF RunPosted
<1>3. ASSUME NEW k \in Sockets, \/ PeerSends(k) \/ PeerSendsUrgent(k)
                                \/ PeerEnds(k) \/ PeerReceives(k)
      PROVE  WorkIsOps'
  BY <1>a, <1>3 DEF PeerSends, PeerSendsUrgent, PeerEnds, PeerReceives, opVars
<1>4. ASSUME NEW k \in Sockets, NEW kind \in Kinds, Start(k, kind)
      PROVE  WorkIsOps'
  <2>1. ASSUME NEW how \in {"posted", "queued"}, NEW res,
               Starts(k, kind, how, res),
               NewOps # {}, UNCHANGED shut
        PROVE  WorkIsOps'
    <3>1. NextOp \in Ops /\ status[NextOp] = "new"
      BY <1>0, <2>1, NewIsNext
    <3>2. /\ status' = [status EXCEPT ![NextOp] = how] /\ work' = work + 1
      BY <2>1 DEF Starts
    <3> HIDE DEF NextOp
    <3>3. Under' = Under \cup {NextOp} /\ NextOp \notin Under
      BY <1>0, <3>1, <3>2 DEF Under, OpOK
    <3>4. QED
      BY <1>0, <2>1, <3>2, <3>3, UnderMore
  <2>2. QED
    BY <1>4, <2>1 DEF Start, StartClosed, StartPerformed, StartNotSupported,
       StartQueued, CanStart
<1>5. ASSUME NEW k \in Sockets, Cancel(k) PROVE WorkIsOps'
  <2>1. data[k] \in States /\ Emptied(data[k]) = QueuedIn(data[k])
    BY <1>5, ReadyState DEF Cancel, CancelOps, Emptied, QueuedIn, AllQueues
  <2>2. \A o \in Emptied(data[k]) : status[o] = "queued"
    BY <1>b, <2>1
  <2>3. QED
    BY <1>0, <1>5, <2>2, AbortSame DEF Cancel, CancelOps
<1>6. ASSUME NEW k \in Sockets, NEW j \in OpTypes, NEW i \in 1 .. MaxOp,
             CancelByKey(k, j, i)
      PROVE  WorkIsOps'
  <2>1. data[k] \in States /\ i \in DOMAIN opQueue[data[k]][j]
    BY <1>6, ReadyState DEF CancelByKey, Queued
  <2>2. opQueue[data[k]][j][i] \in QueuedIn(data[k])
    BY <2>1 DEF QueuedIn, ToSet
  <2>3. \A o \in {Queued(k, j)[i]} : status[o] = "queued"
    BY <1>b, <2>1, <2>2 DEF Queued
  <2>4. QED
    BY <1>0, <1>6, <2>3, AbortSame DEF CancelByKey, CancelOps
<1>7. ASSUME NEW k \in Sockets, NEW closing \in BOOLEAN, Deregister(k, closing)
      PROVE  WorkIsOps'
  <2>1. data[k] \in States /\ Emptied(data[k]) = QueuedIn(data[k])
    BY <1>7, ReadyState DEF Deregister, Emptied, QueuedIn, AllQueues
  <2>2. \A o \in Emptied(data[k]) : status[o] = "queued"
    BY <1>b, <2>1
  <2>3. UNCHANGED shut /\ \/ UNCHANGED <<status, work>>
                          \/ Abort(Emptied(data[k]))
    BY <1>7 DEF Deregister, opVars
  <2>4. QED
    BY <1>0, <1>a, <2>2, <2>3, AbortSame
<1>8. ASSUME NEW k \in Sockets,
             \/ \E d \in States, isFile \in BOOLEAN : Open(k, d, isFile)
             \/ CloseDescriptor(k) \/ Cleanup(k)
      PROVE  WorkIsOps'
  BY <1>a, <1>8 DEF Open, CloseDescriptor, Cleanup, opVars
<1>9. CASE Shutdown
  BY <1>9 DEF Shutdown, WorkIsOps
<1>10. CASE UNCHANGED vars
  BY <1>a, <1>10 DEF vars, opVars
<1>11. QED
  BY <1>1, <1>2, <1>3, <1>4, <1>5, <1>6, <1>7, <1>8, <1>9, <1>10 DEF Next

----------------------------------------------------------------------------
(* Events *)

\* Everything that may carry an event of a state.
Held == InQueues \cup {at[w] : w \in Workers}

\* The threads pass on what they have, and only perform_io is the end of it.
LEMMA HeldStays ==
  ASSUME TypeOK, Threads, NEW w \in Workers,
         Poll(w) \/ TaskCleanup(w) \/ TakeState(w),
         NEW e \in Held, e.state \in States
  PROVE  e \in Held'
<1> USE DEF TypeOK, SchedOK
<1>0. e # Task /\ e # Nothing
  BY ReactorAssumption DEF ReactorAssumption, Task, Nothing, Entry
<1>1. ASSUME NEW v \in Workers, e = at[v] PROVE e \in Held'
  <2>1. at'[v] = at[v]
    <3>1. CASE Poll(w) \/ TaskCleanup(w)
      BY <3>1 DEF Poll, TaskCleanup
    <3>2. CASE TakeState(w)
      <4>1. v # w
        BY <1>0, <1>1, <3>2 DEF TakeState, Threads
      <4>2. QED
        BY <3>2, <4>1 DEF TakeState
    <3>3. QED
      BY <3>1, <3>2
  <2>2. QED
    BY <1>1, <2>1 DEF Held
<1>2. ASSUME NEW v \in Workers, e \in ToSet(polled[v]) PROVE e \in Held'
  <2>1. pc[v] = "polled"
    BY <1>2 DEF Threads, ToSet
  <2>2. ~Poll(w) /\ ~TakeState(w)
    BY <2>1 DEF Poll, TakeState, Threads
  <2>3. v = w /\ queue = <<>> /\ TaskCleanup(w)
    BY <2>1, <2>2 DEF TaskCleanup, Threads
  <2>4. /\ polled[w] \in Seq(Entries)
        /\ Append(polled[w], Task) \in Seq(Entries \cup {Task})
    OBVIOUS
  <2>5. queue' = Append(polled[w], Task)
    <3>1. queue' = <<>> \o Append(polled[w], Task)
      BY <2>3 DEF TaskCleanup, WithTask
    <3>2. QED
      BY <2>4, <3>1
  <2>6. \A i \in DOMAIN polled[w] :
          i \in DOMAIN queue' /\ queue'[i] = polled[w][i]
    BY <2>4, <2>5
  <2>7. e \in ToSet(queue')
    BY <1>2, <2>3, <2>6 DEF ToSet
  <2>8. QED
    BY <2>7 DEF Held, InQueues
<1>3. ASSUME e \in ToSet(queue) PROVE e \in Held'
  <2>1. PICK i \in DOMAIN queue : queue[i] = e
    BY <1>3 DEF ToSet
  <2>2. /\ queue \in Seq(Entries \cup {Task}) /\ queue # <<>>
        /\ i \in 1 .. Len(queue)
    BY <2>1
  <2>3. ~TaskCleanup(w)
    BY <2>2 DEF TaskCleanup, Threads
  <2>4. queue' = Tail(queue)
    BY <2>3 DEF Poll, TakeState
  <2>5. CASE i = 1
    <3>1. Head(queue) = e
      BY <2>1, <2>2, <2>5
    <3>2. TakeState(w)
      BY <1>0, <2>3, <3>1 DEF Poll
    <3>3. at'[w] = e
      BY <3>1, <3>2 DEF TakeState
    <3>4. QED
      BY <3>3 DEF Held
  <2>6. CASE i # 1
    <3>1. i - 1 \in DOMAIN Tail(queue) /\ Tail(queue)[i - 1] = queue[i]
      BY <2>2, <2>6
    <3>2. e \in ToSet(queue')
      BY <2>1, <2>4, <3>1 DEF ToSet
    <3>3. QED
      BY <3>2 DEF Held, InQueues
  <2>7. QED
    BY <2>5, <2>6
<1>4. QED
  BY <1>1, <1>2, <1>3 DEF Held, InQueues

\* An event that somebody waits for is one that epoll looks for.
LEMMA DueMask ==
  ASSUME TypeOK, Owners, Masks, NEW k \in Sockets, NEW j \in OpTypes, Due(k, j)
  PROVE  j \in mask[k] /\ data[k] \in States /\ phase[k] = "open" /\ ~shut
<1>1. data[k] \in States /\ phase[k] = "open" /\ ~shut
  BY ReadyState DEF Due
<1>2. CASE Queued(k, j) # <<>>
  BY <1>1, <1>2 DEF Masks, Queued
<1>3. QED
  BY <1>1, <1>2 DEF Due, Relied

\* The same of the next state.
LEMMA DueMaskNext ==
  (TypeOK /\ Owners /\ Masks =>
     \A k \in Sockets, j \in OpTypes :
       Due(k, j) => j \in mask[k] /\ data[k] \in States
                    /\ phase[k] = "open" /\ ~shut)'
<1>1. TypeOK /\ Owners /\ Masks =>
        \A k \in Sockets, j \in OpTypes :
          Due(k, j) => j \in mask[k] /\ data[k] \in States
                       /\ phase[k] = "open" /\ ~shut
  BY DueMask
<1>2. QED
  BY <1>1, PTL

\* The event was due before, and what told of it still does.
LEMMA StillNotified ==
  ASSUME Events, NEW k \in Sockets, NEW j \in OpTypes, Due(k, j),
         UNCHANGED <<queue, polled, at>>, data'[k] = data[k],
         listed[k] => listed'[k], j \in mask[k] => j \in mask'[k]
  PROVE  Notified(k, j)'
<1>1. Notified(k, j)
  BY DEF Events
<1>2. QED
  BY <1>1 DEF Notified, InQueues

\* When it was due before.
LEMMA WasDue ==
  ASSUME NEW k \in Sockets, NEW j \in OpTypes, Due(k, j)', shut' = shut,
         data'[k] = data[k], phase'[k] = phase[k], mask'[k] = mask[k],
         j \in ReadyEvents(k)' => j \in ReadyEvents(k),
         opQueue'[data[k]][j] # <<>> => opQueue[data[k]][j] # <<>>,
         j \in trySpeculative'[data[k]] <=> j \in trySpeculative[data[k]],
         unread'[k] > 0 => unread[k] > 0
  PROVE  Due(k, j)
BY DEF Due, Relied, Queued

\* After perform_io has stopped at an operation, its event is not there.
LEMMA StopsUnready ==
  ASSUME KernelOK, StateOK, NEW k \in Sockets, NEW d \in States, NEW ev,
         NEW j \in OpTypes,
         k \notin files, UNCHANGED ended,
         Consume(k, [x \in AllKinds |-> DoneOfKind(k, d, ev, x)]),
         NEW ks, NEW n \in Nat, ks = KindsOf(opQueue[d][j]),
         n = Len(DoneOf(k, d, ev, j)),
         NotDone(k, ks, n + 1), TypeOf(ks[n + 1]) = j
  PROVE  j \notin ReadyEvents(k)'
<1> DEFINE f == [x \in AllKinds |-> DoneOfKind(k, d, ev, x)]
<1>1. f \in [AllKinds -> Nat]
      /\ \A x \in AllKinds : f[x] = DoneOfKind(k, d, ev, x)
  BY DoneOfKindNat
<1>2. \A x \in AllKinds :
        TypeOf(x) = j => DoneOfKind(k, d, ev, x) = Before(ks, n + 1, x)
  BY DEF DoneOfKind
<1> HIDE DEF f
<1>3. /\ unread'[k] = IF unread[k] > f["read"] THEN unread[k] - f["read"] ELSE 0
      /\ room'[k] = IF room[k] > WriteSize * f["write"]
                      THEN room[k] - WriteSize * f["write"] ELSE 0
  BY <1>1, ConsumeLeaves DEF f
<1>4. CASE ks[n + 1] = "read"
  <2>1. unread[k] - Before(ks, n + 1, "read") = 0 /\ ~ended[k]
    BY <1>4 DEF NotDone, Available
  <2>2. j = "read" /\ f["read"] = Before(ks, n + 1, "read")
    BY <1>1, <1>2, <1>4 DEF TypeOf, AllKinds
  <2>3. Before(ks, n + 1, "read") \in Nat /\ unread[k] \in Nat
    BY BeforeNat DEF KernelOK
  <2>4. unread'[k] = 0
    BY <1>3, <2>1, <2>2, <2>3
  <2>5. QED
    BY <2>1, <2>2, <2>4 DEF ReadyEvents
<1>5. CASE ks[n + 1] = "write"
  <2>1. room[k] - WriteSize * Before(ks, n + 1, "write") = 0
    BY <1>5 DEF NotDone, RoomLeft
  <2>2. j = "write" /\ f["write"] = Before(ks, n + 1, "write")
    BY <1>1, <1>2, <1>5 DEF TypeOf, AllKinds
  <2>3. /\ Before(ks, n + 1, "write") \in Nat /\ room[k] \in Nat
        /\ WriteSize \in Nat
    BY BeforeNat, ReactorAssumption DEF ReactorAssumption, KernelOK
  <2>4. room'[k] = 0
    BY <1>3, <2>1, <2>2, <2>3
  <2>5. QED
    BY <2>2, <2>4 DEF ReadyEvents
<1>6. QED
  BY <1>4, <1>5 DEF NotDone

\* After an operation that has exhausted the socket there is nothing left, but
\* perhaps the end of the stream.
LEMMA ExhaustsUnready ==
  ASSUME KernelOK, StateOK, NEW k \in Sockets, NEW d \in States, NEW ev,
         NEW j \in OpTypes,
         k \notin files, UNCHANGED ended,
         Consume(k, [x \in AllKinds |-> DoneOfKind(k, d, ev, x)]),
         NEW ks, NEW n \in Nat \ {0}, ks = KindsOf(opQueue[d][j]),
         n = Len(DoneOf(k, d, ev, j)),
         Exhausts(k, ks, n), TypeOf(ks[n]) = j
  PROVE  IF j = "read" THEN unread'[k] = 0 ELSE j \notin ReadyEvents(k)'
<1> DEFINE f == [x \in AllKinds |-> DoneOfKind(k, d, ev, x)]
<1>1. f \in [AllKinds -> Nat]
      /\ \A x \in AllKinds : f[x] = DoneOfKind(k, d, ev, x)
  BY DoneOfKindNat
<1>2. \A x \in AllKinds :
        TypeOf(x) = j => DoneOfKind(k, d, ev, x) = Before(ks, n + 1, x)
  BY DEF DoneOfKind
<1>3. \A x : Before(ks, n + 1, x) =
               Before(ks, n, x) + (IF ks[n] = x THEN 1 ELSE 0)
  BY BeforeNext
<1>7. \A x : Before(ks, n, x) \in Nat
  <2>1. n - 1 \in Nat /\ (n - 1) + 1 = n
    OBVIOUS
  <2>2. \A x : Before(ks, (n - 1) + 1, x) \in Nat
    BY <2>1, BeforeNat
  <2>3. QED
    BY <2>1, <2>2
<1> HIDE DEF f
<1>4. /\ unread'[k] = IF unread[k] > f["read"] THEN unread[k] - f["read"] ELSE 0
      /\ room'[k] = IF room[k] > WriteSize * f["write"]
                      THEN room[k] - WriteSize * f["write"] ELSE 0
      /\ urgent'[k] = (urgent[k] /\ f["urgent"] = 0)
  BY <1>1, ConsumeLeaves DEF f
<1>5. CASE ks[n] = "read"
  <2>1. unread[k] - Before(ks, n, "read") = 0
    BY <1>5 DEF Exhausts, Available
  <2>2. j = "read" /\ f["read"] = Before(ks, n, "read") + 1
    BY <1>1, <1>2, <1>3, <1>5 DEF TypeOf, AllKinds
  <2>3. Before(ks, n, "read") \in Nat /\ unread[k] \in Nat
    BY <1>7 DEF KernelOK
  <2>4. unread'[k] = 0
    BY <1>4, <2>1, <2>2, <2>3
  <2>5. QED
    BY <2>2, <2>4
<1>6. CASE ks[n] = "write"
  <2>1. room[k] - WriteSize * Before(ks, n, "write") < WriteSize
    BY <1>6 DEF Exhausts, RoomLeft
  <2>2. j = "write" /\ f["write"] = Before(ks, n, "write") + 1
    BY <1>1, <1>2, <1>3, <1>6 DEF TypeOf, AllKinds
  <2>3. Before(ks, n, "write") \in Nat /\ room[k] \in Nat /\ WriteSize \in Nat
    BY <1>7, ReactorAssumption DEF ReactorAssumption, KernelOK
  <2>4. \A b \in Nat : WriteSize * (b + 1) = WriteSize * b + WriteSize
    BY <2>3
  <2>5. WriteSize * f["write"] = WriteSize * Before(ks, n, "write") + WriteSize
    BY <2>2, <2>3, <2>4
  <2>6. WriteSize * Before(ks, n, "write") \in Nat
    BY <2>3
  <2>7. room'[k] = 0
    BY <1>4, <2>1, <2>3, <2>5, <2>6
  <2>8. QED
    BY <2>2, <2>7 DEF ReadyEvents
<1>8. CASE ks[n] = "urgent"
  <2>1. ~(urgent[k] /\ Before(ks, n, "urgent") = 0)
    BY <1>8 DEF Exhausts, UrgentThere
  <2>2. j = "except" /\ f["urgent"] = Before(ks, n, "urgent") + 1
    BY <1>1, <1>2, <1>3, <1>8 DEF TypeOf, AllKinds
  <2>3. Before(ks, n, "urgent") \in Nat
    BY <1>7
  <2>4. ~urgent'[k]
    <3>1. f["urgent"] # 0
      BY <2>2, <2>3
    <3>2. QED
      BY <1>4, <3>1, Zenon
  <2>5. QED
    BY <2>2, <2>4 DEF ReadyEvents
<1>9. QED
  BY <1>5, <1>6, <1>8 DEF Exhausts

\* The events with which perform_io is called are dealt with.
LEMMA EventsDealtWith ==
  ASSUME TypeOK, Owners, Masks, Waiting,
         NEW k \in Sockets, NEW d \in States, NEW ev \in SUBSET OpTypes,
         NEW j \in ev,
         data[k] = d, j \in mask[k], Complete(k, d, ev), phase[k] = "open",
         trySpeculative' = [trySpeculative EXCEPT
           ![d] = (@ \cup ev) \ Exhausted(k, d, ev)],
         UNCHANGED <<ended, data>>
  PROVE  ~Due(k, j)'
<1> DEFINE q == opQueue[d][j]
           ks == KindsOf(q)
           n == Len(DoneOf(k, d, ev, j))
<1>1. /\ q \in Seq(Ops) /\ Len(ks) = Len(q) /\ n \in 0 .. Len(q)
      /\ n = Performed(k, ks)
      /\ j \in OpTypes
  <2>1. StateOK /\ j \in OpTypes
    BY DEF TypeOK
  <2>2. q \in Seq(Ops)
    BY <2>1 DEF StateOK
  <2>3. Len(ks) = Len(q)
    BY <2>2, KindsOfSeq
  <2>4. n \in 0 .. Len(q) /\ n = Performed(k, ks)
    BY <2>1, DoneCount
  <2>5. QED
    BY <2>1, <2>2, <2>3, <2>4
<1>2. \A i \in 1 .. Len(q) : TypeOf(ks[i]) = j
  BY KindsOfSeq, <1>1 DEF Waiting, RightQueues
<1>3. n < Len(q) => NotDone(k, ks, n + 1) \/ (n > 0 /\ Exhausts(k, ks, n))
  BY <1>1, PerformedStops
<1>4. k \notin files
  BY DEF Masks
<1>5. /\ KernelOK /\ StateOK
      /\ Consume(k, [x \in AllKinds |-> DoneOfKind(k, d, ev, x)])
      /\ UNCHANGED ended
  BY DEF TypeOK, Complete
<1>6. opQueue'[d][j] = SubSeq(q, n + 1, Len(q))
  BY <1>1, <1>5 DEF Complete, StateOK
<1>7. j \in trySpeculative'[d] <=> j \notin Exhausted(k, d, ev)
  BY <1>1, <1>5 DEF StateOK
<1>8. j \in Exhausted(k, d, ev) <=> n > 0 /\ Exhausts(k, ks, n)
  BY DEF Exhausted
<1>9. ASSUME n < Len(q), NotDone(k, ks, n + 1) PROVE j \notin ReadyEvents(k)'
  <2>1. TypeOf(ks[n + 1]) = j /\ n \in Nat
    BY <1>1, <1>2, <1>9
  <2>2. QED
    BY <1>1, <1>4, <1>5, <1>9, <2>1, StopsUnready
<1>10. ASSUME n > 0, Exhausts(k, ks, n)
       PROVE  IF j = "read" THEN unread'[k] = 0 ELSE j \notin ReadyEvents(k)'
  <2>1. TypeOf(ks[n]) = j /\ n \in Nat \ {0}
    BY <1>1, <1>2, <1>10
  <2>2. QED
    BY <1>1, <1>4, <1>5, <1>10, <2>1, ExhaustsUnready
<1> HIDE DEF q, ks, n
<1>11. n = Len(q) => opQueue'[d][j] = <<>>
  BY <1>1, <1>6
<1>12. CASE n > 0 /\ Exhausts(k, ks, n)
  <2>1. j \notin trySpeculative'[d]
    BY <1>7, <1>8, <1>12
  <2>2. CASE j = "read"
    BY <1>10, <1>12, <2>1, <2>2 DEF Due, Queued
  <2>3. CASE j # "read"
    BY <1>10, <1>12, <2>3 DEF Due
  <2>4. QED
    BY <2>2, <2>3
<1>13. CASE ~(n > 0 /\ Exhausts(k, ks, n)) /\ n < Len(q)
  BY <1>3, <1>9, <1>13 DEF Due
<1>14. CASE ~(n > 0 /\ Exhausts(k, ks, n)) /\ ~(n < Len(q))
  <2>1. opQueue'[d][j] = <<>>
    BY <1>1, <1>11, <1>14
  <2>2. j \in trySpeculative'[d]
    BY <1>7, <1>8, <1>14
  <2>3. QED
    BY <2>1, <2>2 DEF Due, Relied, Queued
<1>15. QED
  BY <1>12, <1>13, <1>14

\* A step that takes away nothing of what may carry an event.
LEMMA UndisturbedEvents ==
  ASSUME Events, NEW k \in Sockets, NEW j \in OpTypes, Due(k, j)', shut' = shut,
         UNCHANGED <<queue, polled, at>>,
         data'[k] = data[k], phase'[k] = phase[k], mask'[k] = mask[k],
         listed[k] => listed'[k],
         j \in ReadyEvents(k)' => j \in ReadyEvents(k),
         opQueue'[data[k]][j] # <<>> => opQueue[data[k]][j] # <<>>,
         j \in trySpeculative'[data[k]] <=> j \in trySpeculative[data[k]],
         unread'[k] > 0 => unread[k] > 0
  PROVE  Notified(k, j)'
BY WasDue, StillNotified

\* The kernel lists a socket for an event that it gets.
LEMMA EdgeNotified ==
  ASSUME KernelOK, NEW k \in Sockets, NEW j \in mask[k], Edge(k, j),
         UNCHANGED mask
  PROVE  Notified(k, j)'
BY DEF Edge, KernelOK, Notified

\* What the peer does comes with an edge, or its event was there before.
LEMMA PeersEvents ==
  ASSUME TypeOK, Owners', Masks', TypeOK', Events, NEW k \in Sockets,
         PeerSends(k) \/ PeerSendsUrgent(k) \/ PeerEnds(k) \/ PeerReceives(k),
         NEW l \in Sockets, NEW j \in OpTypes, Due(l, j)'
  PROVE  Notified(l, j)'
<1>1. /\ shut' = shut
      /\ UNCHANGED <<queue, polled, at, data, phase, mask, opQueue,
                     trySpeculative>>
  BY DEF PeerSends, PeerSendsUrgent, PeerEnds, PeerReceives, sockVars,
       stateVars, schedVars
<1>2. j \in mask'[l]
  BY DueMaskNext
<1>3. listed[l] => listed'[l]
  BY DEF PeerSends, PeerSendsUrgent, PeerEnds, PeerReceives, Edge, TypeOK,
       KernelOK
<1>4. ASSUME j \in ReadyEvents(l)' => j \in ReadyEvents(l),
             unread'[l] > 0 => unread[l] > 0
      PROVE  Notified(l, j)'
  BY <1>1, <1>3, <1>4, UndisturbedEvents
<1>5. ASSUME l = k, Edge(k, j) PROVE Notified(l, j)'
  BY <1>1, <1>2, <1>5, EdgeNotified DEF TypeOK
<1>6. CASE PeerSends(k)
  <2>1. CASE l = k /\ j = "read"
    BY <1>5, <1>6, <2>1 DEF PeerSends
  <2>2. CASE ~(l = k /\ j = "read")
    <3>1. (l # k => unread'[l] = unread[l]) /\ UNCHANGED <<ended, urgent, room>>
      BY <1>6 DEF PeerSends, TypeOK, KernelOK
    <3>2. l = k => (j \in ReadyEvents(l)' => j \in ReadyEvents(l))
      BY <2>2, <3>1 DEF ReadyEvents
    <3>3. CASE l # k
      BY <1>4, <3>1, <3>3 DEF ReadyEvents
    <3>4. CASE l = k
      <4>1. j # "read"
        BY <2>2, <3>4
      <4>2. Due(l, j)
        BY <1>1, <3>2, <3>4, <4>1 DEF Due, Relied, Queued
      <4>3. QED
        BY <1>1, <1>3, <4>2, StillNotified
    <3>5. QED
      BY <3>3, <3>4
  <2>3. QED
    BY <2>1, <2>2
<1>7. CASE PeerSendsUrgent(k)
  <2>1. CASE l = k /\ j = "except"
    BY <1>5, <1>7, <2>1 DEF PeerSendsUrgent
  <2>2. CASE ~(l = k /\ j = "except")
    <3>1. (l # k => urgent'[l] = urgent[l]) /\ UNCHANGED <<ended, unread, room>>
      BY <1>7 DEF PeerSendsUrgent, TypeOK, KernelOK
    <3>2. QED
      BY <1>4, <2>2, <3>1 DEF ReadyEvents
  <2>3. QED
    BY <2>1, <2>2
<1>8. CASE PeerEnds(k)
  <2>1. CASE l = k /\ j = "read"
    BY <1>5, <1>8, <2>1 DEF PeerEnds
  <2>2. CASE ~(l = k /\ j = "read")
    <3>1. (l # k => ended'[l] = ended[l]) /\ UNCHANGED <<urgent, unread, room>>
      BY <1>8 DEF PeerEnds, TypeOK, KernelOK
    <3>2. QED
      BY <1>4, <2>2, <3>1 DEF ReadyEvents
  <2>3. QED
    BY <2>1, <2>2
<1>9. CASE PeerReceives(k)
  <2>1. CASE l = k /\ j = "write" /\ room[k] = 0
    BY <1>5, <1>9, <2>1 DEF PeerReceives
  <2>2. CASE ~(l = k /\ j = "write" /\ room[k] = 0)
    <3>1. /\ l # k => room'[l] = room[l]
          /\ UNCHANGED <<urgent, unread, ended>> /\ room[k] \in Nat
      BY <1>9 DEF PeerReceives, TypeOK, KernelOK
    <3>2. j \in ReadyEvents(l)' => j \in ReadyEvents(l)
      BY <2>2, <3>1 DEF ReadyEvents
    <3>3. QED
      BY <1>4, <3>1, <3>2
  <2>3. QED
    BY <2>1, <2>2
<1>10. QED
  BY <1>6, <1>7, <1>8, <1>9

\* An operation is performed when it starts.  If the flag is cleared, there is
\* nothing left.
LEMMA StartsPerformedEvents ==
  ASSUME TypeOK, Owners, Masks, Events, NEW k \in Sockets, NEW kind \in Kinds,
         StartPerformed(k, kind), NEW l \in Sockets, NEW j \in OpTypes,
         Due(l, j)'
  PROVE  Notified(l, j)'
<1> DEFINE f == [x \in AllKinds |-> IF x = kind THEN 1 ELSE 0]
<1>1. /\ shut' = shut
      /\ UNCHANGED <<queue, polled, at, data, phase, mask, opQueue, listed,
                     ended, files>>
      /\ phase[k] = "open" /\ Performs(k, kind) /\ Consume(k, f)
      /\ trySpeculative' = [trySpeculative EXCEPT ![data[k]] =
           IF Exhausts(k, <<kind>>, 1) /\ registered[data[k]] # {}
             THEN @ \ {TypeOf(kind)} ELSE @]
  BY DEF StartPerformed, sockVars, schedVars
<1>2. /\ data[k] \in States /\ phase[l] = "open" /\ data[l] \in States
      /\ kind \in {"read", "write"}
  <2>1. phase[l] = "open"
    BY <1>1 DEF Due
  <2>2. QED
    BY <1>1, <2>1, ReadyState DEF Performs, MayPerform, AllowsSpeculative
<1>3. f \in [AllKinds -> Nat]
      /\ \A x \in AllKinds : f[x] = IF x = kind THEN 1 ELSE 0
  OBVIOUS
<1> HIDE DEF f
<1>4. /\ \A m \in Sockets \ {k} : /\ unread'[m] = unread[m]
                                  /\ room'[m] = room[m]
                                  /\ urgent'[m] = urgent[m]
      /\ unread'[k] = IF unread[k] > f["read"] THEN unread[k] - f["read"] ELSE 0
      /\ k \notin files =>
           room'[k] = IF room[k] > WriteSize * f["write"]
                        THEN room[k] - WriteSize * f["write"] ELSE 0
      /\ k \in files => room'[k] = room[k]
      /\ urgent'[k] = (urgent[k] /\ f["urgent"] = 0)
  BY <1>1, <1>3, ConsumeLeaves DEF TypeOK
<1>5. /\ f["read"] \in Nat /\ f["write"] \in Nat /\ f["urgent"] = 0
      /\ kind = "read" => f["read"] = 1
      /\ kind = "write" => f["write"] = 1
      /\ unread[k] \in Nat /\ room[k] \in Nat /\ WriteSize * f["write"] \in Nat
      /\ WriteSize \in Nat
  BY <1>2, <1>3, ReactorAssumption
     DEF AllKinds, ReactorAssumption, TypeOK, KernelOK
<1>6. /\ unread'[l] > 0 => unread[l] > 0
      /\ room'[l] > 0 => room[l] > 0
      /\ urgent'[l] => urgent[l]
  <2>1. CASE l # k
    BY <1>4, <2>1
  <2>2. CASE l = k
    <3>1. unread'[k] > 0 => unread[k] > 0
      BY <1>4, <1>5
    <3>2. room'[k] > 0 => room[k] > 0
      BY <1>4, <1>5
    <3>3. urgent'[k] => urgent[k]
      BY <1>4, Zenon
    <3>4. QED
      BY <2>2, <3>1, <3>2, <3>3
  <2>3. QED
    BY <2>1, <2>2
<1>7. j \in ReadyEvents(l)' => j \in ReadyEvents(l)
  BY <1>1, <1>6 DEF ReadyEvents
<1>8. CASE j \in trySpeculative'[data[l]] <=> j \in trySpeculative[data[l]]
  BY <1>1, <1>6, <1>7, <1>8, UndisturbedEvents
<1>9. CASE ~(j \in trySpeculative'[data[l]] <=> j \in trySpeculative[data[l]])
  <2>1. /\ data[l] = data[k] /\ j = TypeOf(kind) /\ Exhausts(k, <<kind>>, 1)
        /\ j \notin trySpeculative'[data[l]]
    BY <1>1, <1>2, <1>9 DEF TypeOK, StateOK
  <2>2. l = k
    BY <1>2, <2>1, ReactorAssumption DEF Owners, ReactorAssumption
  <2>3. opQueue'[data[k]][j] = <<>>
    BY <1>1, <2>1 DEF Performs, MayPerform, Queued
  <2>4. j \in mask[k]
    BY <1>1, <2>2, <2>3 DEF Due, Relied, Queued
  <2>5. k \notin files
    BY <1>1, <2>4 DEF Masks
  <2>6. CASE kind = "read"
    <3>1. unread[k] = 0
      BY <1>5, <2>1, <2>6, BeforeFirst DEF Exhausts, Available
    <3>2. unread'[k] = 0 /\ j = "read"
      BY <1>4, <1>5, <2>1, <2>6, <3>1 DEF TypeOf
    <3>3. QED
      BY <1>1, <2>2, <2>3, <3>2 DEF Due, Queued
  <2>7. CASE kind = "write"
    <3>1. room[k] - WriteSize * Before(<<kind>>, 1, "write") < WriteSize
      BY <2>1, <2>5, <2>7 DEF Exhausts, RoomLeft
    <3>2. room[k] < WriteSize
      BY <1>5, <3>1, BeforeFirst
    <3>3. room'[k] = 0 /\ j = "write"
      BY <1>4, <1>5, <2>1, <2>5, <2>7, <3>2 DEF TypeOf
    <3>4. QED
      BY <2>2, <3>3 DEF Due, ReadyEvents
  <2>8. QED
    BY <1>2, <2>6, <2>7
<1>10. QED
  BY <1>8, <1>9

\* An operation that waits has its event looked for again, unless the event was
\* not there, or is still to come.
LEMMA StartsQueuedEvents ==
  ASSUME TypeOK, Owners, Masks, Events, TypeOK', Owners', Masks',
         NEW k \in Sockets, NEW kind \in Kinds, StartQueued(k, kind),
         NEW l \in Sockets, NEW j \in OpTypes, Due(l, j)'
  PROVE  Notified(l, j)'
<1>1. /\ shut' = shut
      /\ UNCHANGED <<queue, polled, at, data, phase, unread, ended, urgent,
                     room, trySpeculative>>
      /\ phase[k] = "open" /\ ~Performs(k, kind)
      /\ Queued(k, TypeOf(kind)) = <<>> => registered[data[k]] # {}
      /\ opQueue' = [opQueue EXCEPT
           ![data[k]][TypeOf(kind)] = Append(@, NextOp)]
  BY DEF StartQueued, PushBack, sockVars, schedVars
<1>2. data[k] \in States /\ phase[l] = "open" /\ data[l] \in States
  <2>1. phase[l] = "open"
    BY <1>1 DEF Due
  <2>2. QED
    BY <1>1, <2>1, ReadyState
<1>3. j \in ReadyEvents(l)' <=> j \in ReadyEvents(l)
  BY <1>1 DEF ReadyEvents
<1>4. l # k => data[l] # data[k]
  BY <1>2, ReactorAssumption DEF Owners, ReactorAssumption
<1>5. CASE AsksEpoll(k, kind)
  <2> DEFINE ev == registered[data[k]] \cup ({TypeOf(kind)} \cap {"write"})
  <2>1. /\ mask' = [mask EXCEPT ![k] = ev]
        /\ listed' = [listed EXCEPT ![k] = @ \/ ev \cap ReadyEvents(k) # {}]
    BY <1>5 DEF StartQueued, Control
  <2> HIDE DEF ev
  <2>2. CASE l = k
    <3>1. j \in mask'[k]
      BY <2>2, DueMaskNext
    <3>2. j \in ev /\ j \in ReadyEvents(k)
      BY <1>3, <2>1, <2>2, <3>1 DEF TypeOK, KernelOK, Due
    <3>3. ev \cap ReadyEvents(k) # {}
      BY <3>2
    <3>4. listed'[k]
      BY <2>1, <3>3 DEF TypeOK, KernelOK
    <3>5. QED
      BY <2>2, <3>1, <3>4 DEF Notified
  <2>3. CASE l # k
    <3>1. mask'[l] = mask[l] /\ listed'[l] = listed[l]
      BY <2>1, <2>3
    <3>2. opQueue'[data[l]][j] = opQueue[data[l]][j]
      BY <1>1, <1>2, <1>4, <2>3
    <3>3. QED
      BY <1>1, <1>3, <3>1, <3>2, UndisturbedEvents
  <2>4. QED
    BY <2>2, <2>3
<1>6. CASE ~AsksEpoll(k, kind)
  <2>1. UNCHANGED <<registered, mask, listed>>
    BY <1>6 DEF StartQueued
  <2>2. CASE opQueue'[data[l]][j] # <<>> => opQueue[data[l]][j] # <<>>
    BY <1>1, <1>3, <2>1, <2>2, UndisturbedEvents
  <2>3. CASE opQueue'[data[l]][j] # <<>> /\ opQueue[data[l]][j] = <<>>
    <3>1. l = k /\ j = TypeOf(kind)
      BY <1>1, <1>2, <1>4, <2>3 DEF TypeOK, StateOK
    <3>2. Queued(k, j) = <<>> /\ registered[data[k]] # {}
      BY <1>1, <2>3, <3>1 DEF Queued
    <3>3. MayPerform(k, kind)
          /\ (kind = "write" => "write" \in registered[data[k]])
      BY <1>6, <3>1, <3>2 DEF AsksEpoll
    <3>4. kind \in {"read", "write"} /\ j = kind
      BY <3>1, <3>3 DEF MayPerform, AllowsSpeculative, TypeOf
    <3>5. /\ mask[k] = registered[data[k]]
          /\ {"read", "except"} \subseteq mask[k] /\ k \notin files
      BY <1>1, <3>2 DEF Masks
    <3>6. j \in mask[k]
      BY <3>3, <3>4, <3>5
    <3>7. CASE NotDone(k, <<kind>>, 1)
      <4>1. unread[k] \in Nat /\ room[k] \in Nat /\ WriteSize \in Nat
        BY ReactorAssumption DEF ReactorAssumption, TypeOK, KernelOK
      <4>2. CASE kind = "read"
        <5>1. unread[k] = 0 /\ ~ended[k]
          BY <3>7, <4>1, <4>2, BeforeFirst DEF NotDone, Available
        <5>2. QED
          BY <1>3, <3>1, <3>4, <4>2, <5>1 DEF Due, ReadyEvents
      <4>3. CASE kind = "write"
        <5>1. room[k] = 0
          BY <3>5, <3>7, <4>1, <4>3, BeforeFirst DEF NotDone, RoomLeft
        <5>2. QED
          BY <1>3, <3>1, <3>4, <4>3, <5>1 DEF Due, ReadyEvents
      <4>4. QED
        BY <3>4, <4>2, <4>3
    <3>8. CASE ~NotDone(k, <<kind>>, 1)
      <4>1. j \notin trySpeculative[data[k]]
        BY <1>1, <3>1, <3>3, <3>8 DEF Performs
      <4>2. Due(k, j)
        BY <1>1, <1>3, <3>1, <3>6, <4>1 DEF Due, Relied
      <4>3. QED
        BY <1>1, <2>1, <3>1, <4>2, StillNotified
    <3>9. QED
      BY <3>7, <3>8
  <2>4. QED
    BY <2>2, <2>3
<1>7. QED
  BY <1>5, <1>6

\* The queues of a state for which nothing waits.
LEMMA NoneQueued ==
  ASSUME StateOK, NEW d \in States, NEW j \in OpTypes, QueuedIn(d) = {}
  PROVE  opQueue[d][j] = <<>>
<1>1. opQueue[d][j] \in Seq(Ops)
  BY DEF StateOK
<1>2. \A o : o \notin ToSet(opQueue[d][j])
  BY DEF QueuedIn
<1>3. \A q \in Seq(Ops) : q # <<>> => q[1] \in ToSet(q)
  BY DEF ToSet
<1>4. QED
  BY <1>1, <1>2, <1>3

\* What the threads hold they pass on, and the task collects what epoll has.
LEMMA PassOnEvents ==
  ASSUME TypeOK, Owners, Masks, Threads, Events, NEW w \in Workers,
         Poll(w) \/ TaskCleanup(w) \/ TakeState(w),
         NEW l \in Sockets, NEW j \in OpTypes, Due(l, j)'
  PROVE  Notified(l, j)'
<1>1. /\ UNCHANGED <<data, phase, unread, ended, urgent, room, mask, opQueue,
                     trySpeculative, shut>>
      /\ Poll(w) \/ UNCHANGED listed
  BY DEF Poll, TaskCleanup, TakeState, sockVars, kernelVars, stateVars
<1>2. Due(l, j)
  BY <1>1 DEF Due, ReadyEvents, Relied, Queued
<1>3. j \in mask[l] /\ data[l] \in States
  BY <1>2, DueMask
<1>4. Notified(l, j)
  BY <1>2 DEF Events
<1>5. ASSUME NEW e \in Held, e.state = data[l], j \in e.events
      PROVE  Notified(l, j)'
  <2>1. e \in Held'
    BY <1>3, <1>5, HeldStays
  <2>2. QED
    BY <1>1, <1>5, <2>1 DEF Held, Notified
<1>6. CASE listed[l] /\ Poll(w)
  <2>1. l \in Listed
    BY <1>2, <1>3, <1>6 DEF Listed, Due
  <2>2. Entry(data[l], mask[l] \cap ReadyEvents(l)) \in ToSet(polled'[w])
    BY <1>6, <2>1, PollCollects
  <2>3. Entry(data[l], mask[l] \cap ReadyEvents(l)) \in InQueues'
    BY <2>2 DEF InQueues
  <2>4. j \in mask[l] \cap ReadyEvents(l)
    BY <1>2, <1>3 DEF Due
  <2>5. QED
    BY <1>1, <2>3, <2>4 DEF Notified, Entry
<1>7. CASE listed[l] /\ UNCHANGED listed
  BY <1>1, <1>3, <1>7 DEF Notified
<1>8. QED
  BY <1>1, <1>4, <1>5, <1>6, <1>7 DEF Notified, Held

\* What is performed leaves no more events than there were.
LEMMA ConsumeLess ==
  ASSUME KernelOK, NEW k \in Sockets, NEW n \in [AllKinds -> Nat],
         Consume(k, n),
         UNCHANGED ended, NEW l \in Sockets, NEW j \in OpTypes
  PROVE  /\ unread'[l] > 0 => unread[l] > 0
         /\ j \in ReadyEvents(l)' => j \in ReadyEvents(l)
<1>1. /\ \A m \in Sockets \ {k} : /\ unread'[m] = unread[m]
                                  /\ room'[m] = room[m]
                                  /\ urgent'[m] = urgent[m]
      /\ unread'[k] = IF unread[k] > n["read"] THEN unread[k] - n["read"] ELSE 0
      /\ k \notin files =>
           room'[k] = IF room[k] > WriteSize * n["write"]
                        THEN room[k] - WriteSize * n["write"] ELSE 0
      /\ k \in files => room'[k] = room[k]
      /\ urgent'[k] = (urgent[k] /\ n["urgent"] = 0)
  BY ConsumeLeaves
<1>2. /\ n["read"] \in Nat /\ n["write"] \in Nat /\ unread[k] \in Nat
      /\ room[k] \in Nat /\ WriteSize \in Nat
  BY ReactorAssumption DEF AllKinds, ReactorAssumption, KernelOK
<1>3. unread'[k] > 0 => unread[k] > 0
  BY <1>1, <1>2
<1>4. room'[k] > 0 => room[k] > 0
  <2>1. WriteSize * n["write"] \in Nat
    BY <1>2
  <2>2. QED
    BY <1>1, <1>2, <2>1
<1>5. urgent'[k] => urgent[k]
  BY <1>1, Zenon
<1>6. /\ unread'[l] > 0 => unread[l] > 0
      /\ room'[l] > 0 => room[l] > 0
      /\ urgent'[l] => urgent[l]
  <2>1. CASE l = k
    BY <1>3, <1>4, <1>5, <2>1
  <2>2. CASE l # k
    BY <1>1, <2>2
  <2>3. QED
    BY <2>1, <2>2
<1>7. QED
  BY <1>6 DEF ReadyEvents

\* perform_io deals with the events it is given, and with none but those.
LEMMA PerformsEvents ==
  ASSUME TypeOK, Owners, Masks, Waiting, Threads, Events, TypeOK', Owners',
         Masks',
         NEW w \in Workers, PerformIo(w),
         NEW l \in Sockets, NEW j \in OpTypes, Due(l, j)'
  PROVE  Notified(l, j)'
<1> DEFINE d == at[w].state
           ev == at[w].events
<1>1. d \in States /\ ev \in SUBSET OpTypes
  BY AtWork DEF PerformIo
<1>2. /\ UNCHANGED <<data, phase, ended, mask, listed, queue, polled, shut>>
      /\ at' = [at EXCEPT ![w] = Nothing]
  BY DEF PerformIo, sockVars
<1>3. j \in mask[l] /\ data[l] \in States /\ phase[l] = "open"
  BY <1>2, DueMaskNext
<1>4. ASSUME Due(l, j), ~(data[l] = d /\ j \in ev) PROVE Notified(l, j)'
  <2>1. Notified(l, j)
    BY <1>4 DEF Events
  <2>2. CASE listed[l] /\ j \in mask[l]
    BY <1>2, <2>2 DEF Notified
  <2>3. ASSUME NEW e \in InQueues \cup {at[v] : v \in Workers},
               e.state = data[l], j \in e.events
        PROVE  Notified(l, j)'
    <3>1. e # at[w]
      BY <1>4, <2>3
    <3>2. e \in InQueues' \cup {at'[v] : v \in Workers}
      <4>1. CASE e \in InQueues
        BY <1>2, <4>1 DEF InQueues
      <4>2. ASSUME NEW v \in Workers, e = at[v] PROVE e = at'[v]
        BY <1>2, <3>1, <4>2 DEF TypeOK, SchedOK
      <4>3. QED
        BY <4>1, <4>2
    <3>3. QED
      BY <1>2, <2>3, <3>2 DEF Notified
  <2>4. QED
    BY <2>1, <2>2, <2>3 DEF Notified
<1>5. CASE /\ QueuedIn(d) = {}
           /\ trySpeculative' = [trySpeculative EXCEPT ![d] = @ \cup ev]
           /\ UNCHANGED <<unread, room, urgent, opQueue>>
  <2>1. j \in ReadyEvents(l)' <=> j \in ReadyEvents(l)
    BY <1>2, <1>5 DEF ReadyEvents
  <2>2. CASE data[l] = d /\ j \in ev
    <3>1. j \in trySpeculative'[d]
      BY <1>1, <1>5, <2>2 DEF TypeOK, StateOK
    <3>3. opQueue[d][j] = <<>>
      BY <1>1, <1>5, NoneQueued DEF TypeOK
    <3>4. QED
      BY <1>2, <1>5, <2>2, <3>1, <3>3 DEF Due, Relied, Queued
  <2>3. CASE ~(data[l] = d /\ j \in ev)
    <3>1. j \in trySpeculative'[data[l]] <=> j \in trySpeculative[data[l]]
      BY <1>1, <1>3, <1>5, <2>3 DEF TypeOK, StateOK
    <3> HIDE DEF d, ev
    <3>2. Due(l, j)
      BY <1>2, <1>5, <2>1, <3>1, WasDue
    <3>3. QED
      BY <1>4, <2>3, <3>2
  <2>4. QED
    BY <2>2, <2>3
<1>6. ASSUME NEW k \in Sockets, data[k] = d, Complete(k, d, ev),
             trySpeculative' = [trySpeculative EXCEPT ![d] =
                                  (@ \cup ev) \ Exhausted(k, d, ev)]
      PROVE  Notified(l, j)'
  <2> HIDE DEF d, ev
  <2>1. CASE data[l] = d /\ j \in ev
    <3>1. l = k
      BY <1>1, <1>6, <2>1, ReactorAssumption DEF Owners, ReactorAssumption
    <3>2. ~Due(k, j)'
      BY <1>1, <1>2, <1>3, <1>6, <2>1, <3>1, EventsDealtWith
    <3>3. QED
      BY <3>1, <3>2
  <2>2. CASE ~(data[l] = d /\ j \in ev)
    <3>1. j \in trySpeculative'[data[l]] <=> j \in trySpeculative[data[l]]
      BY <1>1, <1>3, <1>6, <2>2 DEF TypeOK, StateOK, Exhausted
    <3>2. /\ unread'[l] > 0 => unread[l] > 0
          /\ j \in ReadyEvents(l)' => j \in ReadyEvents(l)
      <4> DEFINE n == [x \in AllKinds |-> DoneOfKind(k, d, ev, x)]
      <4>1. n \in [AllKinds -> Nat]
        BY <1>1, DoneOfKindNat DEF TypeOK
      <4>2. Consume(k, n)
        BY <1>6 DEF Complete
      <4> HIDE DEF n
      <4>3. QED
        BY <1>2, <4>1, <4>2, ConsumeLess DEF TypeOK
    <3>3. opQueue'[data[l]][j] # <<>> => opQueue[data[l]][j] # <<>>
      <4>1. StateOK /\ OpOK /\ OpsOfOwner /\ work \in Int
        BY DEF TypeOK, Waiting
      <4>2. Removes(Performances(k, d, ev))
        BY <1>1, <1>6, <4>1, CompleteDone
      <4>3. QED
        BY <1>3, <4>1, <4>2, QueuesShrink
    <3>4. Due(l, j)
      BY <1>2, <3>1, <3>2, <3>3, WasDue
    <3>5. QED
      BY <1>4, <2>2, <3>4
  <2>3. QED
    BY <2>1, <2>2
<1>7. QED
  BY <1>5, <1>6 DEF PerformIo

\* A descriptor that is opened has nothing to wait for yet, and one that is
\* closed no more.
LEMMA SocketsEvents ==
  ASSUME TypeOK, Owners, Waiting, Events, NEW k \in Sockets,
         \/ \E d \in States, isFile \in BOOLEAN : Open(k, d, isFile)
         \/ \E closing \in BOOLEAN : Deregister(k, closing)
         \/ CloseDescriptor(k) \/ Cleanup(k),
         NEW l \in Sockets, NEW j \in OpTypes, Due(l, j)'
  PROVE  Notified(l, j)'
<1> USE DEF TypeOK, SockOK, KernelOK, StateOK
<1>1. phase'[l] = "open"
  BY DEF Due
<1>2. /\ shut' = shut /\ UNCHANGED <<queue, polled, at>>
      /\ l # k => /\ data'[l] = data[l]
                  /\ phase'[l] = phase[l]
                  /\ mask'[l] = mask[l]
                  /\ listed'[l] = listed[l]
                  /\ unread'[l] = unread[l] /\ ended'[l] = ended[l]
                  /\ urgent'[l] = urgent[l] /\ room'[l] = room[l]
  BY DEF Open, Control, Deregister, CloseDescriptor, Cleanup, schedVars,
       kernelVars
<1>3. ASSUME l # k, opQueue'[data[l]] = opQueue[data[l]],
             trySpeculative'[data[l]] = trySpeculative[data[l]]
      PROVE  Notified(l, j)'
  <2>1. j \in ReadyEvents(l)' => j \in ReadyEvents(l)
    BY <1>2, <1>3 DEF ReadyEvents
  <2>2. QED
    BY <1>2, <1>3, <2>1, UndisturbedEvents
<1>4. ASSUME NEW d \in States, NEW isFile \in BOOLEAN, Open(k, d, isFile)
      PROVE  Notified(l, j)'
  <2>1. CASE l = k
    <3>1. data'[l] = d /\ trySpeculative'[d] = OpTypes /\ opQueue' = opQueue
      BY <1>4, <2>1 DEF Open
    <3>2. QueuedIn(d) = {}
      BY <1>4, QueuedOp DEF Open
    <3>4. opQueue[d][j] = <<>>
      BY <3>2, NoneQueued
    <3>5. QED
      BY <3>1, <3>4 DEF Due, Relied, Queued
  <2>2. CASE l # k
    <3>1. data[l] # d
      BY <1>1, <1>2, <1>4, <2>2 DEF Owners, Open
    <3>2. QED
      BY <1>3, <1>4, <2>2, <3>1 DEF Open
  <2>3. QED
    BY <2>1, <2>2
<1>5. ASSUME NEW closing \in BOOLEAN, Deregister(k, closing)
      PROVE  Notified(l, j)'
  <2>1. l # k
    BY <1>1, <1>5 DEF Deregister
  <2>2. data[l] \in States /\ data[l] # data[k]
    <3>1. data[l] \in States
      BY <1>1, <1>2, <2>1, ReadyState
    <3>2. QED
      BY <2>1, <3>1, ReactorAssumption DEF Owners, ReactorAssumption
  <2>3. trySpeculative'[data[l]] = trySpeculative[data[l]]
    BY <1>5 DEF Deregister
  <2>4. opQueue'[data[l]] = opQueue[data[l]]
    <3>1. \/ opQueue' = opQueue
          \/ opQueue' = [opQueue EXCEPT ![data[k]] = EmptyQueues(@)]
      BY <1>5 DEF Deregister
    <3>2. QED
      BY <2>2, <3>1
  <2>5. QED
    BY <1>3, <2>1, <2>3, <2>4
<1>6. CASE CloseDescriptor(k) \/ Cleanup(k)
  <2>1. l # k
    BY <1>1, <1>6 DEF CloseDescriptor, Cleanup
  <2>2. UNCHANGED <<opQueue, trySpeculative>>
    BY <1>6 DEF CloseDescriptor, Cleanup, stateVars
  <2>3. QED
    BY <1>3, <2>1, <2>2
<1>7. QED
  BY <1>4, <1>5, <1>6

\* Operations are cancelled: their events are waited for by fewer.
LEMMA CancelsEvents ==
  ASSUME TypeOK, Owners, Waiting, Events, NEW k \in Sockets,
         Cancel(k) \/ \E h \in OpTypes, i \in 1 .. MaxOp : CancelByKey(k, h, i),
         NEW l \in Sockets, NEW j \in OpTypes, Due(l, j)'
  PROVE  Notified(l, j)'
<1>1. /\ shut' = shut /\ phase[k] = "open"
      /\ UNCHANGED <<queue, polled, at, data, phase, mask, listed, unread,
                     ended, urgent, room, trySpeculative>>
  BY DEF Cancel, CancelByKey, CancelOps, sockVars, kernelVars, schedVars
<1>2. data[k] \in States /\ StateOK /\ OpOK /\ OpsOfOwner
  BY <1>1, ReadyState DEF TypeOK, Waiting
<1>3. \E S : Removes(S)
  <2>1. CASE Cancel(k)
    BY <1>2, <2>1, EmptiesState DEF Cancel, CancelOps
  <2>2. ASSUME NEW h \in OpTypes, NEW i \in 1 .. MaxOp, CancelByKey(k, h, i)
        PROVE  Removes({opQueue[data[k]][h][i]})
    BY <1>2, <2>2, RemovesByKey DEF CancelByKey, CancelOps, Queued
  <2>3. QED
    BY <2>1, <2>2
<1>4. data[l] \in States
  BY <1>1, ReadyState DEF Due
<1>5. opQueue'[data[l]][j] # <<>> => opQueue[data[l]][j] # <<>>
  BY <1>2, <1>3, <1>4, QueuesShrink
<1>6. j \in ReadyEvents(l)' => j \in ReadyEvents(l)
  BY <1>1 DEF ReadyEvents
<1>7. QED
  BY <1>1, <1>5, <1>6, UndisturbedEvents

\* No event is lost in any step.
LEMMA NextEvents ==
  TypeOK /\ Owners /\ Masks /\ Waiting /\ Threads /\ Events
    /\ TypeOK' /\ Owners' /\ Masks' /\ [Next]_vars => Events'
<1> SUFFICES ASSUME TypeOK, Owners, Masks, Waiting, Threads, Events,
                    TypeOK', Owners', Masks', [Next]_vars,
                    NEW l \in Sockets, NEW j \in OpTypes, Due(l, j)'
             PROVE  Notified(l, j)'
  BY DEF Events
<1>1. ASSUME NEW w \in Workers, Thread(w) PROVE Notified(l, j)'
  BY <1>1, PassOnEvents, PerformsEvents DEF Thread
<1>2. ASSUME UNCHANGED <<sockVars, kernelVars, stateVars, schedVars, shut>>
      PROVE  Notified(l, j)'
  BY <1>2, UndisturbedEvents
     DEF sockVars, kernelVars, stateVars, schedVars, ReadyEvents
<1>3. ASSUME NEW k \in Sockets, \/ PeerSends(k) \/ PeerSendsUrgent(k)
                                \/ PeerEnds(k) \/ PeerReceives(k)
      PROVE  Notified(l, j)'
  BY <1>3, PeersEvents
<1>4. ASSUME NEW k \in Sockets, NEW kind \in Kinds, Start(k, kind)
      PROVE  Notified(l, j)'
  BY <1>2, <1>4, StartsPerformedEvents, StartsQueuedEvents
     DEF Start, StartClosed, StartNotSupported
<1>5. ASSUME NEW k \in Sockets,
             Cancel(k) \/ \E h \in OpTypes, i \in 1 .. MaxOp :
                            CancelByKey(k, h, i)
      PROVE  Notified(l, j)'
  BY <1>5, CancelsEvents
<1>6. ASSUME NEW k \in Sockets,
             \/ \E d \in States, isFile \in BOOLEAN : Open(k, d, isFile)
             \/ \E closing \in BOOLEAN : Deregister(k, closing)
             \/ CloseDescriptor(k) \/ Cleanup(k)
      PROVE  Notified(l, j)'
  BY <1>6, SocketsEvents
<1>7. ASSUME NEW o \in Ops, RunPosted(o) PROVE Notified(l, j)'
  BY <1>2, <1>7 DEF RunPosted
<1>8. CASE Shutdown
  BY <1>8 DEF Shutdown, Due
<1>9. CASE UNCHANGED vars
  BY <1>2, <1>9 DEF vars
<1>10. QED
  BY <1>1, <1>3, <1>4, <1>5, <1>6, <1>7, <1>8, <1>9 DEF Next

----------------------------------------------------------------------------
(* The theorems *)

\* The context shuts down once.
LEMMA NextShutType == TypeOK /\ [Next]_vars => shut' \in BOOLEAN
<1> SUFFICES ASSUME TypeOK, [Next]_vars PROVE shut' \in BOOLEAN
  OBVIOUS
<1>1. shut' = shut \/ shut' = TRUE
  BY SchedSteps DEF Thread, Poll, TaskCleanup, TakeState, PerformIo, Shutdown
<1>2. QED
  BY <1>1, Zenon DEF TypeOK

\* outstanding_work_ goes up or down by one at most.
LEMMA NextCountType == TypeOK /\ [Next]_vars => work' \in Int
<1> SUFFICES ASSUME TypeOK, [Next]_vars PROVE work' \in Int
  OBVIOUS
<1>a. ASSUME work' \in {work, work + 1, work - 1}
             \/ \E s \in {0, 1} : work' = work + s - 1
      PROVE  work' \in Int
  <2>1. work \in Int
    BY DEF TypeOK
  <2>2. QED
    BY <1>a, <2>1
<1>b. \A s : Compensation(s) \in {0, 1}
  BY DEF Compensation
<1>1. ASSUME NEW w \in Workers, Thread(w) PROVE work' \in Int
  BY <1>a, <1>b, <1>1
     DEF Thread, Poll, TaskCleanup, TakeState, PerformIo, Complete
<1>2. ASSUME NEW o \in Ops, RunPosted(o) PROVE work' \in Int
  BY <1>a, <1>2 DEF RunPosted
<1>3. ASSUME NEW k \in Sockets, \/ PeerSends(k) \/ PeerSendsUrgent(k)
                                \/ PeerEnds(k) \/ PeerReceives(k)
      PROVE  work' \in Int
  BY <1>a, <1>3 DEF PeerSends, PeerSendsUrgent, PeerEnds, PeerReceives
<1>4. ASSUME NEW k \in Sockets, NEW kind \in Kinds, Start(k, kind)
      PROVE work' \in Int
  BY <1>a, <1>4 DEF Start, StartClosed, StartPerformed, StartNotSupported,
       StartQueued, Starts
<1>5. ASSUME NEW k \in Sockets,
             Cancel(k) \/ \E h \in OpTypes, i \in 1 .. MaxOp :
                            CancelByKey(k, h, i)
      PROVE  work' \in Int
  BY <1>a, <1>5 DEF Cancel, CancelByKey, CancelOps, Abort
<1>6. ASSUME NEW k \in Sockets,
             \/ \E d \in States, isFile \in BOOLEAN : Open(k, d, isFile)
             \/ \E closing \in BOOLEAN : Deregister(k, closing)
             \/ CloseDescriptor(k) \/ Cleanup(k)
      PROVE  work' \in Int
  BY <1>a, <1>6 DEF Open, Deregister, CloseDescriptor, Cleanup, Abort
<1>7. CASE Shutdown \/ UNCHANGED vars
  <2>1. work' = work
    BY <1>7 DEF Shutdown, vars
  <2>2. QED
    BY <1>a, <2>1
<1>8. QED
  BY <1>1, <1>2, <1>3, <1>4, <1>5, <1>6, <1>7 DEF Next

\* The invariant holds at first,
LEMMA InitInv == Init => Inv
<1> SUFFICES ASSUME Init PROVE Inv
  OBVIOUS
<1> USE ReactorAssumption DEF ReactorAssumption, Init
<1>1. TypeOK
  <2>1. SockOK /\ KernelOK
    BY DEF SockOK, KernelOK, Phases
  <2>2. StateOK
    BY DEF StateOK
  <2>3. SchedOK
    BY DEF SchedOK
  <2>4. OpOK
    BY DEF OpOK, Records, Statuses, Results
  <2>5. work = 0 /\ shut = FALSE
    OBVIOUS
  <2> HIDE DEF Init
  <2>6. work \in Int
    BY <2>5
  <2>7. shut \in BOOLEAN
    BY <2>5, Zenon
  <2>8. QED
    BY <2>1, <2>2, <2>3, <2>4, <2>6, <2>7, Zenon DEF TypeOK
<1>2. Owners
  BY DEF Owners
<1>3. Masks
  BY DEF Masks
<1>4. Waiting
  <2>1. \A d \in States, j \in OpTypes : opQueue[d][j] = <<>>
    OBVIOUS
  <2>2. \A d \in States, j \in OpTypes : DOMAIN opQueue[d][j] = {}
    BY <2>1
  <2>3. \A d \in States : QueuedIn(d) = {}
    BY <2>2 DEF QueuedIn, ToSet
  <2>4. \A o \in Ops : status[o] = "new"
    OBVIOUS
  <2>5. OpsOfOwner
    BY <2>2, <2>3, <2>4 DEF OpsOfOwner
  <2>6. RightQueues /\ StartOrder
    BY <2>2, <2>4 DEF RightQueues, StartOrder
  <2>7. QED
    BY <2>5, <2>6 DEF Waiting
<1>5. Threads
  BY DEF Threads, Once
<1>6. Events
  BY DEF Events, Due
<1>7. WorkIsOps
  <2>1. Under = {}
    BY DEF Under
  <2>2. QED
    BY <2>1, FS_EmptySet DEF WorkIsOps, Under
<1>8. QED
  BY <1>1, <1>2, <1>3, <1>4, <1>5, <1>6, <1>7 DEF Inv

\* is preserved by every step,
LEMMA NextInv == Inv /\ [Next]_vars => Inv'
<1> SUFFICES ASSUME Inv, [Next]_vars PROVE Inv'
  OBVIOUS
<1>1. TypeOK /\ Owners /\ Masks /\ Waiting /\ Threads /\ Events /\ WorkIsOps
  BY DEF Inv
<1>2. SockOK' /\ KernelOK' /\ StateOK' /\ SchedOK' /\ OpOK'
  BY <1>1, NextSockType, NextKernelType, NextStateType, NextSchedType,
       NextOpType
<1>3. TypeOK'
  BY <1>1, <1>2, NextCountType, NextShutType DEF TypeOK
<1>4. Owners' /\ Masks' /\ Waiting' /\ Threads' /\ WorkIsOps'
  BY <1>1, NextOwners, NextMasks, NextWaiting, NextThreads, NextWork
<1>5. Events'
  BY <1>1, <1>3, <1>4, NextEvents
<1>6. QED
  BY <1>3, <1>4, <1>5 DEF Inv

\* and so it always holds.
LEMMA SpecInv == Spec => []Inv
BY InitInv, NextInv, PTL DEF Spec

\* A socket that is about to free its state owns it alone:
\* cleanup_descriptor_data of two sockets, or of one after shutdown(), never
\* frees a state twice.
THEOREM FreesOwnStateAlways == Spec => []FreesOwnState
<1>1. Inv => FreesOwnState
  BY DEF Inv, Owners, FreesOwnState
<1>2. QED
  BY <1>1, SpecInv, PTL

\* Each operation of a socket waits in the state of that socket, at one place,
\* whatever was cancelled, closed, recycled or shut down in between.
THEOREM OpsOfOwnerAlways == Spec => []OpsOfOwner
<1>1. Inv => OpsOfOwner
  BY DEF Inv, Waiting
<1>2. QED
  BY <1>1, SpecInv, PTL

\* No state, and with it not the task, is linked in two of the scheduler's
\* queues, or twice in one: set_ready_events never writes to a linked state.
THEOREM LinkedOnceAlways == Spec => []LinkedOnce
<1>1. Inv => LinkedOnce
  <2> SUFFICES ASSUME Inv PROVE LinkedOnce
    OBVIOUS
  <2>1. Threads
    BY DEF Inv
  <2>2. \A w \in Workers : polled[w] # <<>> => pc[w] = "polled"
    BY <2>1 DEF Threads
  <2>3. \A w \in Workers : Apart(queue, polled[w])
    BY <2>1, <2>2 DEF Threads, Apart
  <2>4. \A v, w \in Workers : v # w => Apart(polled[v], polled[w])
    BY <2>1, <2>2 DEF Threads, Apart
  <2>5. Once(queue) /\ \A w \in Workers : Once(polled[w])
    BY <2>1 DEF Threads
  <2>6. QED
    BY <2>3, <2>4, <2>5 DEF LinkedOnce
<1>2. QED
  BY <1>1, SpecInv, PTL

\* outstanding_work_ is the number of operations that are queued or posted:
\* compensating_work_started in perform_io makes up for each descriptor_state
\* that the scheduler counts as an operation.
THEOREM WorkIsOpsAlways == Spec => []WorkIsOps
<1>1. Inv => WorkIsOps
  BY DEF Inv
<1>2. QED
  BY <1>1, SpecInv, PTL

\* No edge-triggered event is lost: while an operation waits that could be
\* performed, epoll, a queue or a thread has its event.
THEOREM NoLostEventAlways == Spec => []NoLostEvent
<1>1. Inv => NoLostEvent
  BY DEF Inv, Events, NoLostEvent, Performable, Due, Relied
<1>2. QED
  BY <1>1, SpecInv, PTL

----------------------------------------------------------------------------
(* The order of reads *)

StreamOK == received \in [Sockets -> Nat] /\ got \in [Sockets -> [Ops -> Nat]]

\* Units are received by operations that have started, up to the last.
Stream ==
  /\ StreamOK /\ ReadsInOrder
  /\ \A k \in Sockets, o \in Ops :
       got[k][o] <= received[k] /\ (got[k][o] > 0 => status[o] # "new")

\* The numbers of the units are those of the operations before.
LEMMA BeforeLater ==
  ASSUME NEW ks, NEW i \in Nat, NEW j \in Nat, i <= j, NEW kind
  PROVE  Before(ks, i + 1, kind) <= Before(ks, j + 1, kind)
<1> DEFINE S == {n \in 1 .. i : ks[n] = kind}
           T == {n \in 1 .. j : ks[n] = kind}
<1>1. IsFiniteSet(1 .. j)
  BY FS_Interval
<1>2. IsFiniteSet(T) /\ S \subseteq T
  BY <1>1, FS_Subset
<1>3. Cardinality(S) <= Cardinality(T)
  BY <1>2, FS_Subset
<1>4. Before(ks, i + 1, kind) = Cardinality(S)
      /\ Before(ks, j + 1, kind) = Cardinality(T)
  BY DEF Before
<1>5. QED
  BY <1>3, <1>4

\* The lesser of two numbers.
LEMMA MinTwo ==
  ASSUME NEW x \in Nat, NEW y \in Nat
  PROVE  Min({x, y}) = IF x < y THEN x ELSE y
<1>1. \E m \in {x, y} : \A z \in {x, y} : m <= z
  OBVIOUS
<1>2. QED
  BY <1>1 DEF Min

\* What a step that starts nothing and performs nothing leaves of the order.
LEMMA NothingReceived ==
  ASSUME Stream,
         \A o \in Ops : /\ status'[o] = "queued" =>
                             status[o] = "queued" /\ op'[o] = op[o]
                        /\ status'[o] = "new" => status[o] = "new",
         StreamOK',
         \A k \in Sockets :
           \/ got'[k] = got[k] /\ received'[k] = received[k]
           \/ \A o \in Ops : got'[k][o] = 0
  PROVE  Stream'
<1>1. \A k \in Sockets, o \in Ops :
        got'[k][o] > 0 => got'[k] = got[k] /\ received'[k] = received[k]
  BY DEF StreamOK
<1>2. \A k \in Sockets, o \in Ops :
        got'[k][o] <= received'[k] /\ (got'[k][o] > 0 => status'[o] # "new")
  BY <1>1 DEF Stream, StreamOK
<1>3. ReadsInOrder'
  BY <1>1 DEF Stream, ReadsInOrder
<1>4. QED
  BY <1>2, <1>3 DEF Stream

\* An operation that starts is the last: it may receive the next unit, if none
\* waits to read, and may wait behind all that have received one.
LEMMA StartsStream ==
  ASSUME TypeOK, Owners, Waiting, Stream, NEW k \in Sockets, NEW kind \in Kinds,
         Start(k, kind)
  PROVE  Stream'
<1> USE DEF TypeOK
<1>0. NewOps # {}
  BY DEF Start, StartClosed, StartPerformed, StartNotSupported, StartQueued,
         CanStart
<1>1. PICK how, res : Starts(k, kind, how, res)
  BY DEF Start, StartClosed, StartPerformed, StartNotSupported, StartQueued
<1> DEFINE n == NextOp
<1>2. /\ n \in Ops /\ status[n] = "new"
      /\ op'[n] = [sock |-> k, kind |-> kind] /\ status'[n] = how
      /\ \A o \in Ops \ {n} : op'[o] = op[o] /\ status'[o] = status[o]
  BY <1>0, <1>1, NewIsNext, StartsMakes
<1>3. how = IF StartQueued(k, kind) THEN "queued" ELSE "posted"
  <2>1. status'[n] = "queued" <=> StartQueued(k, kind)
    BY <1>2, NewIsNext DEF Start, StartClosed, StartPerformed,
      StartNotSupported, StartQueued, Starts, OpOK
  <2>2. status'[n] = "posted" \/ StartQueued(k, kind)
    BY <1>2, NewIsNext DEF Start, StartClosed, StartPerformed,
      StartNotSupported, StartQueued, Starts, OpOK
  <2>3. QED
    BY <1>2, <2>1, <2>2
<1>4. \A l \in Sockets, p \in Ops : got[l][p] > 0 => p < n
  <2>1. \A p \in Ops : n < p => status[p] = "new"
    BY <1>2 DEF Waiting, StartOrder
  <2>2. n \in Nat /\ \A p \in Ops : p \in Nat
    BY <1>2, ReactorAssumption DEF Ops, ReactorAssumption
  <2> HIDE DEF n
  <2>3. QED
    BY <1>2, <2>1, <2>2 DEF Stream
<1>5. CASE UNCHANGED streamVars
  <2>1. /\ \A o \in Ops : status'[o] = "new" => status[o] = "new"
        /\ \A o \in Ops \ {n} : status'[o] = status[o] /\ op'[o] = op[o]
        /\ \A l \in Sockets, p \in Ops : got[l][p] > 0 => p < n
    BY <1>2, <1>3, <1>4
  <2> HIDE DEF n
  <2>2. ReadsInOrder'
    BY <1>5, <2>1 DEF Stream, ReadsInOrder, streamVars
  <2>3. QED
    BY <1>5, <2>1, <2>2 DEF Stream, StreamOK, streamVars
<1>6. CASE ~UNCHANGED streamVars
  <2>1. StartPerformed(k, kind)
    BY <1>6 DEF Start, StartClosed, StartNotSupported, StartQueued
  <2> DEFINE f == [x \in AllKinds |-> IF x = kind THEN 1 ELSE 0]
  <2>2. /\ Consume(k, f) /\ phase[k] = "open"
        /\ Performs(k, kind)
        /\ got' = IF kind = "read" /\ Outcome(k, <<kind>>, 1) = "received"
                    THEN [got EXCEPT ![k][n] = UnitFor(k, <<kind>>, 1)] ELSE got
    BY <2>1 DEF StartPerformed
  <2>3. UnitFor(k, <<kind>>, 1) = received[k] + 1
    BY BeforeFirst DEF UnitFor, Stream, StreamOK
  <2>4. unread[k] \in Nat /\ received[k] \in Nat /\ f["read"] \in Nat
        /\ f["read"] = IF kind = "read" THEN 1 ELSE 0
    BY DEF KernelOK, Stream, StreamOK, AllKinds
  <2>5. received' = [received EXCEPT ![k] = @ + Min({unread[k], f["read"]})]
    BY <2>2 DEF Consume
  <2>6. Min({unread[k], f["read"]}) =
          IF unread[k] < f["read"] THEN unread[k] ELSE f["read"]
    BY <2>4, MinTwo
  <2> HIDE DEF f
  <2>7. /\ received' \in [Sockets -> Nat]
        /\ \A l \in Sockets \ {k} : received'[l] = received[l]
        /\ received[k] <= received'[k]
        /\ kind = "read" /\ unread[k] > 0 => received'[k] = received[k] + 1
    BY <2>4, <2>5, <2>6 DEF Stream, StreamOK
  <2>8. how = "posted"
    BY <1>2, <2>1, NewIsNext DEF StartPerformed, Starts, OpOK
  <2>9. CASE kind = "read" /\ Outcome(k, <<kind>>, 1) = "received"
    <3>1. unread[k] > 0
      <4>1. Available(k, <<"read">>, 1) = unread[k]
        BY <2>4, BeforeFirst DEF Available
      <4>2. QED
        BY <2>4, <2>9, <4>1 DEF Outcome
    <3>2. /\ got' \in [Sockets -> [Ops -> Nat]]
          /\ got'[k][n] = received[k] + 1
          /\ \A l \in Sockets, o \in Ops :
               l # k \/ o # n => got'[l][o] = got[l][o]
      <4>1. got' = [got EXCEPT ![k][n] = received[k] + 1]
        BY <2>2, <2>3, <2>9
      <4> HIDE DEF n
      <4>2. QED
        BY <1>2, <2>4, <4>1 DEF Stream, StreamOK
    <3>3. opQueue[data[k]]["read"] = <<>>
      BY <2>2, <2>9 DEF Performs, MayPerform, Queued, TypeOf
    <3>4. ASSUME NEW o \in Ops, status[o] = "queued", op[o].kind = "read",
                 op[o].sock = k
          PROVE  FALSE
      <4>1. PICK d \in States : o \in QueuedIn(d)
        BY <3>4 DEF Waiting, OpsOfOwner
      <4>2. data[k] = d
        BY <3>4, <4>1, QueuedOp
      <4>3. PICK j \in OpTypes : o \in ToSet(opQueue[d][j])
        BY <4>1 DEF QueuedIn
      <4>4. j = "read"
        BY <3>4, <4>3 DEF Waiting, RightQueues, ToSet, TypeOf
      <4>5. QED
        BY <3>3, <4>2, <4>3, <4>4 DEF ToSet
    <3>5. /\ status'[n] = "posted"
          /\ \A l \in Sockets, p \in Ops : got[l][p] > 0 => p < n
          /\ \A l \in Sockets, o \in Ops : got[l][o] <= received[l]
      BY <1>2, <1>4, <2>8 DEF Stream
    <3>6. n \in Nat /\ \A p \in Ops : p \in Nat
      BY <1>2, ReactorAssumption DEF Ops, ReactorAssumption
    <3> HIDE DEF n
    <3>7. \A l \in Sockets, o \in Ops :
            got'[l][o] <= received'[l] /\ (got'[l][o] > 0 => status'[o] # "new")
      BY <1>2, <2>4, <2>7, <3>1, <3>2, <3>5, <2>9 DEF Stream, StreamOK
    <3>8. \A l \in Sockets, p, o \in Ops :
            /\ got'[l][p] > 0
            /\ status'[o] = "queued" /\ op'[o].kind = "read" /\ op'[o].sock = l
            => p < o
      <4> SUFFICES ASSUME NEW l \in Sockets, NEW p \in Ops, NEW o \in Ops,
                          got'[l][p] > 0, status'[o] = "queued",
                          op'[o].kind = "read", op'[o].sock = l
                   PROVE  p < o
        OBVIOUS
      <4>1. o # n /\ status[o] = "queued" /\ op[o].kind = "read"
            /\ op[o].sock = l
        BY <1>2, <3>5
      <4>2. l # k
        BY <3>4, <4>1
      <4>3. got[l][p] > 0
        BY <3>2, <4>2
      <4>4. QED
        BY <4>1, <4>3 DEF Stream, ReadsInOrder
    <3>9. \A l \in Sockets, o, p \in Ops :
            got'[l][p] > 0 /\ o < p /\ got'[l][o] > 0 => got'[l][o] < got'[l][p]
      <4> SUFFICES ASSUME NEW l \in Sockets, NEW o \in Ops, NEW p \in Ops,
                          got'[l][p] > 0, o < p, got'[l][o] > 0
                   PROVE  got'[l][o] < got'[l][p]
        OBVIOUS
      <4>1. CASE l = k /\ p = n
        <5>1. got'[k][o] = got[k][o]
          BY <3>2, <3>6, <4>1
        <5>2. QED
          BY <2>4, <3>2, <3>5, <4>1, <5>1 DEF Stream, StreamOK
      <4>2. CASE l = k /\ o = n
        <5>1. got[k][p] > 0
          BY <3>2, <3>6, <4>2
        <5>2. QED
          BY <3>5, <3>6, <4>2, <5>1
      <4>3. CASE l # k \/ (o # n /\ p # n)
        <5>1. got'[l][o] = got[l][o] /\ got'[l][p] = got[l][p]
          BY <3>2, <4>3
        <5>2. QED
          BY <5>1 DEF Stream, ReadsInOrder
      <4>4. QED
        BY <4>1, <4>2, <4>3
    <3>10. ReadsInOrder'
      BY <3>8, <3>9 DEF ReadsInOrder
    <3>11. QED
      BY <2>7, <3>2, <3>7, <3>10 DEF Stream, StreamOK
  <2>10. CASE ~(kind = "read" /\ Outcome(k, <<kind>>, 1) = "received")
    <3>1. got' = got
      BY <2>2, <2>10
    <3>2. \A o \in Ops : /\ status'[o] = "queued" => status[o] = "queued"
                                                     /\ op'[o] = op[o]
                         /\ status'[o] = "new" => status[o] = "new"
      BY <1>2, <2>8
    <3>3. \A l \in Sockets : received[l] <= received'[l]
      BY <2>7 DEF Stream, StreamOK
    <3>4. ReadsInOrder'
      BY <3>1, <3>2 DEF Stream, ReadsInOrder
    <3>5. QED
      BY <2>7, <3>1, <3>2, <3>3, <3>4 DEF Stream, StreamOK
  <2>11. QED
    BY <2>9, <2>10
<1>7. QED
  BY <1>5, <1>6

\* Which reads perform_io completes with data, and what units they receive: each
\* of the queue the one after those of the reads before it.
LEMMA CompleteReceives ==
  ASSUME TypeOK, Waiting, StreamOK, NEW k \in Sockets, NEW d \in States,
         NEW ev \in SUBSET OpTypes, Complete(k, d, ev)
  PROVE  LET q == opQueue[d]["read"]
             n == Len(DoneOf(k, d, ev, "read"))
         IN  /\ StreamOK' /\ q \in Seq(Ops) /\ n \in 0 .. Len(q)
             /\ \A l \in Sockets \ {k} :
                  got'[l] = got[l] /\ received'[l] = received[l]
             /\ received[k] <= received'[k]
             /\ \A o \in Ops :
                  \/ got'[k][o] = got[k][o]
                  \/ \E i \in 1 .. n :
                       /\ q[i] = o /\ op[o].kind = "read"
                       /\ got'[k][o] = received[k] + Before(KindsOf(q), i, "read")
                                         + 1
                       /\ got'[k][o] <= received'[k]
<1> USE DEF TypeOK
<1> DEFINE q == opQueue[d]["read"]
           ks == KindsOf(q)
           all == DoneBy(k, d, ev)
           n == Len(DoneOf(k, d, ev, "read"))
           Queue(o) == opQueue[d][TypeOf(op[o].kind)]
           Place(o) == CHOOSE i \in DOMAIN Queue(o) : Queue(o)[i] = o
           Result(o) == Outcome(k, KindsOf(Queue(o)), Place(o))
           Receives(o) == o \in ToSet(all) /\ op[o].kind = "read"
                                           /\ Result(o) = "received"
           f == [x \in AllKinds |-> DoneOfKind(k, d, ev, x)]
<1>1. /\ q \in Seq(Ops) /\ n \in 0 .. Len(q)
      /\ ToSet(DoneOf(k, d, ev, "read")) = {q[i] : i \in 1 .. n}
      /\ \A i, j \in DOMAIN q : q[i] = q[j] => i = j
  <2>1. "read" \in OpTypes /\ StateOK /\ OpsOfOwner
    BY DEF OpTypes, Waiting
  <2>2. /\ n \in 0 .. Len(q)
        /\ ToSet(DoneOf(k, d, ev, "read")) = {q[i] : i \in 1 .. n}
    BY <2>1, DoneFront
  <2>3. q \in Seq(Ops) /\ \A i, j \in DOMAIN q : q[i] = q[j] => i = j
    BY <2>1, OnePlace
  <2>4. QED
    BY <2>2, <2>3
<1>2. Len(ks) = Len(q) /\ \A i \in 1 .. Len(q) : ks[i] = op[q[i]].kind
  BY <1>1, KindsOfSeq
<1>3. /\ got' = [got EXCEPT ![k] = [o \in Ops |->
           IF Receives(o) THEN UnitFor(k, KindsOf(Queue(o)), Place(o))
                          ELSE @[o]]]
      /\ Consume(k, f)
  BY DEF Complete
<1>4. ASSUME NEW o \in Ops, Receives(o)
      PROVE  /\ Place(o) \in 1 .. n /\ q[Place(o)] = o /\ ks[Place(o)] = "read"
             /\ Queue(o) = q
             /\ Available(k, ks, Place(o)) > 0
  <2>1. Queue(o) = q
    BY <1>4 DEF TypeOf
  <2>2. PICK j \in OpTypes : o \in ToSet(DoneOf(k, d, ev, j))
    BY <1>4, DoneTogether DEF Performances
  <2>3. o \in ToSet(opQueue[d][j])
    BY <2>2, DoneAreQueued
  <2>4. j = "read"
    BY <1>4, <2>3 DEF Waiting, RightQueues, ToSet, TypeOf
  <2>5. PICK i \in 1 .. n : q[i] = o
    BY <1>1, <2>2, <2>4
  <2>6. i \in DOMAIN q
    BY <1>1
  <2>7. Place(o) \in DOMAIN q /\ q[Place(o)] = o
    BY <2>1, <2>5, <2>6
  <2>8. Place(o) = i
    BY <1>1, <2>5, <2>6, <2>7
  <2>9. ks[i] = "read"
    BY <1>1, <1>2, <1>4, <2>5
  <2>10. Outcome(k, ks, i) = "received"
    BY <1>4, <2>1, <2>8
  <2>11. Available(k, ks, i) > 0
    BY <2>9, <2>10 DEF Outcome
  <2>12. QED
    BY <2>1, <2>5, <2>8, <2>9, <2>11
<1> HIDE DEF all, Place, Result, Receives, Queue
<1>5. /\ unread[k] \in Nat /\ received[k] \in Nat
      /\ f["read"] = Before(ks, n + 1, "read") /\ f["read"] \in Nat
  <2>1. TypeOf("read") = "read"
    BY DEF TypeOf
  <2>2. f["read"] = DoneOfKind(k, d, ev, "read")
    BY DEF AllKinds
  <2>3. DoneOfKind(k, d, ev, "read") \in Nat
    BY DoneOfKindNat DEF AllKinds
  <2>4. QED
    BY <2>1, <2>2, <2>3 DEF DoneOfKind, KernelOK, StreamOK
<1>6. /\ received' = [received EXCEPT ![k] = @ + Min({unread[k], f["read"]})]
      /\ Min({unread[k], f["read"]}) =
           IF unread[k] < f["read"] THEN unread[k] ELSE f["read"]
  BY <1>3, <1>5, MinTwo DEF Consume
<1> HIDE DEF f
<1>7. /\ received' \in [Sockets -> Nat]
      /\ \A l \in Sockets \ {k} : received'[l] = received[l]
      /\ received'[k] = received[k] + Min({unread[k], f["read"]})
  BY <1>5, <1>6 DEF StreamOK
<1>8. ASSUME NEW o \in Ops, Receives(o)
      PROVE  LET b == Before(ks, Place(o), "read")
             IN  /\ b \in Nat /\ UnitFor(k, KindsOf(Queue(o)), Place(o)) =
                                    received[k] + b + 1
                 /\ b + 1 <= Min({unread[k], f["read"]})
  <2> DEFINE i == Place(o)
             b == Before(ks, i, "read")
  <2>1. i \in 1 .. n /\ ks[i] = "read" /\ Available(k, ks, i) > 0
        /\ Queue(o) = q
    BY <1>4, <1>8
  <2> HIDE DEF i, ks, q, n
  <2>2. n \in Nat /\ i \in Nat \ {0} /\ i <= n
    BY <1>1, <2>1
  <2>3. b \in Nat
    <3>1. i - 1 \in Nat /\ (i - 1) + 1 = i
      BY <2>2
    <3>2. QED
      BY <3>1, BeforeNat
  <2>4. Before(ks, i + 1, "read") = b + 1
    BY <2>1, <2>2, BeforeNext
  <2>5. b + 1 <= f["read"]
    BY <1>5, <2>2, <2>4, BeforeLater
  <2>6. b + 1 <= unread[k]
    BY <1>5, <2>1, <2>3 DEF Available
  <2>7. UnitFor(k, ks, i) = received[k] + b + 1
    BY DEF UnitFor
  <2>8. QED
    BY <1>6, <2>1, <2>3, <2>5, <2>6, <2>7 DEF ks, i
<1>9. got' = [got EXCEPT ![k] = [o \in Ops |->
        IF Receives(o) THEN received[k] + Before(ks, Place(o), "read") + 1
                       ELSE got[k][o]]]
  BY <1>3, <1>8
<1>10. got'[k] = [o \in Ops |->
         IF Receives(o) THEN received[k] + Before(ks, Place(o), "read") + 1
                        ELSE got[k][o]]
       /\ \A l \in Sockets \ {k} : got'[l] = got[l]
  BY <1>9 DEF StreamOK
<1> HIDE DEF ks, n, q
<1>11. got'[k] \in [Ops -> Nat]
  BY <1>5, <1>8, <1>10 DEF StreamOK
<1>12. got' \in [Sockets -> [Ops -> Nat]]
  BY <1>9, <1>10, <1>11 DEF StreamOK
<1>13. Min({unread[k], f["read"]}) \in Nat
  BY <1>5, <1>6
<1>14. ASSUME NEW o \in Ops
       PROVE  \/ got'[k][o] = got[k][o]
              \/ \E i \in 1 .. n :
                   /\ q[i] = o /\ op[o].kind = "read"
                   /\ got'[k][o] = received[k] + Before(ks, i, "read") + 1
                   /\ got'[k][o] <= received'[k]
  <2>1. CASE Receives(o)
    <3>1. got'[k][o] = received[k] + Before(ks, Place(o), "read") + 1
      BY <1>10, <2>1
    <3>2. got'[k][o] <= received'[k]
      BY <1>5, <1>7, <1>8, <1>13, <2>1, <3>1
    <3>3. QED
      BY <1>4, <2>1, <3>1, <3>2 DEF Receives
  <2>2. CASE ~Receives(o)
    BY <1>10, <2>2
  <2>3. QED
    BY <2>1, <2>2
<1>15. received[k] <= received'[k]
  BY <1>5, <1>7, <1>13
<1>16. QED
  BY <1>1, <1>7, <1>10, <1>12, <1>14, <1>15 DEF StreamOK, q, ks, n

\* perform_io takes the reads from the front of their queue.
LEMMA CompletesStream ==
  ASSUME TypeOK, Owners, Waiting, Stream, NEW k \in Sockets, NEW d \in States,
         data[k] = d, NEW ev \in SUBSET OpTypes, Complete(k, d, ev)
  PROVE  Stream'
<1> USE DEF TypeOK
<1> DEFINE S == Performances(k, d, ev)
           q == opQueue[d]["read"]
           n == Len(DoneOf(k, d, ev, "read"))
           b(i) == Before(KindsOf(q), i, "read")
<1>1. Removes(S)
  BY CompleteDone DEF Waiting
<1>2. /\ StreamOK' /\ q \in Seq(Ops) /\ n \in 0 .. Len(q)
      /\ \A l \in Sockets \ {k} : got'[l] = got[l] /\ received'[l] = received[l]
      /\ received[k] <= received'[k]
      /\ \A o \in Ops :
           \/ got'[k][o] = got[k][o]
           \/ \E i \in 1 .. n :
                /\ q[i] = o /\ op[o].kind = "read"
                /\ got'[k][o] = received[k] + b(i) + 1
                /\ got'[k][o] <= received'[k]
  BY CompleteReceives DEF Stream
<1>3. ASSUME NEW i \in 1 .. n
      PROVE  /\ q[i] \in Ops /\ q[i] \in S /\ status[q[i]] = "queued"
             /\ op[q[i]].sock = k /\ i \in DOMAIN q
  <2>1. q[i] \in ToSet(DoneOf(k, d, ev, "read")) /\ i \in DOMAIN q
    <3>1. "read" \in OpTypes /\ StateOK
      BY DEF OpTypes
    <3>2. ToSet(DoneOf(k, d, ev, "read")) = {q[j] : j \in 1 .. n}
      BY <3>1, DoneFront
    <3> HIDE DEF n
    <3>3. QED
      BY <1>2, <3>2
  <2>2. q[i] \in S
    BY <2>1 DEF OpTypes, Performances
  <2>3. q[i] \in QueuedIn(d)
    BY <2>1 DEF QueuedIn, OpTypes, ToSet
  <2>4. /\ q[i] \in Ops /\ status[q[i]] = "queued" /\ op[q[i]].sock \in Sockets
        /\ data[op[q[i]].sock] = d
    BY <2>3, QueuedOp
  <2>5. op[q[i]].sock = k
    BY <2>4, ReactorAssumption DEF Owners, ReactorAssumption
  <2>6. QED
    BY <2>1, <2>2, <2>4, <2>5
<1>4. \A i, j \in DOMAIN q : i < j => q[i] < q[j]
  BY DEF Waiting, StartOrder, OpTypes
<1>5. \A i \in 1 .. n : b(i) \in Nat
  <2>1. ASSUME NEW i \in 1 .. n PROVE i - 1 \in Nat /\ (i - 1) + 1 = i
    BY <1>2
  <2>2. QED
    BY <2>1, BeforeNat
<1>6. ASSUME NEW i \in 1 .. n, NEW j \in 1 .. n, i < j, op[q[i]].kind = "read"
      PROVE  b(i) < b(j)
  <2>1. KindsOf(q)[i] = "read"
    BY <1>2, <1>6, KindsOfSeq
  <2>2. i \in Nat \ {0} /\ j - 1 \in Nat /\ i <= j - 1 /\ (j - 1) + 1 = j
    BY <1>2, <1>6
  <2>3. Before(KindsOf(q), i + 1, "read") = b(i) + 1
    BY <2>1, <2>2, BeforeNext
  <2>4. Before(KindsOf(q), i + 1, "read") <= b(j)
    BY <2>2, BeforeLater
  <2>5. QED
    BY <1>5, <2>3, <2>4
<1> HIDE DEF b, n
<1>7. \A o \in Ops : o \in Nat
  BY ReactorAssumption DEF Ops, ReactorAssumption
<1>8. /\ \A o \in Ops : got[k][o] \in Nat /\ got[k][o] <= received[k]
                        /\ (got[k][o] > 0 => status[o] # "new")
      /\ received[k] \in Nat
  BY DEF Stream, StreamOK
<1>9. ASSUME NEW o \in Ops, got'[k][o] > 0
      PROVE  status'[o] # "new" /\ got'[k][o] <= received'[k]
  <2>1. CASE got'[k][o] = got[k][o]
    BY <1>1, <1>2, <1>8, <1>9, <2>1 DEF Removes, StreamOK
  <2>2. CASE got'[k][o] # got[k][o]
    BY <1>1, <1>2, <1>3, <2>2 DEF Removes
  <2>3. QED
    BY <2>1, <2>2
<1>10. ASSUME NEW o \in Ops, NEW p \in Ops, got'[k][p] > 0, o < p,
              got'[k][o] > 0
       PROVE  got'[k][o] < got'[k][p]
  <2>1. CASE got'[k][o] = got[k][o] /\ got'[k][p] = got[k][p]
    BY <1>10, <2>1 DEF Stream, ReadsInOrder
  <2>2. CASE got'[k][o] # got[k][o]
    <3>1. PICK i \in 1 .. n : /\ q[i] = o /\ op[o].kind = "read"
                              /\ got'[k][o] = received[k] + b(i) + 1
      BY <1>2, <2>2
    <3>2. status[o] = "queued" /\ op[o].sock = k
      BY <1>3, <3>1
    <3>3. ~(got[k][p] > 0)
      BY <1>7, <1>10, <3>1, <3>2 DEF Stream, ReadsInOrder
    <3>4. PICK j \in 1 .. n : /\ q[j] = p /\ op[p].kind = "read"
                              /\ got'[k][p] = received[k] + b(j) + 1
      BY <1>2, <1>10, <3>3
    <3>5. i < j
      <4>1. i \in DOMAIN q /\ j \in DOMAIN q /\ i \in Nat /\ j \in Nat
        BY <1>2, <1>3
      <4>2. j < i => p < o
        BY <1>4, <3>1, <3>4, <4>1
      <4>3. j # i
        BY <1>7, <1>10, <3>1, <3>4
      <4>4. QED
        BY <1>7, <1>10, <4>1, <4>2, <4>3
    <3>6. QED
      BY <1>5, <1>6, <1>8, <3>1, <3>4, <3>5
  <2>3. CASE got'[k][o] = got[k][o] /\ got'[k][p] # got[k][p]
    BY <1>2, <1>5, <1>8, <2>3
  <2>4. QED
    BY <2>1, <2>2, <2>3
<1>11. ASSUME NEW o \in Ops, NEW p \in Ops, got'[k][p] > 0,
              status'[o] = "queued", op'[o].kind = "read", op'[o].sock = k
       PROVE  p < o
  <2>1. /\ status[o] = "queued" /\ o \notin S
        /\ op[o].kind = "read" /\ op[o].sock = k
    BY <1>1, <1>11 DEF Removes
  <2>2. CASE got'[k][p] = got[k][p]
    BY <1>11, <2>1, <2>2 DEF Stream, ReadsInOrder
  <2>3. CASE got'[k][p] # got[k][p]
    <3>1. PICK i \in 1 .. n : q[i] = p
      BY <1>2, <2>3
    <3>2. PICK e \in States : o \in QueuedIn(e)
      BY <2>1 DEF Waiting, OpsOfOwner
    <3>3. e = d
      BY <2>1, <3>2, QueuedOp
    <3>4. PICK h \in OpTypes : o \in ToSet(opQueue[d][h])
      BY <3>2, <3>3 DEF QueuedIn
    <3>5. h = "read"
      BY <2>1, <3>4 DEF Waiting, RightQueues, ToSet, TypeOf
    <3>6. PICK m \in DOMAIN q : q[m] = o
      BY <3>4, <3>5 DEF ToSet
    <3>7. m \in Nat /\ i \in Nat /\ i \in DOMAIN q /\ ~(m \in 1 .. n)
          /\ m \in 1 .. Len(q)
      BY <1>2, <1>3, <2>1, <3>6
    <3>8. i < m
      BY <1>2, <3>7
    <3>9. QED
      BY <1>4, <3>1, <3>6, <3>7, <3>8
  <2>4. QED
    BY <2>2, <2>3
<1>12. ReadsInOrder'
  <2>1. ASSUME NEW l \in Sockets, l # k
        PROVE  \A p \in {o \in Ops : got'[l][o] > 0} :
                 /\ \A o \in Ops : o < p /\ got'[l][o] > 0 =>
                                     got'[l][o] < got'[l][p]
                 /\ \A o \in Ops : status'[o] = "queued" /\ op'[o].kind = "read"
                                   /\ op'[o].sock = l => p < o
    <3>1. got'[l] = got[l]
      BY <1>2, <2>1
    <3>2. \A o \in Ops : status'[o] = "queued" =>
                           status[o] = "queued" /\ op'[o] = op[o]
      BY <1>1 DEF Removes
    <3>3. QED
      BY <3>1, <3>2 DEF Stream, ReadsInOrder
  <2>2. QED
    BY <1>10, <1>11, <2>1 DEF ReadsInOrder
<1>13. \A l \in Sockets, o \in Ops :
         got'[l][o] <= received'[l] /\ (got'[l][o] > 0 => status'[o] # "new")
  <2> SUFFICES ASSUME NEW l \in Sockets, NEW o \in Ops
               PROVE  got'[l][o] <= received'[l]
                      /\ (got'[l][o] > 0 => status'[o] # "new")
    OBVIOUS
  <2>1. got'[l][o] \in Nat /\ received'[l] \in Nat
    BY <1>2 DEF StreamOK
  <2>2. CASE l = k
    BY <1>9, <2>1, <2>2
  <2>3. CASE l # k
    <3>1. got'[l] = got[l] /\ received'[l] = received[l]
      BY <1>2, <2>3
    <3>2. status'[o] = "new" => status[o] = "new"
      BY <1>1 DEF Removes
    <3>3. QED
      BY <3>1, <3>2 DEF Stream
  <2>4. QED
    BY <2>2, <2>3
<1>14. QED
  BY <1>2, <1>12, <1>13 DEF Stream

\* The reads stay in order: a step that is not one of those receives nothing.
LEMMA NextStream == Inv /\ Stream /\ [Next]_vars => Stream'
<1> SUFFICES ASSUME Inv, Stream, [Next]_vars PROVE Stream'
  OBVIOUS
<1>0. TypeOK /\ Owners /\ Waiting /\ Threads
  BY DEF Inv
<1>1. CASE \E k \in Sockets, kind \in Kinds : Start(k, kind)
  BY <1>0, <1>1, StartsStream
<1>2. CASE RemovesSome
  <2>1. \A o \in Ops : /\ status'[o] = "queued" =>
                            status[o] = "queued" /\ op'[o] = op[o]
                       /\ status'[o] = "new" => status[o] = "new"
    BY <1>2 DEF RemovesSome, Removes
  <2>2. CASE UNCHANGED streamVars
    BY <2>1, <2>2, NothingReceived DEF Stream, StreamOK, streamVars
  <2>3. ASSUME NEW k \in Sockets, CloseDescriptor(k) PROVE Stream'
    <3>1. /\ received' = [received EXCEPT ![k] = 0]
          /\ got' = [got EXCEPT ![k] = [o \in Ops |-> 0]]
      BY <2>3 DEF CloseDescriptor
    <3>2. StreamOK'
      BY <3>1 DEF Stream, StreamOK
    <3>3. \A l \in Sockets : \/ got'[l] = got[l] /\ received'[l] = received[l]
                             \/ \A o \in Ops : got'[l][o] = 0
      BY <3>1 DEF Stream, StreamOK
    <3>4. QED
      BY <2>1, <3>2, <3>3, NothingReceived
  <2>4. ASSUME NEW w \in Workers, Thread(w) PROVE Stream'
    <3>1. CASE ~PerformIo(w)
      BY <2>2, <2>4, <3>1 DEF Thread, Poll, TaskCleanup, TakeState
    <3>2. CASE PerformIo(w)
      <4>1. ASSUME NEW k \in Sockets, data[k] = at[w].state,
                   Complete(k, at[w].state, at[w].events)
            PROVE  Stream'
        BY <1>0, <3>2, <4>1, AtWork, CompletesStream DEF PerformIo
      <4>2. QED
        BY <2>2, <3>2, <4>1 DEF PerformIo
    <3>3. QED
      BY <3>1, <3>2
  <2>5. ASSUME NEW o \in Ops, RunPosted(o) PROVE Stream'
    BY <2>2, <2>5 DEF RunPosted
  <2>6. ASSUME NEW k \in Sockets,
               \/ PeerSends(k) \/ PeerSendsUrgent(k)
               \/ PeerEnds(k) \/ PeerReceives(k)
               \/ Cancel(k) \/ \E h \in OpTypes, i \in 1 .. MaxOp :
                                 CancelByKey(k, h, i)
               \/ \E d \in States, isFile \in BOOLEAN : Open(k, d, isFile)
               \/ \E closing \in BOOLEAN : Deregister(k, closing)
               \/ Cleanup(k)
        PROVE  Stream'
    BY <2>2, <2>6 DEF PeerSends, PeerSendsUrgent, PeerEnds, PeerReceives,
      Cancel, CancelByKey, CancelOps, Open, Deregister, Cleanup
  <2>7. CASE Shutdown \/ UNCHANGED vars
    BY <2>2, <2>7 DEF Shutdown, vars
  <2>8. QED
    BY <1>1, <2>3, <2>4, <2>5, <2>6, <2>7 DEF Next
<1>3. QED
  BY <1>0, <1>1, <1>2, WaitSteps

\* The reads of a socket get its data in the order in which they were started,
\* whether start_op tries them at once or perform_io completes them from their
\* queue, one or several in a call.
THEOREM ReadsInOrderAlways == Spec => []ReadsInOrder
<1>1. Init => Stream
  BY DEF Init, Stream, StreamOK, ReadsInOrder
<1>2. Stream => ReadsInOrder
  BY DEF Stream
<1>3. QED
  BY <1>1, <1>2, NextStream, SpecInv, PTL DEF Spec
================================================================================
