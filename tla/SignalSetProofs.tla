-------------------------- MODULE SignalSetProofs --------------------------
(***************************************************************************)
(* That no notification is missed, that the handlers match the             *)
(* registrations, that every reactor knows of what is in the pipe, and that*)
(* signal sets implement Signals, for any contexts, sets, signals, size of *)
(* the pipe and programs.  There are five inductive invariants: SetsInv of *)
(* what the sets hold, PipeInv of the services and the pipe, FlightInv of  *)
(* the signals on their way, which needs PipeInv, WaitsInv of waits, and   *)
(* QueueOK of their queues, which needs WaitsInv.                          *)
(* Each has a lemma for each action that touches its variables.  For the   *)
(* refinement, what is in flight is counted, and each action has a lemma   *)
(* that says which step of Signals it is.                                  *)
(***************************************************************************)
EXTENDS SignalSet, FiniteSetTheorems, WellFoundedInduction, TLAPS

Registrations == UNION {[S -> Nat] : S \in SUBSET SignalNumbers}

SetsTypeOK ==
  /\ undelivered \in [Sets -> Registrations]
  /\ DOMAIN queue = Sets
  /\ count \in [SignalNumbers -> Nat]

SetsInv == SetsTypeOK /\ NoneMissed /\ HandlersMatch

Phases == {"none", "listed", "up", "removing", "removed", "down"}

\* A service is in the list from the first to the last critical section of its
\* life, and watches the pipe for part of that time only.
PhasesOK ==
  /\ phase \in [Services -> Phases]
  /\ \A s \in Services :
       s \in list <=> phase[s] \in {"listed", "up", "removing", "removed"}
  /\ \A s \in watched : s \in Services /\ phase[s] \in {"up", "removing"}

\* Around a fork nothing begins or ends.
ForkOK == forkPrepared => \A s \in Services : phase[s] \in {"none", "up", "down"}

PipeInv == PhasesOK /\ ForkOK /\ list \subseteq Services /\ PipeNotified

----------------------------------------------------------------------------
(* Registrations *)

LEMMA RegistrationsType ==
  ASSUME NEW r \in Registrations
  PROVE  DOMAIN r \subseteq SignalNumbers /\ r \in [DOMAIN r -> Nat]
BY DEF Registrations

LEMMA RegistrationsIntro ==
  ASSUME NEW S \in SUBSET SignalNumbers, NEW r \in [S -> Nat]
  PROVE  r \in Registrations
BY DEF Registrations

\* A finite set of naturals that is not empty has a least element: the sets of
\* what is below each element are well-founded, and below the least of these
\* there is nothing.
LEMMA MinIn ==
  ASSUME NEW S \in SUBSET Nat, S # {}, IsFiniteSet(S)
  PROVE  Min(S) \in S
<1> DEFINE Below(n) == {m \in S : m < n}
           All == {Below(x) : x \in S}
<1>1. \A x \in S : \A y \in Below(x) :
        <<Below(y), Below(x)>> \in StrictSubsetOrdering(S)
  <2> SUFFICES ASSUME NEW x \in S, NEW y \in Below(x)
               PROVE  <<Below(y), Below(x)>> \in StrictSubsetOrdering(S)
    OBVIOUS
  <2>1. y \in S /\ y < x /\ \A z \in S : z \in Nat
    OBVIOUS
  <2>2. y \notin Below(y)
    BY <2>1
  <2>3. \A z \in S : z < y => z < x
    BY <2>1
  <2>4. Below(y) \subseteq Below(x)
    BY <2>3
  <2>5. Below(y) \in SUBSET S /\ Below(x) \in SUBSET S /\ Below(y) # Below(x)
    BY <2>2
  <2> HIDE DEF Below
  <2>6. QED
    BY <2>4, <2>5 DEF StrictSubsetOrdering
<1>2. PICK L \in All : \A M \in All : <<M, L>> \notin StrictSubsetOrdering(S)
  <2>1. All \subseteq SUBSET S /\ All # {}
    OBVIOUS
  <2>2. IsWellFoundedOn(StrictSubsetOrdering(S), SUBSET S)
    BY FS_StrictSubsetOrderingWellFounded, FS_FiniteSubsetsOfFinite
  <2> HIDE DEF All
  <2>3. QED
    BY <2>1, <2>2, WFMin
<1>3. PICK x \in S : L = Below(x)
  OBVIOUS
<1>4. Below(x) = {}
  BY <1>1, <1>2, <1>3
<1>5. \A y \in S : x =< y
  BY <1>4
<1>6. QED
  BY <1>5 DEF Min

----------------------------------------------------------------------------
(* What the sets hold *)

SetsUnchanged == UNCHANGED <<undelivered, queue, count, handled>>

LEMMA SetsUnchangedInv ==
  ASSUME SetsInv, SetsUnchanged
  PROVE  SetsInv'
BY DEF SetsInv, SetsTypeOK, NoneMissed, HandlersMatch, SetsUnchanged

\* The sets that have a signal.
Having(g) == {x \in Sets : g \in DOMAIN undelivered[x]}

\* As long as the registrations are the same, so are the handlers.
LEMMA SameRegistrations ==
  ASSUME HandlersMatch, UNCHANGED handlerVars,
         \A x \in Sets : DOMAIN undelivered'[x] = DOMAIN undelivered[x]
  PROVE  HandlersMatch'
<1>1. \A g : {x \in Sets : g \in DOMAIN undelivered'[x]} = Having(g)
  BY DEF Having
<1>2. QED
  BY <1>1 DEF HandlersMatch, Having, handlerVars

LEMMA DeliverSets ==
  ASSUME SetsInv, NEW s \in Services, Deliver(s)
  PROVE  SetsInv'
<1> DEFINE g == hand[s]
           R == Receivers(s, g)
<1>1. /\ undelivered' = [x \in Sets |->
                           IF x \in R /\ queue[x] = <<>>
                             THEN [undelivered[x] EXCEPT ![g] = @ + 1]
                             ELSE undelivered[x]]
      /\ queue' = [x \in Sets |-> IF x \in R THEN <<>> ELSE queue[x]]
      /\ UNCHANGED handlerVars
  BY DEF Deliver
<1>2. \A x \in Sets : /\ undelivered'[x] \in Registrations
                      /\ DOMAIN undelivered'[x] = DOMAIN undelivered[x]
  <2> SUFFICES ASSUME NEW x \in Sets
               PROVE  /\ undelivered'[x] \in Registrations
                      /\ DOMAIN undelivered'[x] = DOMAIN undelivered[x]
    OBVIOUS
  <2>1. /\ undelivered[x] \in Registrations
        /\ DOMAIN undelivered[x] \subseteq SignalNumbers
        /\ undelivered[x] \in [DOMAIN undelivered[x] -> Nat]
    BY RegistrationsType DEF SetsInv, SetsTypeOK
  <2>2. CASE x \in R /\ queue[x] = <<>>
    <3>1. undelivered'[x] = [undelivered[x] EXCEPT ![g] = @ + 1]
      BY <1>1, <2>2
    <3>2. g \in DOMAIN undelivered[x]
      BY <2>2 DEF Receivers
    <3> HIDE DEF g
    <3>3. undelivered'[x] \in [DOMAIN undelivered[x] -> Nat]
      BY <2>1, <3>1, <3>2
    <3>4. QED
      BY <2>1, <3>3, RegistrationsIntro
  <2>3. CASE ~(x \in R /\ queue[x] = <<>>)
    BY <1>1, <2>1, <2>3
  <2>4. QED
    BY <2>2, <2>3
<1>3. SetsTypeOK'
  BY <1>1, <1>2 DEF SetsInv, SetsTypeOK, handlerVars
<1>4. NoneMissed'
  BY <1>1 DEF SetsInv, NoneMissed
<1>5. HandlersMatch'
  BY <1>1, <1>2, SameRegistrations DEF SetsInv
<1>6. QED
  BY <1>3, <1>4, <1>5 DEF SetsInv

LEMMA AbortSets ==
  ASSUME SetsInv, NEW x, NEW S, NEW left, queue[x] # <<>>, Abort(x, S, left)
  PROVE  SetsInv'
<1>1. /\ UNCHANGED <<undelivered, count, handled>>
      /\ queue' = [queue EXCEPT ![x] = left]
  BY DEF Abort, handlerVars
<1>2. /\ DOMAIN queue' = DOMAIN queue
      /\ \A y \in Sets : queue'[y] # <<>> => queue[y] # <<>>
  BY <1>1 DEF SetsInv, SetsTypeOK
<1>3. QED
  BY <1>1, <1>2 DEF SetsInv, SetsTypeOK, NoneMissed, HandlersMatch

LEMMA UnlistSets ==
  ASSUME SetsInv, NEW s \in Services, Unlist(s)
  PROVE  SetsInv'
<1>1. UNCHANGED <<undelivered, count, handled>>
  BY DEF Unlist, handlerVars
<1>2. /\ DOMAIN queue' = Sets
      /\ \A y \in Sets : queue'[y] # <<>> => queue[y] # <<>>
  BY DEF Unlist
<1>3. QED
  BY <1>1, <1>2 DEF SetsInv, SetsTypeOK, NoneMissed, HandlersMatch

LEMMA StartWaitOpSets ==
  ASSUME SetsInv, NEW x \in Sets, StartWaitOp(x)
  PROVE  SetsInv'
<1>1. /\ undelivered[x] \in Registrations
      /\ DOMAIN undelivered[x] \subseteq SignalNumbers
      /\ undelivered[x] \in [DOMAIN undelivered[x] -> Nat]
  BY RegistrationsType DEF SetsInv, SetsTypeOK
<1>2. UNCHANGED handlerVars
  BY DEF StartWaitOp
<1>3. CASE Undelivered(x) # {}
  <2> DEFINE g == Min(Undelivered(x))
  <2>1. undelivered' = [undelivered EXCEPT ![x][g] = @ - 1] /\ queue' = queue
    BY <1>3 DEF StartWaitOp
  <2>2. g \in Undelivered(x)
    <3>1. Undelivered(x) \in SUBSET SignalNumbers
      BY <1>1 DEF Undelivered
    <3>2. IsFiniteSet(Undelivered(x)) /\ Undelivered(x) \in SUBSET Nat
      BY <3>1, FS_Subset, SignalAssumption DEF SignalAssumption
    <3>3. QED
      BY <1>3, <3>2, MinIn
  <2>3. g \in DOMAIN undelivered[x] /\ undelivered[x][g] > 0
    BY <2>2 DEF Undelivered
  <2> HIDE DEF g
  <2>4. undelivered'[x] \in [DOMAIN undelivered[x] -> Nat]
    BY <1>1, <2>1, <2>3 DEF SetsInv, SetsTypeOK
  <2>5. undelivered'[x] \in Registrations
    BY <1>1, <2>4, RegistrationsIntro
  <2>6. SetsTypeOK'
    BY <1>2, <2>1, <2>5 DEF SetsInv, SetsTypeOK, handlerVars
  <2>7. queue[x] = <<>>
    BY <2>3 DEF SetsInv, NoneMissed
  <2>8. NoneMissed'
    <3>1. \A y \in Sets : queue'[y] # <<>> => undelivered'[y] = undelivered[y]
      BY <2>1, <2>7 DEF SetsInv, SetsTypeOK
    <3>2. QED
      BY <2>1, <3>1 DEF SetsInv, NoneMissed
  <2>9. HandlersMatch'
    BY <1>2, <2>1, <2>4, SameRegistrations DEF SetsInv, SetsTypeOK
  <2>10. QED
    BY <2>6, <2>8, <2>9 DEF SetsInv
<1>4. CASE Undelivered(x) = {}
  <2>1. /\ undelivered' = undelivered /\ DOMAIN queue' = DOMAIN queue
        /\ \A y \in Sets \ {x} : queue'[y] = queue[y]
    <3> DEFINE joined == Append(queue[x], <<x, Min(NewWaits(x))>>)
    <3>1. undelivered' = undelivered /\ queue' = [queue EXCEPT ![x] = joined]
      BY <1>4 DEF StartWaitOp
    <3> HIDE DEF joined
    <3>2. QED
      BY <3>1 DEF SetsInv, SetsTypeOK
  <2>2. \A g \in DOMAIN undelivered[x] : undelivered[x][g] = 0
    BY <1>1, <1>4 DEF Undelivered
  <2>3. QED
    BY <1>2, <2>1, <2>2
    DEF SetsInv, SetsTypeOK, NoneMissed, HandlersMatch, handlerVars
<1>5. QED
  BY <1>3, <1>4

LEMMA AddSignalSets ==
  ASSUME SetsInv, NEW x \in Sets, NEW g \in SignalNumbers, AddSignal(x, g)
  PROVE  SetsInv'
<1> DEFINE r == undelivered[x]
           D == DOMAIN r \cup {g}
<1>1. /\ r \in Registrations
      /\ DOMAIN r \subseteq SignalNumbers /\ r \in [DOMAIN r -> Nat]
  BY RegistrationsType DEF SetsInv, SetsTypeOK
<1>2. /\ g \notin DOMAIN r
      /\ undelivered' = [undelivered EXCEPT ![x] =
                           [h \in D |-> IF h = g THEN 0 ELSE r[h]]]
      /\ queue' = queue
      /\ count' = [count EXCEPT ![g] = @ + 1]
      /\ handled' = handled \cup {g}
  BY DEF AddSignal, SetsInv, SetsTypeOK
<1>3. /\ undelivered'[x] = [h \in D |-> IF h = g THEN 0 ELSE r[h]]
      /\ \A y \in Sets \ {x} : undelivered'[y] = undelivered[y]
  BY <1>2 DEF SetsInv, SetsTypeOK
<1>4. undelivered'[x] \in Registrations
  <2>1. undelivered'[x] \in [D -> Nat]
    BY <1>1, <1>3
  <2>2. D \in SUBSET SignalNumbers
    BY <1>1
  <2> HIDE DEF D
  <2>3. QED
    BY <2>1, <2>2, RegistrationsIntro
<1>5. SetsTypeOK'
  BY <1>2, <1>3, <1>4 DEF SetsInv, SetsTypeOK
<1>6. NoneMissed'
  BY <1>2, <1>3 DEF SetsInv, NoneMissed
<1>7. HandlersMatch'
  <2>1. \A h \in SignalNumbers :
          {y \in Sets : h \in DOMAIN undelivered'[y]}
            = IF h = g THEN Having(h) \cup {x} ELSE Having(h)
    BY <1>3 DEF Having
  <2>2. IsFiniteSet(Having(g)) /\ x \notin Having(g)
    BY <1>2, FS_Subset, SignalAssumption DEF Having, SignalAssumption
  <2>3. Cardinality(Having(g) \cup {x}) = Cardinality(Having(g)) + 1
    BY <2>2, FS_AddElement
  <2>4. \A h \in SignalNumbers :
          count[h] = Cardinality(Having(h)) /\ (h \in handled <=> Having(h) # {})
    BY DEF SetsInv, HandlersMatch, Having
  <2>5. QED
    BY <1>2, <2>1, <2>3, <2>4 DEF HandlersMatch, SetsInv, SetsTypeOK
<1>8. QED
  BY <1>5, <1>6, <1>7 DEF SetsInv

LEMMA DropSets ==
  ASSUME SetsInv, NEW x \in Sets, NEW S \in SUBSET DOMAIN undelivered[x],
         Drop(x, S)
  PROVE  SetsInv'
<1> DEFINE r == undelivered[x]
           D == DOMAIN r \ S
<1>1. /\ r \in Registrations
      /\ DOMAIN r \subseteq SignalNumbers /\ r \in [DOMAIN r -> Nat]
  BY RegistrationsType DEF SetsInv, SetsTypeOK
<1>2. /\ undelivered' = [undelivered EXCEPT ![x] = [h \in D |-> r[h]]]
      /\ queue' = queue
      /\ count' = [h \in SignalNumbers |->
                     IF h \in S THEN count[h] - 1 ELSE count[h]]
      /\ handled' = handled \ {h \in S : count[h] = 1}
  BY DEF Drop, Released, SetsInv, SetsTypeOK
<1>3. /\ undelivered'[x] = [h \in D |-> r[h]]
      /\ \A y \in Sets \ {x} : undelivered'[y] = undelivered[y]
  BY <1>2 DEF SetsInv, SetsTypeOK
<1>4. undelivered'[x] \in Registrations
  <2>1. undelivered'[x] \in [D -> Nat]
    BY <1>1, <1>3
  <2>2. D \in SUBSET SignalNumbers
    BY <1>1
  <2> HIDE DEF D
  <2>3. QED
    BY <2>1, <2>2, RegistrationsIntro
<1>5. \A h \in SignalNumbers :
        /\ {y \in Sets : h \in DOMAIN undelivered'[y]}
             = IF h \in S THEN Having(h) \ {x} ELSE Having(h)
        /\ h \in S => x \in Having(h)
  BY <1>3 DEF Having
<1>6. \A h \in SignalNumbers :
        /\ count[h] = Cardinality(Having(h)) /\ count[h] \in Nat
        /\ h \in handled <=> Having(h) # {}
  BY DEF SetsInv, SetsTypeOK, HandlersMatch, Having
<1>7. \A h \in SignalNumbers : IsFiniteSet(Having(h))
  BY FS_Subset, SignalAssumption DEF Having, SignalAssumption
<1>8. \A h \in SignalNumbers : h \in S =>
        /\ Cardinality(Having(h) \ {x}) = count[h] - 1
        /\ count[h] - 1 \in Nat
        /\ count[h] = 1 <=> Having(h) \ {x} = {}
  <2> SUFFICES ASSUME NEW h \in SignalNumbers, h \in S
               PROVE  /\ Cardinality(Having(h) \ {x}) = count[h] - 1
                      /\ count[h] - 1 \in Nat
                      /\ count[h] = 1 <=> Having(h) \ {x} = {}
    OBVIOUS
  <2>1. /\ IsFiniteSet(Having(h) \ {x})
        /\ Cardinality(Having(h) \ {x}) = Cardinality(Having(h)) - 1
    BY <1>5, <1>7, FS_RemoveElement
  <2>2. /\ Cardinality(Having(h) \ {x}) \in Nat
        /\ Cardinality(Having(h) \ {x}) = 0 <=> Having(h) \ {x} = {}
    BY <2>1, FS_CardinalityType, FS_EmptySet
  <2>3. QED
    BY <1>6, <2>1, <2>2
<1>9. SetsTypeOK'
  <2>1. undelivered' \in [Sets -> Registrations]
    BY <1>2, <1>3, <1>4 DEF SetsInv, SetsTypeOK
  <2>2. count' \in [SignalNumbers -> Nat]
    BY <1>2, <1>6, <1>8
  <2>3. QED
    BY <1>2, <2>1, <2>2 DEF SetsInv, SetsTypeOK
<1>10. NoneMissed'
  BY <1>2, <1>3 DEF SetsInv, NoneMissed
<1>11. HandlersMatch'
  <2>1. SUFFICES ASSUME NEW h \in SignalNumbers
                 PROVE  LET T == {y \in Sets : h \in DOMAIN undelivered'[y]}
                        IN  /\ count'[h] = Cardinality(T)
                            /\ h \in handled' <=> T # {}
    BY DEF HandlersMatch
  <2>2. CASE h \in S
    BY <1>2, <1>5, <1>6, <1>8, <2>2
  <2>3. CASE h \notin S
    BY <1>2, <1>5, <1>6, <2>3
  <2>4. QED
    BY <2>2, <2>3
<1>12. QED
  BY <1>9, <1>10, <1>11 DEF SetsInv

LEMMA InitSetsInv == Init => SetsInv
<1> SUFFICES ASSUME Init PROVE SetsInv
  OBVIOUS
<1>1. <<>> \in Registrations
  <2>1. <<>> \in [{} -> Nat]
    OBVIOUS
  <2>2. QED
    BY <2>1, RegistrationsIntro
<1>2. \A g : {x \in Sets : g \in DOMAIN undelivered[x]} = {}
  BY DEF Init
<1>3. QED
  BY <1>1, <1>2, FS_EmptySet
  DEF Init, SetsInv, SetsTypeOK, NoneMissed, HandlersMatch

LEMMA NextSetsInv == SetsInv /\ [Next]_vars => SetsInv'
<1> SUFFICES ASSUME SetsInv, [Next]_vars PROVE SetsInv'
  OBVIOUS
<1> USE DEF SetsUnchanged, setVars, handlerVars
<1>1. ASSUME NEW s \in Services, Unlist(s) PROVE SetsInv'
  BY <1>1, UnlistSets
<1>2. ASSUME NEW s \in Services, Deliver(s) PROVE SetsInv'
  BY <1>2, DeliverSets
<1>3. ASSUME NEW s \in Services,
             AddService(s) \/ AddToReactor(s) \/ RemoveService(s)
               \/ RemoveFromReactor(s)
      PROVE  SetsInv'
  BY <1>3, SetsUnchangedInv
  DEF AddService, AddToReactor, RemoveService, RemoveFromReactor
<1>4. ASSUME NEW s \in Services,
             StartPerform(s) \/ ReadPipe(s) \/ EndPerform(s)
      PROVE  SetsInv'
  BY <1>4, SetsUnchangedInv DEF StartPerform, ReadPipe, EndPerform
<1>5. ASSUME NEW s \in Services, ForkPrepare(s) \/ Fork(s) PROVE SetsInv'
  BY <1>5, SetsUnchangedInv DEF ForkPrepare, Fork, ForkParent, ForkChild
<1>6. ASSUME NEW g \in SignalNumbers, Raise(g) PROVE SetsInv'
  BY <1>6, SetsUnchangedInv DEF Raise
<1>7. ASSUME NEW g \in SignalNumbers, NEW x \in Sets, AddSignal(x, g)
      PROVE  SetsInv'
  BY <1>7, AddSignalSets
<1>8. ASSUME NEW g \in SignalNumbers, NEW x \in Sets, RemoveSignal(x, g)
      PROVE  SetsInv'
  BY <1>8, DropSets DEF RemoveSignal
<1>9. ASSUME NEW x \in Sets, Clear(x) PROVE SetsInv'
  BY <1>9, DropSets DEF Clear
<1>10. ASSUME NEW x \in Sets, Cancel(x) PROVE SetsInv'
  BY <1>10, AbortSets DEF Cancel
<1>11. ASSUME NEW x \in Sets, StartWaitOp(x) PROVE SetsInv'
  BY <1>11, StartWaitOpSets
<1>12. ASSUME NEW w \in Waits, CancelOpsByKey(w) PROVE SetsInv'
  <2>1. queue[w[1]] # <<>>
    BY <1>12 DEF CancelOpsByKey
  <2>2. QED
    BY <1>12, <2>1, AbortSets DEF CancelOpsByKey
<1>13. CASE UNCHANGED vars
  BY <1>13, SetsUnchangedInv DEF vars
<1>14. QED
  BY <1>1, <1>2, <1>3, <1>4, <1>5, <1>6, <1>7, <1>8, <1>9, <1>10, <1>11,
     <1>12, <1>13
  DEF Next, ServiceStep, Perform

----------------------------------------------------------------------------
(* The services and the pipe *)

PipeUnchanged ==
  UNCHANGED <<list, forkPrepared, pipe, open, phase, watched, edge, performing>>

LEMMA PipeUnchangedInv ==
  ASSUME PipeInv, PipeUnchanged
  PROVE  PipeInv'
BY DEF PipeInv, PhasesOK, ForkOK, PipeNotified, PipeUnchanged

LEMMA InitPipeInv == Init => PipeInv
BY DEF Init, PipeInv, PhasesOK, Phases, ForkOK, PipeNotified

LEMMA AddServicePipe ==
  ASSUME PipeInv, NEW s \in Services, AddService(s)
  PROVE  PipeInv'
<1>1. /\ phase' = [phase EXCEPT ![s] = "listed"] /\ list' = list \cup {s}
      /\ phase[s] = "none" /\ ~forkPrepared /\ UNCHANGED forkPrepared
      /\ open' = TRUE /\ (list # {} => pipe' = pipe)
      /\ (list = {} => pipe' = <<>>)
      /\ UNCHANGED <<watched, edge, performing>>
  BY DEF AddService, reactorVars
<1>2. PhasesOK'
  BY <1>1 DEF PipeInv, PhasesOK, Phases
<1>3. PipeNotified'
  BY <1>1 DEF PipeInv, PipeNotified
<1>4. QED
  BY <1>1, <1>2, <1>3 DEF PipeInv, ForkOK

\* Beginning to watch the pipe, in the constructor or after a fork.
LEMMA WatchNotified ==
  ASSUME PipeInv, NEW s \in list, Watch(s, pipe), UNCHANGED <<pipe, open, list>>
  PROVE  PipeNotified'
BY DEF PipeInv, PipeNotified, Watch

LEMMA AddToReactorPipe ==
  ASSUME PipeInv, NEW s \in Services, AddToReactor(s)
  PROVE  PipeInv'
<1>1. /\ phase' = [phase EXCEPT ![s] = "up"] /\ phase[s] = "listed"
      /\ Watch(s, pipe) /\ UNCHANGED <<list, forkPrepared, pipe, open>>
  BY DEF AddToReactor, stateVars, pipeVars
<1>2. s \in list
  BY <1>1 DEF PipeInv, PhasesOK
<1>3. PhasesOK'
  BY <1>1 DEF PipeInv, PhasesOK, Phases, Watch
<1>4. ForkOK'
  BY <1>1 DEF PipeInv, PhasesOK, ForkOK
<1>5. QED
  BY <1>1, <1>2, <1>3, <1>4, WatchNotified DEF PipeInv

LEMMA RemovePipe ==
  ASSUME PipeInv, NEW s \in Services, RemoveService(s) \/ RemoveFromReactor(s)
  PROVE  PipeInv'
<1>1. CASE RemoveService(s)
  <2>1. /\ phase' = [phase EXCEPT ![s] = "removing"] /\ phase[s] = "up"
        /\ ~forkPrepared
        /\ UNCHANGED <<list, forkPrepared, pipe, open, watched, edge, performing>>
    BY <1>1 DEF RemoveService, pipeVars, reactorVars
  <2>2. PhasesOK'
    BY <2>1 DEF PipeInv, PhasesOK, Phases
  <2>3. QED
    BY <2>1, <2>2 DEF PipeInv, ForkOK, PipeNotified
<1>2. CASE RemoveFromReactor(s)
  <2>1. /\ phase' = [phase EXCEPT ![s] = "removed"] /\ phase[s] = "removing"
        /\ watched' = watched \ {s} /\ edge' = edge \ {s}
        /\ UNCHANGED <<list, forkPrepared, pipe, open, performing>>
    BY <1>2 DEF RemoveFromReactor, Unwatch, stateVars, pipeVars
  <2>2. PhasesOK'
    BY <2>1 DEF PipeInv, PhasesOK, Phases
  <2>3. ForkOK'
    BY <2>1 DEF PipeInv, PhasesOK, ForkOK
  <2>4. PipeNotified'
    BY <2>1 DEF PipeInv, PipeNotified
  <2>5. QED
    BY <2>1, <2>2, <2>3, <2>4 DEF PipeInv
<1>3. QED
  BY <1>1, <1>2

LEMMA UnlistPipe ==
  ASSUME PipeInv, NEW s \in Services, Unlist(s)
  PROVE  PipeInv'
<1>1. /\ phase' = [phase EXCEPT ![s] = "down"] /\ phase[s] = "removed"
      /\ list' = list \ {s}
      /\ (list' = {} => open' = FALSE /\ pipe' = <<>>)
      /\ (list' # {} => UNCHANGED <<open, pipe>>)
      /\ UNCHANGED <<forkPrepared, watched, edge, performing>>
  BY DEF Unlist, pipeVars, reactorVars
<1>2. s \in list /\ s \notin watched /\ ~forkPrepared
  BY <1>1 DEF PipeInv, PhasesOK, ForkOK
<1>3. PhasesOK'
  BY <1>1, <1>2 DEF PipeInv, PhasesOK, Phases
<1>4. PipeNotified'
  BY <1>1, <1>2 DEF PipeInv, PipeNotified
<1>5. QED
  BY <1>1, <1>2, <1>3, <1>4 DEF PipeInv, ForkOK

LEMMA PerformPipe ==
  ASSUME PipeInv, NEW s \in Services, Perform(s)
  PROVE  PipeInv'
<1>1. CASE StartPerform(s)
  <2>1. /\ performing' = performing \cup {s} /\ edge' = edge \ {s}
        /\ UNCHANGED <<list, forkPrepared, pipe, open, phase, watched>>
    BY <1>1 DEF StartPerform, stateVars, pipeVars
  <2>2. QED
    BY <2>1 DEF PipeInv, PhasesOK, ForkOK, PipeNotified
<1>2. CASE ReadPipe(s)
  <2>1. /\ pipe # <<>>
        /\ UNCHANGED <<list, forkPrepared, open, phase, watched, edge, performing>>
    BY <1>2 DEF ReadPipe, stateVars
  <2>2. QED
    BY <2>1 DEF PipeInv, PhasesOK, ForkOK, PipeNotified
<1>3. CASE EndPerform(s)
  <2>1. /\ pipe = <<>>
        /\ UNCHANGED <<list, forkPrepared, pipe, open, phase, watched, edge>>
    BY <1>3 DEF EndPerform, stateVars, pipeVars
  <2>2. QED
    BY <2>1 DEF PipeInv, PhasesOK, ForkOK, PipeNotified
<1>4. CASE Deliver(s)
  BY <1>4, PipeUnchangedInv
  DEF Deliver, StillPerforming, stateVars, pipeVars, PipeUnchanged
<1>5. QED
  BY <1>1, <1>2, <1>3, <1>4 DEF Perform

LEMMA RaisePipe ==
  ASSUME PipeInv, NEW g \in SignalNumbers, Raise(g)
  PROVE  PipeInv'
<1>1. UNCHANGED <<list, forkPrepared, open, phase, watched, performing>>
  BY DEF Raise, stateVars
<1>2. \/ open /\ edge' = edge \cup watched
      \/ UNCHANGED <<pipe, edge>>
  BY DEF Raise
<1>3. PipeNotified'
  BY <1>1, <1>2 DEF PipeInv, PipeNotified
<1>4. QED
  BY <1>1, <1>3 DEF PipeInv, PhasesOK, ForkOK

LEMMA ForkPipe ==
  ASSUME PipeInv, NEW s \in Services, ForkPrepare(s) \/ Fork(s)
  PROVE  PipeInv'
<1>1. CASE ForkPrepare(s)
  <2>1. /\ watched' = watched \ {s} /\ edge' = edge \ {s}
        /\ phase[s] = "up" /\ list = {s}
        /\ UNCHANGED <<list, pipe, open, phase, performing>>
    BY <1>1 DEF ForkPrepare, Unwatch, pipeVars
  <2>2. \A r \in Services : phase[r] \in {"none", "up", "down"}
    <3>1. \A r \in Services \ {s} : r \notin list
      BY <2>1
    <3>2. QED
      BY <2>1, <3>1 DEF PipeInv, PhasesOK, Phases
  <2>3. QED
    BY <2>1, <2>2 DEF PipeInv, PhasesOK, ForkOK, PipeNotified
<1>2. ASSUME Fork(s) PROVE phase[s] = "up" /\ s \in list
  <2>1. forkPrepared /\ list = {s}
    BY <1>2 DEF Fork, ForkParent, ForkChild
  <2>2. QED
    BY <2>1 DEF PipeInv, PhasesOK, ForkOK
<1>3. CASE ForkParent(s)
  <2>1. /\ Watch(s, pipe) /\ forkPrepared' = FALSE
        /\ UNCHANGED <<list, pipe, open, phase>>
    BY <1>3 DEF ForkParent, WatchAgain, pipeVars
  <2>2. PhasesOK'
    BY <1>2, <1>3, <2>1 DEF Fork, PipeInv, PhasesOK, Watch
  <2>3. PipeNotified'
    BY <1>2, <1>3, <2>1, WatchNotified DEF Fork
  <2>4. QED
    BY <2>1, <2>2, <2>3 DEF PipeInv, ForkOK
<1>4. CASE ForkChild(s)
  <2>1. /\ watched' = watched \cup {s} /\ pipe' = <<>>
        /\ forkPrepared' = FALSE /\ UNCHANGED <<list, open, phase>>
    BY <1>4 DEF ForkChild, Watch
  <2>2. QED
    BY <1>2, <1>4, <2>1 DEF Fork, PipeInv, PhasesOK, ForkOK, PipeNotified
<1>5. QED
  BY <1>1, <1>3, <1>4 DEF Fork

LEMMA NextPipeInv == PipeInv /\ [Next]_vars => PipeInv'
<1> SUFFICES ASSUME PipeInv, [Next]_vars PROVE PipeInv'
  OBVIOUS
<1> USE DEF PipeUnchanged, stateVars, pipeVars, reactorVars
<1>1. ASSUME NEW s \in Services, AddService(s) PROVE PipeInv'
  BY <1>1, AddServicePipe
<1>2. ASSUME NEW s \in Services, RemoveService(s) PROVE PipeInv'
  BY <1>2, RemovePipe
<1>3. ASSUME NEW s \in Services, ServiceStep(s) PROVE PipeInv'
  BY <1>3, AddToReactorPipe, RemovePipe, UnlistPipe DEF ServiceStep
<1>4. ASSUME NEW s \in Services, Perform(s) PROVE PipeInv'
  BY <1>4, PerformPipe
<1>5. ASSUME NEW s \in Services, ForkPrepare(s) \/ Fork(s) PROVE PipeInv'
  BY <1>5, ForkPipe
<1>6. ASSUME NEW g \in SignalNumbers, Raise(g) PROVE PipeInv'
  BY <1>6, RaisePipe
<1>7. ASSUME NEW g \in SignalNumbers, NEW x \in Sets,
             AddSignal(x, g) \/ RemoveSignal(x, g)
      PROVE  PipeInv'
  BY <1>7, PipeUnchangedInv DEF AddSignal, RemoveSignal, Drop
<1>8. ASSUME NEW x \in Sets, Clear(x) \/ Cancel(x) \/ StartWaitOp(x)
      PROVE  PipeInv'
  BY <1>8, PipeUnchangedInv DEF Clear, Drop, Cancel, Abort, StartWaitOp
<1>9. ASSUME NEW w \in Waits, CancelOpsByKey(w) PROVE PipeInv'
  BY <1>9, PipeUnchangedInv DEF CancelOpsByKey, Abort
<1>10. CASE UNCHANGED vars
  BY <1>10, PipeUnchangedInv DEF vars
<1>11. QED
  BY <1>1, <1>2, <1>3, <1>4, <1>5, <1>6, <1>7, <1>8, <1>9, <1>10 DEF Next

----------------------------------------------------------------------------
(* What is in flight, and the waits *)

\* What is on its way is in the pipe, or in the hand of a thread that performs
\* pipe_read_op; there is none of these around a fork, nor for a service whose
\* descriptor has been deregistered.
FlightInv ==
  /\ pipe \in Seq(SignalNumbers) /\ (~open => pipe = <<>>)
  /\ hand \in [Services -> SignalNumbers \cup {NoSignal}]
  /\ \A s \in Services : hand[s] # NoSignal => s \in performing
  /\ \A s \in performing : s \in Services /\ phase[s] \in {"up", "removing"}
  /\ edge \subseteq watched
  /\ forkPrepared => watched = {} /\ performing = {}

WaitsInv ==
  /\ program \in Programs
  /\ DOMAIN status = Waits
  /\ \A w \in Waits : status[w].how = "new" => status[w] = Plain("new")

LEMMA InitFlight == Init => FlightInv /\ WaitsInv
<1> SUFFICES ASSUME Init PROVE FlightInv /\ WaitsInv
  OBVIOUS
<1>1. NoSignal \in SignalNumbers \cup {NoSignal} /\ <<>> \in Seq(SignalNumbers)
  OBVIOUS
<1>2. QED
  BY <1>1 DEF Init, FlightInv, WaitsInv, Plain

LEMMA FlightUnchanged ==
  ASSUME FlightInv,
         UNCHANGED <<pipe, open, hand, performing, phase, watched, edge, forkPrepared>>
  PROVE  FlightInv'
BY DEF FlightInv

LEMMA NextFlight == PipeInv /\ FlightInv /\ [Next]_vars => FlightInv'
<1> SUFFICES ASSUME PipeInv, FlightInv, [Next]_vars PROVE FlightInv'
  OBVIOUS
<1> USE DEF stateVars, pipeVars, reactorVars
<1>0. <<>> \in Seq(SignalNumbers) /\ pipe \in Seq(SignalNumbers)
  BY DEF FlightInv
<1>1. ASSUME NEW s \in Services, AddService(s) PROVE FlightInv'
  <2>1. /\ phase' = [phase EXCEPT ![s] = "listed"] /\ phase[s] = "none"
        /\ open' = TRUE /\ pipe' \in {<<>>, pipe}
        /\ UNCHANGED <<hand, performing, watched, edge, forkPrepared>>
    BY <1>1 DEF AddService
  <2>2. s \notin performing
    BY <2>1 DEF FlightInv
  <2>3. pipe' \in Seq(SignalNumbers)
    BY <1>0, <2>1
  <2>4. QED
    BY <2>1, <2>2, <2>3 DEF FlightInv, PipeInv, PhasesOK
<1>2. ASSUME NEW s \in Services, AddToReactor(s) PROVE FlightInv'
  <2>1. /\ phase' = [phase EXCEPT ![s] = "up"] /\ phase[s] = "listed"
        /\ watched' = watched \cup {s} /\ edge' \subseteq edge \cup {s}
        /\ UNCHANGED <<pipe, open, hand, performing, forkPrepared>>
    BY <1>2 DEF AddToReactor, Watch
  <2>2. ~forkPrepared
    BY <2>1 DEF PipeInv, ForkOK
  <2>3. QED
    BY <2>1, <2>2 DEF FlightInv, PipeInv, PhasesOK
<1>3. ASSUME NEW s \in Services, RemoveService(s) PROVE FlightInv'
  <2>1. /\ phase' = [phase EXCEPT ![s] = "removing"]
        /\ UNCHANGED <<pipe, open, hand, performing, watched, edge, forkPrepared>>
    BY <1>3 DEF RemoveService
  <2>2. QED
    BY <2>1 DEF FlightInv, PipeInv, PhasesOK
<1>4. ASSUME NEW s \in Services, RemoveFromReactor(s) PROVE FlightInv'
  <2>1. /\ phase' = [phase EXCEPT ![s] = "removed"] /\ s \notin performing
        /\ watched' = watched \ {s} /\ edge' = edge \ {s}
        /\ UNCHANGED <<pipe, open, hand, performing, forkPrepared>>
    BY <1>4 DEF RemoveFromReactor, Unwatch
  <2>2. QED
    BY <2>1 DEF FlightInv, PipeInv, PhasesOK
<1>5. ASSUME NEW s \in Services, Unlist(s) PROVE FlightInv'
  <2>1. /\ phase' = [phase EXCEPT ![s] = "down"] /\ phase[s] = "removed"
        /\ pipe' = <<>> \/ UNCHANGED <<pipe, open>>
        /\ UNCHANGED <<hand, performing, watched, edge, forkPrepared>>
    BY <1>5 DEF Unlist
  <2>2. s \notin performing
    BY <2>1 DEF FlightInv
  <2>3. pipe' \in Seq(SignalNumbers)
    BY <1>0, <2>1
  <2>4. QED
    BY <2>1, <2>2, <2>3 DEF FlightInv, PipeInv, PhasesOK
<1>6. ASSUME NEW s \in Services, StartPerform(s) PROVE FlightInv'
  <2>1. /\ s \in edge /\ performing' = performing \cup {s} /\ edge' = edge \ {s}
        /\ phase[s] \in {"up", "removing"}
        /\ UNCHANGED <<pipe, open, hand, phase, watched, forkPrepared>>
    BY <1>6 DEF StartPerform
  <2>2. QED
    BY <2>1 DEF FlightInv
<1>7. ASSUME NEW s \in Services, ReadPipe(s) PROVE FlightInv'
  <2>1. /\ s \in performing /\ pipe # <<>>
        /\ hand' = [hand EXCEPT ![s] = Head(pipe)] /\ pipe' = Tail(pipe)
        /\ UNCHANGED <<open, phase, performing, watched, edge, forkPrepared>>
    BY <1>7 DEF ReadPipe
  <2>2. Head(pipe) \in SignalNumbers /\ Tail(pipe) \in Seq(SignalNumbers)
    BY <2>1 DEF FlightInv
  <2>3. open
    BY <2>1 DEF FlightInv
  <2>4. QED
    BY <2>1, <2>2, <2>3 DEF FlightInv
<1>8. ASSUME NEW s \in Services, EndPerform(s) PROVE FlightInv'
  <2>1. /\ performing' = performing \ {s} /\ hand[s] = NoSignal
        /\ UNCHANGED <<pipe, open, hand, phase, watched, edge, forkPrepared>>
    BY <1>8 DEF EndPerform
  <2>2. QED
    BY <2>1 DEF FlightInv
<1>9. ASSUME NEW s \in Services, Deliver(s) PROVE FlightInv'
  <2>1. /\ hand' = [hand EXCEPT ![s] = NoSignal] /\ performing' = performing
        /\ UNCHANGED <<pipe, open, phase, watched, edge, forkPrepared>>
    BY <1>9 DEF Deliver, StillPerforming
  <2>2. QED
    BY <2>1 DEF FlightInv
<1>10. ASSUME NEW s \in Services, ForkPrepare(s) PROVE FlightInv'
  <2>1. /\ list = {s} /\ s \notin performing /\ forkPrepared' = TRUE
        /\ watched' = watched \ {s} /\ edge' = edge \ {s}
        /\ UNCHANGED <<pipe, open, hand, phase, performing>>
    BY <1>10 DEF ForkPrepare, Unwatch
  <2>2. watched \subseteq {s} /\ performing = {}
    <3>1. \A r \in performing : r \in list
      BY DEF FlightInv, PipeInv, PhasesOK
    <3>2. QED
      BY <2>1, <3>1 DEF PipeInv, PipeNotified
  <2>3. QED
    BY <2>1, <2>2 DEF FlightInv
<1>11. ASSUME NEW s \in Services, Fork(s) PROVE FlightInv'
  <2>1. /\ forkPrepared' = FALSE /\ pipe' \in {<<>>, pipe}
        /\ watched' = watched \cup {s} /\ edge' \subseteq edge \cup {s}
        /\ UNCHANGED <<open, hand, phase, performing>>
    BY <1>11 DEF Fork, ForkParent, ForkChild, WatchAgain, Watch
  <2>2. pipe' \in Seq(SignalNumbers)
    BY <1>0, <2>1
  <2>3. QED
    BY <2>1, <2>2 DEF FlightInv
<1>12. ASSUME NEW g \in SignalNumbers, Raise(g) PROVE FlightInv'
  <2>1. /\ UNCHANGED <<open, hand, phase, performing, watched, forkPrepared>>
        /\ \/ open /\ pipe' = Append(pipe, g) /\ edge' = edge \cup watched
           \/ UNCHANGED <<pipe, edge>>
    BY <1>12 DEF Raise
  <2>2. Append(pipe, g) \in Seq(SignalNumbers)
    BY DEF FlightInv
  <2>3. QED
    BY <2>1, <2>2 DEF FlightInv
<1>13. ASSUME NEW g \in SignalNumbers, NEW x \in Sets,
              AddSignal(x, g) \/ RemoveSignal(x, g)
       PROVE  FlightInv'
  BY <1>13, FlightUnchanged DEF AddSignal, RemoveSignal, Drop
<1>14. ASSUME NEW x \in Sets, Clear(x) \/ Cancel(x) \/ StartWaitOp(x)
       PROVE  FlightInv'
  BY <1>14, FlightUnchanged DEF Clear, Drop, Cancel, Abort, StartWaitOp
<1>15. ASSUME NEW w \in Waits, CancelOpsByKey(w) PROVE FlightInv'
  BY <1>15, FlightUnchanged DEF CancelOpsByKey, Abort
<1>16. CASE UNCHANGED vars
  BY <1>16, FlightUnchanged DEF vars
<1>17. QED
  BY <1>1, <1>2, <1>3, <1>4, <1>5, <1>6, <1>7, <1>8, <1>9, <1>10, <1>11, <1>12,
     <1>13, <1>14, <1>15, <1>16
  DEF Next, ServiceStep, Perform

\* A wait that completes, or begins, is no longer new.
LEMMA CompleteWaits ==
  ASSUME WaitsInv, UNCHANGED program, NEW S, NEW result, Complete(S, result),
         result.how # "new"
  PROVE  WaitsInv'
BY DEF WaitsInv, Complete

LEMMA NextWaits == WaitsInv /\ [Next]_vars => WaitsInv'
<1> SUFFICES ASSUME WaitsInv, [Next]_vars PROVE WaitsInv'
  OBVIOUS
<1> USE DEF userVars, setVars
<1>1. ASSUME NEW S, NEW result, UNCHANGED program, Complete(S, result),
             result.how # "new"
      PROVE  WaitsInv'
  BY <1>1, CompleteWaits
<1>2. ASSUME UNCHANGED <<program, status>>
      PROVE  WaitsInv'
  BY <1>2 DEF WaitsInv
<1>3. \A g : Got(g).how # "new"
  BY DEF Got
<1>4. \A x : Plain(Aborted(x)).how # "new"
  BY DEF Plain, Aborted
<1>5. Plain("destroyed").how # "new" /\ Plain("waiting").how # "new"
  BY DEF Plain
<1>6. ASSUME NEW s \in Services, AddService(s) \/ RemoveService(s)
      PROVE  WaitsInv'
  BY <1>2, <1>6 DEF AddService, RemoveService
<1>7. ASSUME NEW s \in Services, AddToReactor(s) \/ RemoveFromReactor(s)
      PROVE  WaitsInv'
  BY <1>2, <1>7 DEF AddToReactor, RemoveFromReactor
<1>8. ASSUME NEW s \in Services, Unlist(s)
      PROVE  WaitsInv'
  BY <1>1, <1>5, <1>8 DEF Unlist
<1>9. ASSUME NEW s \in Services, StartPerform(s) \/ ReadPipe(s) \/ EndPerform(s)
      PROVE  WaitsInv'
  BY <1>2, <1>9 DEF StartPerform, ReadPipe, EndPerform
<1>10. ASSUME NEW s \in Services, Deliver(s)
       PROVE  WaitsInv'
  BY <1>1, <1>3, <1>10 DEF Deliver
<1>11. ASSUME NEW s \in Services, ForkPrepare(s) \/ Fork(s)
       PROVE  WaitsInv'
  BY <1>2, <1>11 DEF ForkPrepare, Fork, ForkParent, ForkChild
<1>12. ASSUME NEW g \in SignalNumbers, Raise(g)
       PROVE  WaitsInv'
  BY <1>2, <1>12 DEF Raise
<1>13. ASSUME NEW g \in SignalNumbers, NEW x \in Sets,
              AddSignal(x, g) \/ RemoveSignal(x, g)
       PROVE  WaitsInv'
  BY <1>2, <1>13 DEF AddSignal, RemoveSignal, Drop
<1>14. ASSUME NEW x \in Sets, Clear(x)
       PROVE  WaitsInv'
  BY <1>2, <1>14 DEF Clear, Drop
<1>15. ASSUME NEW x \in Sets, Cancel(x)
       PROVE  WaitsInv'
  BY <1>1, <1>4, <1>15 DEF Cancel, Abort
<1>16. ASSUME NEW x \in Sets, StartWaitOp(x)
       PROVE  WaitsInv'
  BY <1>1, <1>3, <1>5, <1>16 DEF StartWaitOp
<1>17. ASSUME NEW w \in Waits, CancelOpsByKey(w)
       PROVE  WaitsInv'
  BY <1>1, <1>4, <1>17 DEF CancelOpsByKey, Abort
<1>18. CASE UNCHANGED vars
  BY <1>2, <1>18 DEF vars
<1>19. QED
  BY <1>6, <1>7, <1>8, <1>9, <1>10, <1>11, <1>12, <1>13, <1>14, <1>15, <1>16,
     <1>17, <1>18
  DEF Next, ServiceStep, Perform

\* What waits is a sequence of waits.
QueueOK == queue \in [Sets -> Seq(Waits)]

LEMMA InitQueues == Init => QueueOK
BY DEF Init, QueueOK

\* Only deliveries, shutdowns, cancellations and new waits change the queues.
LEMMA NextQueues == QueueOK /\ WaitsInv /\ [Next]_vars => QueueOK'
<1> SUFFICES ASSUME QueueOK, WaitsInv, [Next]_vars PROVE QueueOK'
  OBVIOUS
<1> USE DEF setVars
<1>1. ASSUME UNCHANGED queue PROVE QueueOK'
  BY <1>1 DEF QueueOK
<1>2. ASSUME NEW S, queue' = [x \in Sets |-> IF x \in S THEN <<>> ELSE queue[x]]
      PROVE  QueueOK'
  BY <1>2 DEF QueueOK
<1>3. ASSUME NEW s \in Services,
             \/ AddService(s) \/ RemoveService(s) \/ AddToReactor(s)
             \/ RemoveFromReactor(s) \/ StartPerform(s) \/ ReadPipe(s)
             \/ EndPerform(s) \/ ForkPrepare(s) \/ Fork(s)
      PROVE  QueueOK'
  BY <1>1, <1>3 DEF AddService, RemoveService, AddToReactor, RemoveFromReactor,
    StartPerform, ReadPipe, EndPerform, ForkPrepare, Fork, ForkParent, ForkChild
<1>4. ASSUME NEW s \in Services, Unlist(s) PROVE QueueOK'
  BY <1>2, <1>4 DEF Unlist
<1>5. ASSUME NEW s \in Services, Deliver(s) PROVE QueueOK'
  BY <1>2, <1>5 DEF Deliver
<1>6. ASSUME NEW g \in SignalNumbers,
             Raise(g) \/ \E x \in Sets : AddSignal(x, g) \/ RemoveSignal(x, g)
      PROVE  QueueOK'
  BY <1>1, <1>6 DEF Raise, AddSignal, RemoveSignal, Drop
<1>7. ASSUME NEW x \in Sets, Clear(x) PROVE QueueOK'
  BY <1>1, <1>7 DEF Clear, Drop
<1>8. ASSUME NEW x \in Sets, Cancel(x) PROVE QueueOK'
  BY <1>8 DEF Cancel, Abort, QueueOK
<1>9. ASSUME NEW x \in Sets, StartWaitOp(x) PROVE QueueOK'
  <2>1. CASE UNCHANGED queue
    BY <1>1, <2>1
  <2>2. CASE queue' # queue
    <3> DEFINE w == <<x, Min(NewWaits(x))>>
    <3>1. NewWaits(x) \in SUBSET (1 .. MaxWaits) /\ NewWaits(x) # {}
      BY <1>9, SignalAssumption DEF StartWaitOp, NewWaits, SignalAssumption,
        WaitsInv
    <3>2. Min(NewWaits(x)) \in NewWaits(x)
      <4>1. IsFiniteSet(1 .. MaxWaits)
        BY FS_Interval, SignalAssumption DEF SignalAssumption
      <4>2. IsFiniteSet(NewWaits(x)) /\ NewWaits(x) \in SUBSET Nat
        <5> HIDE DEF w
        <5>1. 1 .. MaxWaits \subseteq Nat
          OBVIOUS
        <5>2. NewWaits(x) \subseteq Nat
          BY <3>1, <5>1
        <5>3. IsFiniteSet(NewWaits(x))
          BY <3>1, <4>1, FS_Subset
        <5>4. QED
          BY <5>2, <5>3
      <4>3. QED
        BY <3>1, <4>2, MinIn
    <3>3. w \in Waits
      BY <3>1, <3>2 DEF Waits
    <3>4. queue' = [queue EXCEPT ![x] = Append(@, w)]
      BY <1>9, <2>2 DEF StartWaitOp
    <3> HIDE DEF w
    <3>5. QED
      BY <3>3, <3>4 DEF QueueOK
  <2>3. QED
    BY <2>1, <2>2
<1>10. ASSUME NEW w \in Waits, CancelOpsByKey(w) PROVE QueueOK'
  <2> DEFINE x == w[1]
  <2>1. PICK i \in DOMAIN queue[x] :
          queue' = [queue EXCEPT ![x] = RemoveAt(queue[x], i)]
    BY <1>10 DEF CancelOpsByKey, Abort
  <2>2. x \in Sets
    BY DEF Waits
  <2> HIDE DEF x
  <2>3. queue[x] \in Seq(Waits) /\ i \in 1 .. Len(queue[x])
    BY <2>2 DEF QueueOK
  <2>4. RemoveAt(queue[x], i) \in Seq(Waits)
    <3>1. SubSeq(queue[x], 1, i - 1) \in Seq(Waits)
      BY <2>3
    <3>2. SubSeq(queue[x], i + 1, Len(queue[x])) \in Seq(Waits)
      BY <2>3
    <3>3. RemoveAt(queue[x], i) =
            SubSeq(queue[x], 1, i - 1) \o SubSeq(queue[x], i + 1, Len(queue[x]))
      BY DEF RemoveAt
    <3>4. QED
      BY <3>1, <3>2, <3>3
  <2>5. QED
    BY <2>1, <2>2, <2>4 DEF QueueOK
<1>11. CASE UNCHANGED vars
  BY <1>1, <1>11 DEF vars
<1>12. QED
  BY <1>3, <1>4, <1>5, <1>6, <1>7, <1>8, <1>9, <1>10, <1>11
  DEF Next, ServiceStep, Perform

----------------------------------------------------------------------------
(* Counting what is in flight *)

At(q, g) == {i \in DOMAIN q : q[i] = g}
Hands(g) == {s \in Services : hand[s] = g}
Busy == {s \in Services : hand[s] # NoSignal}

LEMMA AtFinite ==
  ASSUME NEW S, NEW q \in Seq(S), NEW g
  PROVE  IsFiniteSet(At(q, g)) /\ Cardinality(At(q, g)) \in Nat
<1>1. At(q, g) \in SUBSET (1 .. Len(q)) /\ Len(q) \in Nat
  BY DEF At
<1>2. IsFiniteSet(1 .. Len(q))
  BY <1>1, FS_Interval
<1>3. IsFiniteSet(At(q, g))
  BY <1>1, <1>2, FS_Subset
<1>4. QED
  BY <1>3, FS_CardinalityType

LEMMA AtAppended ==
  ASSUME NEW S, NEW q \in Seq(S), NEW x \in S, NEW g
  PROVE  Cardinality(At(Append(q, x), g)) =
           IF g = x THEN Cardinality(At(q, g)) + 1 ELSE Cardinality(At(q, g))
<1>1. /\ Len(q) \in Nat /\ DOMAIN q = 1 .. Len(q)
      /\ DOMAIN Append(q, x) = 1 .. (Len(q) + 1)
      /\ \A i \in 1 .. Len(q) : Append(q, x)[i] = q[i]
      /\ Append(q, x)[Len(q) + 1] = x
  OBVIOUS
<1>2. \A i : i \in 1 .. (Len(q) + 1) <=> i \in 1 .. Len(q) \/ i = Len(q) + 1
  BY <1>1
<1>3. Len(q) + 1 \notin At(q, g)
  BY <1>1 DEF At
<1>4. At(Append(q, x), g) = IF g = x THEN At(q, g) \cup {Len(q) + 1} ELSE At(q, g)
  <2> DEFINE p == Append(q, x)
  <2>1. \A i : i \in At(p, g) <=> i \in DOMAIN p /\ p[i] = g
    BY DEF At
  <2>2. \A i : i \in At(q, g) <=> i \in DOMAIN q /\ q[i] = g
    BY DEF At
  <2> HIDE DEF p
  <2>3. \A i : i \in At(p, g) <=>
          i \in At(q, g) \/ (i = Len(q) + 1 /\ g = x)
    BY <1>1, <1>2, <2>1, <2>2 DEF p
  <2>4. QED
    BY <2>3 DEF p
<1>5. QED
  BY <1>3, <1>4, AtFinite, FS_AddElement

LEMMA AtTail ==
  ASSUME NEW S, NEW q \in Seq(S), q # <<>>, NEW g
  PROVE  Cardinality(At(q, g)) =
           IF g = Head(q) THEN Cardinality(At(Tail(q), g)) + 1
                          ELSE Cardinality(At(Tail(q), g))
<1> DEFINE later == At(q, g) \ {1}
           up == [i \in At(Tail(q), g) |-> i + 1]
<1>1. /\ Len(q) \in Nat /\ Len(q) # 0 /\ DOMAIN q = 1 .. Len(q)
      /\ Tail(q) \in Seq(S) /\ DOMAIN Tail(q) = 1 .. (Len(q) - 1)
      /\ \A i \in 1 .. (Len(q) - 1) : Tail(q)[i] = q[i + 1]
      /\ Head(q) = q[1]
  OBVIOUS
<1>2. \A i : i \in At(Tail(q), g) => /\ i \in Nat /\ i + 1 \in later
                                     /\ i # 0
  <2>1. \A i \in 1 .. (Len(q) - 1) : i + 1 \in 1 .. Len(q) /\ i + 1 # 1 /\ i \in Nat
                                     /\ i # 0
    BY <1>1
  <2>2. QED
    BY <1>1, <2>1 DEF At
<1>3. \A j \in later : j - 1 \in At(Tail(q), g) /\ j \in Nat
  <2>1. \A j \in 1 .. Len(q) : j # 1 =>
          j - 1 \in 1 .. (Len(q) - 1) /\ (j - 1) + 1 = j /\ j \in Nat
    BY <1>1
  <2>2. QED
    BY <1>1, <2>1 DEF At
<1> HIDE DEF later
<1>4. up \in Bijection(At(Tail(q), g), later)
  <2>1. up \in [At(Tail(q), g) -> later]
    BY <1>2
  <2>2. \A i, j \in At(Tail(q), g) : up[i] = up[j] => i = j
    BY <1>2
  <2>3. \A j \in later : \E i \in At(Tail(q), g) : up[i] = j
    <3> SUFFICES ASSUME NEW j \in later
                 PROVE  \E i \in At(Tail(q), g) : up[i] = j
      OBVIOUS
    <3>1. j - 1 \in At(Tail(q), g) /\ j \in Nat
      BY <1>3
    <3>2. up[j - 1] = j
      BY <3>1
    <3>3. QED
      BY <3>1, <3>2
  <2>4. DOMAIN up = At(Tail(q), g)
    OBVIOUS
  <2> HIDE DEF up
  <2>5. QED
    BY <2>1, <2>2, <2>3, <2>4 DEF Bijection, Injection, Surjection, IsInjective
<1>5. Cardinality(later) = Cardinality(At(Tail(q), g))
  <2>1. ExistsBijection(At(Tail(q), g), later)
    BY <1>4 DEF ExistsBijection
  <2>2. QED
    BY <1>1, <2>1, AtFinite, FS_Bijection
<1>6. IsFiniteSet(At(q, g)) /\ Cardinality(At(q, g)) \in Nat
  BY AtFinite
<1>7. 1 \in At(q, g) <=> g = Head(q)
  BY <1>1 DEF At
<1>8. Cardinality(later) =
        IF g = Head(q) THEN Cardinality(At(q, g)) - 1 ELSE Cardinality(At(q, g))
  BY <1>6, <1>7, FS_RemoveElement DEF later
<1>9. QED
  BY <1>5, <1>6, <1>8

LEMMA AtNothing == \A g : Cardinality(At(<<>>, g)) = 0
<1>1. \A g : At(<<>>, g) = {}
  BY DEF At
<1>2. QED
  BY <1>1, FS_EmptySet

LEMMA HandsFinite ==
  /\ \A g : IsFiniteSet(Hands(g)) /\ Cardinality(Hands(g)) \in Nat
  /\ IsFiniteSet(Busy) /\ Cardinality(Busy) \in Nat
<1>1. IsFiniteSet(Services)
  BY SignalAssumption
<1>2. (\A g : Hands(g) \in SUBSET Services) /\ Busy \in SUBSET Services
  BY DEF Hands, Busy
<1>3. QED
  BY <1>1, <1>2, FS_Subset, FS_CardinalityType

LEMMA InFlightIs ==
  /\ \A g : InFlight(g) = Cardinality(At(pipe, g)) + Cardinality(Hands(g))
  /\ AllInFlight = Len(pipe) + Cardinality(Busy)
BY DEF InFlight, AllInFlight, At, Hands, Busy

----------------------------------------------------------------------------
(* The steps of a signal *)

LEMMA SameSets == \A q : Abstract!ToSet(q) = ToSet(q)
BY DEF Abstract!ToSet, ToSet

LEMMA FlightSame ==
  ASSUME UNCHANGED <<pipe, hand>>
  PROVE  Flying' = Flying /\ AllInFlight' = AllInFlight
BY DEF Flying, InFlight, AllInFlight

LEMMA NothingFlies ==
  ASSUME pipe' = <<>>, hand' = hand, \A s \in Services : hand[s] = NoSignal
  PROVE  Abstract!Nothing
<1>1. \A g \in SignalNumbers : Hands(g) = {}
  BY SignalAssumption DEF Hands
<1>2. Busy = {}
  BY DEF Busy
<1>3. \A g \in SignalNumbers : InFlight(g)' = 0
  <2>1. \A g : InFlight(g)' = Cardinality(At(<<>>, g)) + Cardinality(Hands(g))
    BY DEF InFlight, At, Hands
  <2>2. \A g \in SignalNumbers : Cardinality(Hands(g)) = 0
    BY <1>1, FS_EmptySet
  <2>3. \A g : Cardinality(At(<<>>, g)) = 0
    BY AtNothing
  <2>4. QED
    BY <2>1, <2>2, <2>3
<1>4. AllInFlight' = 0
  <2>1. AllInFlight' = Len(<<>>) + Cardinality(Busy)
    BY DEF AllInFlight, Busy
  <2>2. QED
    BY <1>2, <2>1, FS_EmptySet
<1>5. Flying' = [g \in SignalNumbers |-> 0]
  BY <1>3 DEF Flying
<1>6. QED
  BY <1>4, <1>5 DEF Abstract!Nothing, Abstract!None

LEMMA RaiseStep ==
  ASSUME FlightInv, PipeInv, NEW g \in SignalNumbers, Raise(g)
  PROVE  Abstract!Raise(g)
<1>1. /\ raised' = raised + 1 /\ hand' = hand
      /\ UNCHANGED <<list, undelivered, queue, status>>
  BY DEF Raise, stateVars, setVars
<1>2. pipe \in Seq(SignalNumbers) /\ Len(pipe) \in Nat /\ PipeSize \in Nat
  BY SignalAssumption DEF FlightInv
<1>3. CASE open /\ Len(pipe) < PipeSize
  <2>1. pipe' = Append(pipe, g)
    BY <1>3 DEF Raise
  <2>2. Len(pipe') = Len(pipe) + 1
    BY <1>2, <2>1
  <2>3. \A h \in SignalNumbers :
          InFlight(h)' = IF h = g THEN InFlight(h) + 1 ELSE InFlight(h)
    <3> SUFFICES ASSUME NEW h \in SignalNumbers
                 PROVE  InFlight(h)' = IF h = g THEN InFlight(h) + 1 ELSE InFlight(h)
      OBVIOUS
    <3>1. InFlight(h)' = Cardinality(At(Append(pipe, g), h)) + Cardinality(Hands(h))
      BY <1>1, <2>1 DEF InFlight, At, Hands
    <3>2. InFlight(h) = Cardinality(At(pipe, h)) + Cardinality(Hands(h))
      BY InFlightIs
    <3>3. Cardinality(At(pipe, h)) \in Nat /\ Cardinality(Hands(h)) \in Nat
      BY <1>2, AtFinite, HandsFinite
    <3>4. Cardinality(At(Append(pipe, g), h)) =
            IF h = g THEN Cardinality(At(pipe, h)) + 1 ELSE Cardinality(At(pipe, h))
      BY <1>2, AtAppended
    <3>5. QED
      BY <3>1, <3>2, <3>3, <3>4
  <2>4. AllInFlight' = AllInFlight + 1
    <3>1. AllInFlight' = Len(pipe') + Cardinality(Busy)
      BY <1>1 DEF AllInFlight, Busy
    <3>2. Cardinality(Busy) \in Nat /\ AllInFlight = Len(pipe) + Cardinality(Busy)
      BY HandsFinite, InFlightIs
    <3>3. QED
      BY <1>2, <2>2, <3>1, <3>2
  <2>5. Flying' = [Flying EXCEPT ![g] = Flying[g] + 1]
    BY <2>3 DEF Flying
  <2>6. QED
    BY <1>1, <2>4, <2>5 DEF Abstract!Raise
<1>4. CASE ~(open /\ Len(pipe) < PipeSize)
  <2>1. pipe' = pipe
    BY <1>4 DEF Raise
  <2>2. Flying' = Flying /\ AllInFlight' = AllInFlight
    BY <1>1, <2>1, FlightSame
  <2>3. ~open => list = {}
    BY DEF PipeInv, PipeNotified
  <2>4. open => AllInFlight >= PipeSize
    <3>1. Cardinality(Busy) \in Nat /\ AllInFlight = Len(pipe) + Cardinality(Busy)
      BY HandsFinite, InFlightIs
    <3>2. QED
      BY <1>2, <1>4, <3>1
  <2>5. QED
    BY <1>1, <2>2, <2>3, <2>4 DEF Abstract!Raise
<1>5. QED
  BY <1>3, <1>4

\* A signal that goes from the pipe to a hand stays in flight.
LEMMA ReadPipeStep ==
  ASSUME FlightInv, NEW s \in Services, ReadPipe(s)
  PROVE  Flying' = Flying /\ AllInFlight' = AllInFlight
<1>1. /\ pipe \in Seq(SignalNumbers) /\ pipe # <<>> /\ pipe' = Tail(pipe)
      /\ hand' = [hand EXCEPT ![s] = Head(pipe)] /\ hand[s] = NoSignal
      /\ hand \in [Services -> SignalNumbers \cup {NoSignal}]
  BY DEF ReadPipe, FlightInv
<1>2. /\ Head(pipe) \in SignalNumbers /\ Head(pipe) # NoSignal
      /\ Len(pipe) \in Nat /\ Len(Tail(pipe)) = Len(pipe) - 1
      /\ Tail(pipe) \in Seq(SignalNumbers)
  BY <1>1, SignalAssumption
<1>3. \A h \in SignalNumbers : InFlight(h)' = InFlight(h)
  <2> SUFFICES ASSUME NEW h \in SignalNumbers PROVE InFlight(h)' = InFlight(h)
    OBVIOUS
  <2>1. InFlight(h) = Cardinality(At(pipe, h)) + Cardinality(Hands(h))
    BY InFlightIs
  <2>2. InFlight(h)' = Cardinality(At(Tail(pipe), h)) + Cardinality(Hands(h)')
    BY <1>1 DEF InFlight, At, Hands
  <2>3. Hands(h)' = IF h = Head(pipe) THEN Hands(h) \cup {s} ELSE Hands(h)
    <3>1. \A r \in Services : hand'[r] = IF r = s THEN Head(pipe) ELSE hand[r]
      BY <1>1
    <3>2. hand[s] # h
      BY <1>1, SignalAssumption
    <3>3. \A r \in Services :
            hand'[r] = h <=> hand[r] = h \/ (r = s /\ h = Head(pipe))
      BY <3>1, <3>2
    <3>4. Hands(h)' = {r \in Services : hand'[r] = h}
      BY DEF Hands
    <3>5. QED
      BY <3>3, <3>4 DEF Hands
  <2>4. s \notin Hands(h)
    BY <1>1, SignalAssumption DEF Hands
  <2>5. /\ Cardinality(Hands(h)) \in Nat
        /\ Cardinality(Hands(h) \cup {s}) = Cardinality(Hands(h)) + 1
    BY <2>4, HandsFinite, FS_AddElement
  <2>6. /\ Cardinality(At(Tail(pipe), h)) \in Nat
        /\ Cardinality(At(pipe, h)) =
             IF h = Head(pipe) THEN Cardinality(At(Tail(pipe), h)) + 1
                               ELSE Cardinality(At(Tail(pipe), h))
    BY <1>1, <1>2, AtFinite, AtTail
  <2>7. QED
    BY <2>1, <2>2, <2>3, <2>5, <2>6
<1>4. AllInFlight' = AllInFlight
  <2>1. AllInFlight' = Len(pipe') + Cardinality(Busy')
    BY DEF AllInFlight, Busy
  <2>2. Busy' = Busy \cup {s} /\ s \notin Busy
    BY <1>1, <1>2 DEF Busy
  <2>3. Cardinality(Busy') = Cardinality(Busy) + 1 /\ Cardinality(Busy) \in Nat
    BY <2>2, HandsFinite, FS_AddElement
  <2>4. AllInFlight = Len(pipe) + Cardinality(Busy)
    BY InFlightIs
  <2>5. QED
    BY <1>1, <1>2, <2>1, <2>3, <2>4
<1>5. QED
  BY <1>3, <1>4 DEF Flying

LEMMA DeliverStep ==
  ASSUME QueueOK, FlightInv, NEW s \in Services, Deliver(s)
  PROVE  hand[s] \in SignalNumbers /\ Abstract!Arrive(hand[s])
<1> DEFINE g == hand[s]
           R == {x \in Sets : ServiceOf[x] \in list /\ Abstract!Watches(x, g)}
<1>1. /\ hand' = [hand EXCEPT ![s] = NoSignal] /\ g # NoSignal
      /\ UNCHANGED <<pipe, list, raised>>
      /\ undelivered' = [x \in Sets |->
                              IF x \in R /\ queue[x] = <<>>
                                THEN [undelivered[x] EXCEPT ![g] = @ + 1]
                                ELSE undelivered[x]]
      /\ queue' = [x \in Sets |-> IF x \in R THEN <<>> ELSE queue[x]]
      /\ Complete(UNION {ToSet(queue[x]) : x \in R}, Got(g))
  <2>1. Receivers(s, g) = R
    BY DEF Receivers, Abstract!Watches
  <2> HIDE DEF R
  <2>2. QED
    BY <2>1 DEF Deliver, userVars, stateVars, pipeVars
<1>2. hand \in [Services -> SignalNumbers \cup {NoSignal}]
      /\ pipe \in Seq(SignalNumbers) /\ Len(pipe) \in Nat
  BY DEF FlightInv
<1>3. g \in SignalNumbers
  BY <1>1, <1>2
<1>4. R \subseteq Sets
  OBVIOUS
<1> HIDE DEF g, R
<1>5. \A h \in SignalNumbers :
        /\ InFlight(h)' = IF h = g THEN InFlight(h) - 1 ELSE InFlight(h)
        /\ h = g => InFlight(h) > 0
  <2> SUFFICES ASSUME NEW h \in SignalNumbers
               PROVE  /\ InFlight(h)' =
                           IF h = g THEN InFlight(h) - 1 ELSE InFlight(h)
                      /\ h = g => InFlight(h) > 0
    OBVIOUS
  <2>1. InFlight(h) = Cardinality(At(pipe, h)) + Cardinality(Hands(h))
    BY InFlightIs
  <2>2. InFlight(h)' = Cardinality(At(pipe, h)) + Cardinality(Hands(h)')
    BY <1>1 DEF InFlight, At, Hands
  <2>3. Hands(h)' = Hands(h) \ {s} /\ (s \in Hands(h) <=> h = g)
    BY <1>1, <1>2, SignalAssumption DEF Hands, g
  <2>4. /\ IsFiniteSet(Hands(h)) /\ Cardinality(Hands(h)) \in Nat
        /\ Cardinality(Hands(h)') =
             IF h = g THEN Cardinality(Hands(h)) - 1 ELSE Cardinality(Hands(h))
        /\ Cardinality(Hands(h)') \in Nat
    <3>1. IsFiniteSet(Hands(h)) /\ Cardinality(Hands(h)) \in Nat
      BY HandsFinite
    <3>2. /\ IsFiniteSet(Hands(h) \ {s})
          /\ Cardinality(Hands(h) \ {s}) =
               IF h = g THEN Cardinality(Hands(h)) - 1 ELSE Cardinality(Hands(h))
      BY <2>3, <3>1, FS_RemoveElement
    <3>3. Cardinality(Hands(h) \ {s}) \in Nat
      BY <3>2, FS_CardinalityType
    <3>4. QED
      BY <2>3, <3>1, <3>2, <3>3
  <2>5. Cardinality(At(pipe, h)) \in Nat
    BY <1>2, AtFinite
  <2>6. QED
    BY <2>1, <2>2, <2>4, <2>5
<1>6. AllInFlight' = AllInFlight - 1
  <2>1. AllInFlight' = Len(pipe) + Cardinality(Busy')
    BY <1>1 DEF AllInFlight, Busy
  <2>2. Busy' = Busy \ {s} /\ s \in Busy
    BY <1>1, <1>2 DEF Busy, g
  <2>3. Cardinality(Busy') = Cardinality(Busy) - 1 /\ Cardinality(Busy) \in Nat
    BY <2>2, HandsFinite, FS_RemoveElement
  <2>4. AllInFlight = Len(pipe) + Cardinality(Busy)
    BY InFlightIs
  <2>5. QED
    BY <1>2, <2>1, <2>3, <2>4
<1>7. Flying' = [Flying EXCEPT ![g] = Flying[g] - 1] /\ Flying[g] > 0
  BY <1>3, <1>5 DEF Flying
<1> DEFINE Left(x) == IF x \in R /\ queue[x] # <<>>
                        THEN Abstract!Rests(queue[x]) ELSE {queue[x]}
<1>8. \A x \in Sets : queue'[x] \in Left(x)
  <2> SUFFICES ASSUME NEW x \in Sets PROVE queue'[x] \in Left(x)
    OBVIOUS
  <2>1. queue'[x] = IF x \in R THEN <<>> ELSE queue[x]
    BY <1>1
  <2>2. ASSUME queue[x] # <<>> PROVE <<>> \in Abstract!Rests(queue[x])
    <3> DEFINE q == queue[x]
    <3>1. q \in Seq(Waits)
      BY DEF QueueOK
    <3>2. Len(q) \in 1 .. Len(q)
      BY <2>2, <3>1
    <3>3. SubSeq(q, Len(q) + 1, Len(q)) = <<>>
      BY <3>1
    <3> HIDE DEF q
    <3>4. <<>> \in {SubSeq(q, n + 1, Len(q)) : n \in 1 .. Len(q)}
      BY <3>2, <3>3
    <3>5. QED
      BY <3>4 DEF Abstract!Rests, q
  <2>3. QED
    BY <2>1, <2>2
<1>9. Abstract!End(UNION {Abstract!ToSet(queue[x]) \ Abstract!ToSet(queue'[x]) :
                            x \in Sets}, Abstract!Got(g))
  <2>1. Abstract!Got(g) = Got(g)
    BY DEF Abstract!Got, Got
  <2>2. ToSet(<<>>) = {}
    BY DEF ToSet
  <2>3. \A x \in Sets : ToSet(queue[x]) \ ToSet(queue'[x]) =
                          IF x \in R THEN ToSet(queue[x]) ELSE {}
    BY <1>1, <2>2
  <2>4. UNION {ToSet(queue[x]) \ ToSet(queue'[x]) : x \in Sets} =
          UNION {ToSet(queue[x]) : x \in R}
    BY <1>4, <2>3
  <2>5. UNION {Abstract!ToSet(queue[x]) \ Abstract!ToSet(queue'[x]) : x \in Sets} =
          UNION {ToSet(queue[x]) : x \in R}
    BY <2>4, SameSets
  <2>6. QED
    BY <1>1, <2>1, <2>5 DEF Abstract!End, Complete
<1>10. queue' \in [Sets -> UNION {Left(x) : x \in Sets}]
  <2> HIDE DEF Left
  <2>1. queue' = [x \in Sets |-> queue'[x]]
    BY <1>1
  <2>2. QED
    BY <1>8, <2>1
<1>11. Abstract!Arrive(g)
  <2>1. UNCHANGED <<list, raised>> /\ Flying[g] > 0
        /\ AllInFlight' = AllInFlight - 1
        /\ Flying' = [Flying EXCEPT ![g] = Flying[g] - 1]
    BY <1>1, <1>6, <1>7
  <2>2. undelivered' = [x \in Sets |-> IF x \in R /\ queue[x] = <<>>
                                THEN [undelivered[x] EXCEPT ![g] = @ + 1]
                                ELSE undelivered[x]]
    BY <1>1
  <2>3. \E left \in [Sets -> UNION {Left(x) : x \in Sets}] :
          /\ \A x \in Sets : left[x] \in Left(x)
          /\ queue' = left
          /\ Abstract!End(UNION {Abstract!ToSet(queue[x]) \
                                  Abstract!ToSet(left[x]) : x \in Sets},
                          Abstract!Got(g))
    <3> HIDE DEF Left
    <3>1. QED
      BY <1>8, <1>9, <1>10
  <2>4. QED
    BY <2>1, <2>2, <2>3 DEF Abstract!Arrive, R
<1>12. QED
  BY <1>3, <1>11 DEF g

----------------------------------------------------------------------------
(* The steps of the services and the sets *)

SignalsStep == [Abstract!Next]_(Abstract!vars)

\* What no set, no wait and no signal in flight tells of.
Unseen ==
  UNCHANGED <<list, raised, Flying, AllInFlight, undelivered, queue, status>>

LEMMA AddServiceStep ==
  ASSUME FlightInv, PipeInv, NEW s \in Services, AddService(s)
  PROVE  Abstract!Join(s)
<1>1. /\ list' = list \cup {s} /\ pipe' = IF list = {} THEN <<>> ELSE pipe
      /\ UNCHANGED <<raised, hand, undelivered, queue, status>>
  BY DEF AddService, userVars, reactorVars, setVars
<1>2. pipe' = pipe
  BY <1>1 DEF FlightInv, PipeInv, PipeNotified
<1>3. QED
  BY <1>1, <1>2, FlightSame DEF Abstract!Join

LEMMA UnlistStep ==
  ASSUME FlightInv, PipeInv, NEW s \in Services, Unlist(s)
  PROVE  Abstract!Leave(s)
<1> DEFINE F == {x \in SetsOf(s) : undelivered[x] # <<>>}
<1>1. /\ list' = list \ {s} /\ phase[s] = "removed"
      /\ IF list' = {} THEN pipe' = <<>> ELSE pipe' = pipe
      /\ UNCHANGED <<raised, hand, undelivered>>
      /\ queue' = [x \in Sets |-> IF x \in F THEN <<>> ELSE queue[x]]
      /\ Complete(UNION {ToSet(queue[x]) : x \in F}, Plain("destroyed"))
  BY DEF Unlist, userVars, reactorVars, pipeVars
<1>2. F = {x \in Sets : ServiceOf[x] = s /\ undelivered[x] # <<>>}
  BY DEF SetsOf
<1> HIDE DEF F
<1>3. Abstract!EndAll(F, Abstract!Plain("destroyed"))
  <2>1. Abstract!Plain("destroyed") = Plain("destroyed")
    BY DEF Abstract!Plain, Plain
  <2>2. UNION {Abstract!ToSet(queue[x]) : x \in F} = UNION {ToSet(queue[x]) : x \in F}
    BY SameSets
  <2>3. QED
    BY <1>1, <2>1, <2>2 DEF Abstract!EndAll, Abstract!End, Complete
<1>4. IF list' = {} THEN Abstract!Nothing ELSE UNCHANGED <<Flying, AllInFlight>>
  <2>1. list' = {} => Abstract!Nothing
    <3>1. SUFFICES ASSUME list' = {} PROVE Abstract!Nothing
      OBVIOUS
    <3>2. \A r \in Services : hand[r] = NoSignal
      <4>1. \A r \in performing : r \in list /\ r # s
        BY <1>1 DEF FlightInv, PipeInv, PhasesOK
      <4>2. performing = {}
        BY <1>1, <3>1, <4>1
      <4>3. QED
        BY <4>2 DEF FlightInv
    <3>3. QED
      BY <1>1, <3>1, <3>2, NothingFlies
  <2>2. list' # {} => UNCHANGED <<Flying, AllInFlight>>
    BY <1>1, FlightSame
  <2>3. QED
    BY <2>1, <2>2
<1>5. QED
  BY <1>1, <1>2, <1>3, <1>4 DEF Abstract!Leave

LEMMA ForkStep ==
  ASSUME FlightInv, NEW s \in Services, Fork(s)
  PROVE  Abstract!Forget \/ Unseen
<1>1. UNCHANGED <<raised, list, hand, undelivered, queue, status>>
  BY DEF Fork, ForkParent, ForkChild, WatchAgain, Watch, userVars, setVars
<1>2. CASE ForkParent(s)
  BY <1>1, <1>2, FlightSame DEF ForkParent, pipeVars, Unseen
<1>3. CASE ForkChild(s)
  <2>1. pipe' = <<>> /\ forkPrepared
    BY <1>3 DEF ForkChild
  <2>2. \A r \in Services : hand[r] = NoSignal
    BY <2>1 DEF FlightInv
  <2>3. QED
    BY <1>1, <2>1, <2>2, NothingFlies DEF Abstract!Forget
<1>4. QED
  BY <1>2, <1>3 DEF Fork

\* What the reactors do is not seen.
LEMMA ReactorUnseen ==
  ASSUME FlightInv, NEW s \in Services,
         \/ AddToReactor(s) \/ RemoveService(s) \/ RemoveFromReactor(s)
         \/ StartPerform(s) \/ ReadPipe(s) \/ EndPerform(s) \/ ForkPrepare(s)
  PROVE  Unseen
<1>1. UNCHANGED <<list, raised, undelivered, queue, status>>
  BY DEF AddToReactor, RemoveService, RemoveFromReactor, StartPerform, ReadPipe,
         EndPerform, ForkPrepare, userVars, stateVars, setVars
<1>2. CASE ReadPipe(s)
  BY <1>1, <1>2, ReadPipeStep DEF Unseen
<1>3. CASE ~ReadPipe(s)
  <2>1. UNCHANGED <<pipe, hand>>
    BY <1>3 DEF AddToReactor, RemoveService, RemoveFromReactor, StartPerform,
                EndPerform, ForkPrepare, Watch, Unwatch, pipeVars, reactorVars
  <2>2. QED
    BY <1>1, <2>1, FlightSame DEF Unseen
<1>4. QED
  BY <1>2, <1>3

LEMMA AddSignalStep ==
  ASSUME NEW x \in Sets, NEW g \in SignalNumbers, AddSignal(x, g)
  PROVE  Abstract!WatchMore(x, g)
<1>1. /\ UNCHANGED <<list, raised, pipe, hand, queue, status>>
      /\ g \notin DOMAIN undelivered[x]
      /\ undelivered' = [undelivered EXCEPT ![x] =
                       [h \in DOMAIN @ \cup {g} |-> IF h = g THEN 0 ELSE @[h]]]
  BY DEF AddSignal, userVars, stateVars, pipeVars, reactorVars
<1>2. QED
  BY <1>1, FlightSame DEF Abstract!WatchMore, Abstract!Watches

LEMMA DropStep ==
  ASSUME SetsInv, NEW x \in Sets, NEW S, Drop(x, S)
  PROVE  /\ \A g : S = {g} => Abstract!WatchOnly(x, SignalNumbers \ {g})
         /\ S = DOMAIN undelivered[x] => Abstract!WatchOnly(x, {})
<1>1. /\ UNCHANGED <<list, raised, pipe, hand, queue, status>>
      /\ undelivered' = [undelivered EXCEPT ![x] =
                           [h \in DOMAIN undelivered[x] \ S |-> undelivered[x][h]]]
  BY DEF Drop, userVars, stateVars, pipeVars, reactorVars
<1>2. DOMAIN undelivered[x] \subseteq SignalNumbers
  BY RegistrationsType DEF SetsInv, SetsTypeOK
<1>3. ASSUME NEW T, DOMAIN undelivered[x] \ S = DOMAIN undelivered[x] \cap T
      PROVE  Abstract!WatchOnly(x, T)
  BY <1>1, <1>3, FlightSame DEF Abstract!WatchOnly
<1>4. QED
  BY <1>2, <1>3

LEMMA StartWaitOpStep ==
  ASSUME SetsInv, WaitsInv, NEW x \in Sets, StartWaitOp(x)
  PROVE  \E w \in Waits : Abstract!Take(x, w) \/ Abstract!Begin(x, w)
<1> DEFINE w == <<x, Min(NewWaits(x))>>
<1>1. w \in Waits /\ status[w] = Plain("new")
  <2>1. NewWaits(x) \in SUBSET (1 .. MaxWaits)
    <3>1. program.waits[x] \in 0 .. MaxWaits
      BY SignalAssumption DEF WaitsInv
    <3>2. 1 .. program.waits[x] \subseteq 1 .. MaxWaits
      BY <3>1, SignalAssumption
    <3>3. QED
      BY <3>2 DEF NewWaits
  <2>2. IsFiniteSet(NewWaits(x)) /\ NewWaits(x) \in SUBSET Nat /\ NewWaits(x) # {}
    <3>1. MaxWaits \in Nat
      BY SignalAssumption
    <3>2. IsFiniteSet(1 .. MaxWaits) /\ 1 .. MaxWaits \subseteq Nat
      BY <3>1, FS_Interval
    <3>3. QED
      BY <2>1, <3>2, FS_Subset DEF StartWaitOp
  <2>3. Min(NewWaits(x)) \in NewWaits(x)
    BY <2>2, MinIn
  <2>4. status[w].how = "new"
    BY <2>3 DEF NewWaits
  <2>5. w \in Waits
    BY <2>1, <2>3 DEF Waits
  <2>6. QED
    BY <2>4, <2>5 DEF WaitsInv
<1>2. UNCHANGED <<list, raised, pipe, hand>>
  BY DEF StartWaitOp, userVars, stateVars, pipeVars, reactorVars
<1>3. Abstract!Counted(x) = Undelivered(x)
  BY DEF Abstract!Counted, Undelivered
<1> HIDE DEF w
<1>4. CASE Undelivered(x) # {}
  <2> DEFINE g == Min(Undelivered(x))
  <2>1. /\ undelivered' = [undelivered EXCEPT ![x][g] = @ - 1]
        /\ Complete({w}, Got(g)) /\ queue' = queue
    BY <1>4 DEF StartWaitOp, w
  <2>2. g = Abstract!Min(Abstract!Counted(x))
    BY <1>3 DEF Abstract!Min, Min
  <2> HIDE DEF g
  <2>3. status' = [status EXCEPT ![w] = Abstract!Got(g)]
    BY <2>1 DEF Complete, WaitsInv, Abstract!Got, Got
  <2>4. Abstract!Take(x, w)
    BY <1>1, <1>2, <1>3, <1>4, <2>1, <2>2, <2>3, FlightSame
    DEF Abstract!Take, Abstract!Plain, Plain
  <2>5. QED
    BY <1>1, <2>4
<1>5. CASE Undelivered(x) = {}
  <2>1. /\ queue' = [queue EXCEPT ![x] = Append(@, w)]
        /\ Complete({w}, Plain("waiting")) /\ undelivered' = undelivered
    BY <1>5 DEF StartWaitOp, w
  <2>2. status' = [status EXCEPT ![w] = Abstract!Plain("waiting")]
    BY <2>1 DEF Complete, WaitsInv, Abstract!Plain, Plain
  <2>3. Abstract!Begin(x, w)
    BY <1>1, <1>2, <1>3, <1>5, <2>1, <2>2, FlightSame
    DEF Abstract!Begin, Abstract!Plain, Plain
  <2>4. QED
    BY <1>1, <2>3
<1>6. QED
  BY <1>4, <1>5

LEMMA CancelStep ==
  ASSUME SetsInv, NEW x \in Sets, Cancel(x)
  PROVE  Abstract!CancelAll(x)
<1>1. /\ queue' = [queue EXCEPT ![x] = <<>>]
      /\ Complete(ToSet(queue[x]), Plain(Aborted(x)))
      /\ UNCHANGED <<list, raised, pipe, hand, undelivered>>
  BY DEF Cancel, Abort, userVars, stateVars, pipeVars, reactorVars
<1>2. Aborted(x) \in {"aborted", "destroyed"}
  BY DEF Aborted
<1>3. Abstract!Plain(Aborted(x)) = Plain(Aborted(x))
  BY DEF Abstract!Plain, Plain
<1>4. UNION {Abstract!ToSet(queue[y]) : y \in {x}} = ToSet(queue[x])
  BY SameSets
<1>5. queue' = [y \in Sets |-> IF y \in {x} THEN <<>> ELSE queue[y]]
  BY <1>1 DEF SetsInv, SetsTypeOK
<1>6. Abstract!EndAll({x}, Abstract!Plain(Aborted(x)))
  BY <1>1, <1>3, <1>4, <1>5 DEF Abstract!EndAll, Abstract!End, Complete
<1>7. QED
  BY <1>1, <1>2, <1>6, FlightSame DEF Abstract!CancelAll

LEMMA CancelOpsByKeyStep ==
  ASSUME NEW w \in Waits, CancelOpsByKey(w)
  PROVE  \E x \in Sets : \E i \in DOMAIN queue[x] : Abstract!CancelOne(x, i)
<1> DEFINE x == w[1]
<1>1. x \in Sets
  BY DEF Waits
<1>2. PICK i \in DOMAIN queue[x] :
        queue[x][i] = w /\ Abort(x, {w}, RemoveAt(queue[x], i))
  BY DEF CancelOpsByKey
<1>3. phase[ServiceOf[x]] = "up"
  BY DEF CancelOpsByKey, Uses
<1> HIDE DEF x
<1>4. /\ queue' = [queue EXCEPT ![x] = RemoveAt(queue[x], i)]
      /\ Complete({w}, Plain("aborted"))
      /\ UNCHANGED <<list, raised, pipe, hand, undelivered>>
  BY <1>2, <1>3 DEF Abort, Aborted, userVars, stateVars, pipeVars, reactorVars
<1>5. /\ Abstract!RemoveAt(queue[x], i) = RemoveAt(queue[x], i)
      /\ Abstract!Plain("aborted") = Plain("aborted")
  BY DEF Abstract!RemoveAt, RemoveAt, Abstract!Plain, Plain
<1>6. Abstract!CancelOne(x, i)
  BY <1>2, <1>4, <1>5, FlightSame
  DEF Abstract!CancelOne, Abstract!End, Complete
<1>7. QED
  BY <1>1, <1>2, <1>6

LEMMA NextSignals ==
  SetsInv /\ PipeInv /\ FlightInv /\ WaitsInv /\ QueueOK /\ [Next]_vars =>
    SignalsStep
<1> SUFFICES ASSUME SetsInv, PipeInv, FlightInv, WaitsInv, QueueOK, [Next]_vars
             PROVE  SignalsStep
  OBVIOUS
<1>1. ASSUME Unseen PROVE SignalsStep
  BY <1>1 DEF Unseen, SignalsStep, Abstract!vars
<1>2. ASSUME NEW s \in Services, AddService(s) PROVE SignalsStep
  BY <1>2, AddServiceStep DEF SignalsStep, Abstract!Next
<1>3. ASSUME NEW s \in Services, Unlist(s) PROVE SignalsStep
  BY <1>3, UnlistStep DEF SignalsStep, Abstract!Next
<1>4. ASSUME NEW s \in Services, Fork(s) PROVE SignalsStep
  BY <1>1, <1>4, ForkStep DEF SignalsStep, Abstract!Next
<1>5. ASSUME NEW s \in Services,
             \/ AddToReactor(s) \/ RemoveService(s) \/ RemoveFromReactor(s)
             \/ StartPerform(s) \/ ReadPipe(s) \/ EndPerform(s) \/ ForkPrepare(s)
      PROVE  SignalsStep
  BY <1>1, <1>5, ReactorUnseen
<1>6. ASSUME NEW s \in Services, Deliver(s) PROVE SignalsStep
  BY <1>6, DeliverStep DEF SignalsStep, Abstract!Next
<1>7. ASSUME NEW g \in SignalNumbers, Raise(g) PROVE SignalsStep
  BY <1>7, RaiseStep DEF SignalsStep, Abstract!Next
<1>8. ASSUME NEW g \in SignalNumbers, NEW x \in Sets, AddSignal(x, g)
      PROVE  SignalsStep
  BY <1>8, AddSignalStep DEF SignalsStep, Abstract!Next
<1>9. ASSUME NEW g \in SignalNumbers, NEW x \in Sets, RemoveSignal(x, g)
      PROVE  SignalsStep
  <2>1. Abstract!WatchOnly(x, SignalNumbers \ {g})
    BY <1>9, DropStep DEF RemoveSignal
  <2>2. QED
    BY <2>1 DEF SignalsStep, Abstract!Next
<1>10. ASSUME NEW x \in Sets, Clear(x) PROVE SignalsStep
  <2>1. Abstract!WatchOnly(x, {})
    BY <1>10, DropStep DEF Clear
  <2>2. QED
    BY <2>1 DEF SignalsStep, Abstract!Next
<1>11. ASSUME NEW x \in Sets, Cancel(x) PROVE SignalsStep
  BY <1>11, CancelStep DEF SignalsStep, Abstract!Next
<1>12. ASSUME NEW x \in Sets, StartWaitOp(x) PROVE SignalsStep
  BY <1>12, StartWaitOpStep DEF SignalsStep, Abstract!Next
<1>13. ASSUME NEW w \in Waits, CancelOpsByKey(w) PROVE SignalsStep
  BY <1>13, CancelOpsByKeyStep DEF SignalsStep, Abstract!Next
<1>14. CASE UNCHANGED vars
  BY <1>1, <1>14, FlightSame
  DEF vars, userVars, stateVars, pipeVars, reactorVars, setVars, Unseen
<1>15. QED
  BY <1>2, <1>3, <1>4, <1>5, <1>6, <1>7, <1>8, <1>9, <1>10, <1>11, <1>12,
     <1>13, <1>14
  DEF Next, ServiceStep, Perform

LEMMA InitSignals == Init => Abstract!Init
<1> SUFFICES ASSUME Init PROVE Abstract!Init
  OBVIOUS
<1>1. pipe = <<>> /\ \A s \in Services : hand[s] = NoSignal
  BY DEF Init
<1>2. Busy = {} /\ \A g \in SignalNumbers : Hands(g) = {}
  BY <1>1, SignalAssumption DEF Busy, Hands
<1>3. AllInFlight = 0
  <2>1. Cardinality(Busy) = 0 /\ Len(pipe) = 0
    BY <1>1, <1>2, FS_EmptySet
  <2>2. QED
    BY <2>1, InFlightIs
<1>4. \A g \in SignalNumbers : InFlight(g) = 0
  <2>1. \A g \in SignalNumbers :
          Cardinality(Hands(g)) = 0 /\ Cardinality(At(pipe, g)) = 0
    BY <1>1, <1>2, FS_EmptySet, AtNothing
  <2>2. QED
    BY <2>1, InFlightIs
<1>5. Flying = [g \in SignalNumbers |-> 0]
  BY <1>4 DEF Flying
<1>6. QED
  BY <1>3, <1>5 DEF Init, Abstract!Init, Abstract!None, Abstract!Plain, Plain

----------------------------------------------------------------------------
(* The theorems *)

\* A wait never misses a notification that its set has counted: deliver_signal
\* counts only where nobody waits, and start_wait_op takes what was counted
\* before it waits.
THEOREM NoneMissedAlways == Spec => []NoneMissed
<1>1. SetsInv => NoneMissed
  BY DEF SetsInv
<1>2. QED
  BY <1>1, InitSetsInv, NextSetsInv, PTL DEF Spec

\* The process handles a signal exactly as long as a set of some context has
\* it: registration_count_ is the number of these sets, through add(), remove()
\* and clear() in any order, though any number of them is released at once.
THEOREM HandlersMatchAlways == Spec => []HandlersMatch
<1>1. SetsInv => HandlersMatch
  BY DEF SetsInv
<1>2. QED
  BY <1>1, InitSetsInv, NextSetsInv, PTL DEF Spec

\* Whatever is in the pipe, every reactor that watches it has an event or a
\* thread that reads: no service that is made, destroyed or taken through a fork
\* leaves a signal in the pipe that nobody knows of.
THEOREM PipeNotifiedAlways == Spec => []PipeNotified
<1>1. PipeInv => PipeNotified
  BY DEF PipeInv
<1>2. QED
  BY <1>1, InitPipeInv, NextPipeInv, PTL DEF Spec

\* The services with their pipe, threads and two mutexes do what one set of
\* counters would: a signal that is raised is in flight until it arrives, once,
\* at every set that has it then, and is lost only when the pipe is full or the
\* last service leaves, or to the child of a fork.
THEOREM SignalSetImplements == Spec => ImplementsSignals
<1>1. SetsInv /\ PipeInv /\ FlightInv /\ WaitsInv /\ QueueOK /\ [Next]_vars =>
        [Abstract!Next]_(Abstract!vars)
  BY NextSignals DEF SignalsStep
<1>2. QED
  BY <1>1, InitSetsInv, NextSetsInv, InitPipeInv, NextPipeInv, InitFlight,
     NextFlight, NextWaits, InitQueues, NextQueues, InitSignals, PTL
  DEF Spec, ImplementsSignals, Abstract!Spec
============================================================================
