---------------------------- MODULE StrandProofs ----------------------------
(***************************************************************************)
(* That functions of a strand never overlap, for any threads, strands and  *)
(* functions, however calls nest and functions throw.  The core is that a  *)
(* strand has one holder at most: a frame that is not a function, or an    *)
(* invoker in the pool; and that a function runs above an invoker of its   *)
(* strand, which holds it, on the same stack.                              *)
(*                                                                         *)
(* What an action does to the holders is one of a few shapes: a function   *)
(* is pushed, a frame popped, a holder pushed, changed, moved to the pool  *)
(* or from it, or released.  Each shape has a lemma, and each action that  *)
(* of its shape.                                                           *)
(*                                                                         *)
(* And that the service implements Strand.  What waits for a strand is in  *)
(* one of two queues, or with the thread that has taken the strand and not *)
(* yet pushed its function; that the three are one queue in the order of   *)
(* enqueue() needs that a free strand has nothing queued, and that nothing *)
(* is ready before that push.  That a function starts once needs that what *)
(* is not submitted is nowhere, and that what runs has one frame.          *)
(***************************************************************************)
EXTENDS StrandExecutor, SequenceTheorems, FiniteSetTheorems, TLAPS

At(t, i) == stack[t][i]

Heights == \A t \in Threads : Len(stack[t]) \in Nat

\* A function has an invoker of its strand below it, next to it unless it was
\* dispatched.
StackOK ==
  \A t \in Threads : \A i \in 1 .. Len(stack[t]) :
    At(t, i).kind = "function" =>
      /\ \E j \in 1 .. (i - 1) :
           At(t, j).kind = "invoker" /\ At(t, j).strand = At(t, i).strand
      /\ ~At(t, i).inline =>
           /\ i > 1 /\ At(t, i - 1).kind = "invoker"
           /\ At(t, i - 1).strand = At(t, i).strand

\* Two frames that hold the same strand are one.
OneFrame ==
  \A t, u \in Threads :
    \A i \in 1 .. Len(stack[t]), j \in 1 .. Len(stack[u]) :
      /\ At(t, i).kind # "function" /\ At(u, j).kind # "function"
      /\ At(t, i).strand = At(u, j).strand
      => t = u /\ i = j

\* An invoker is submitted once, to run a strand that is locked.
PoolOK ==
  /\ \A i, j \in 1 .. Len(pool) : pool[i] = pool[j] => i = j
  /\ \A i \in 1 .. Len(pool) : locked[pool[i]]

\* A strand that a frame holds is locked, and its invoker is not submitted.
FramesOK ==
  \A t \in Threads : \A i \in 1 .. Len(stack[t]) :
    At(t, i).kind # "function" =>
      /\ locked[At(t, i).strand]
      /\ \A j \in 1 .. Len(pool) : pool[j] # At(t, i).strand

HoldInv == StackOK /\ OneFrame /\ PoolOK /\ FramesOK

----------------------------------------------------------------------------
(* Stacks *)

LEMMA FrontFacts ==
  ASSUME NEW S, NEW q \in Seq(S), q # <<>>
  PROVE  /\ Front(q) \in Seq(S) /\ Len(q) \in Nat \ {0}
         /\ Len(Front(q)) = Len(q) - 1
         /\ \A i \in 1 .. (Len(q) - 1) : Front(q)[i] = q[i]
<1>1. Len(q) \in Nat \ {0}
  OBVIOUS
<1>2. 1 \in 1 .. (Len(q) + 1) /\ Len(q) - 1 \in 0 .. Len(q)
  BY <1>1
<1>3. /\ SubSeq(q, 1, Len(q) - 1) \in Seq(S)
      /\ Len(SubSeq(q, 1, Len(q) - 1)) = Len(q) - 1
      /\ \A i \in 1 .. (Len(q) - 1) : SubSeq(q, 1, Len(q) - 1)[i] = q[i]
  <2> DEFINE n == Len(q) - 1
  <2>1. n \in Int /\ \A i \in 1 .. n : q[i] \in S
    BY <1>1
  <2> HIDE DEF n
  <2>2. /\ SubSeq(q, 1, n) \in Seq(S)
        /\ Len(SubSeq(q, 1, n)) = IF 1 <= n THEN n - 1 + 1 ELSE 0
        /\ \A i \in 1 .. n - 1 + 1 : SubSeq(q, 1, n)[i] = q[1 + i - 1]
    BY <2>1, SubSeqProperties
  <2>3. n = Len(q) - 1
    BY DEF n
  <2>4. /\ SubSeq(q, 1, n) \in Seq(S) /\ Len(SubSeq(q, 1, n)) = n
        /\ \A i \in 1 .. n : SubSeq(q, 1, n)[i] = q[i]
    BY <1>1, <2>1, <2>2, <2>3
  <2>5. QED
    BY <2>3, <2>4
<1>4. QED
  BY <1>1, <1>3 DEF Front

LEMMA AppendFacts ==
  ASSUME NEW S, NEW q \in Seq(S), NEW e \in S
  PROVE  /\ Append(q, e) \in Seq(S)
         /\ Len(Append(q, e)) = Len(q) + 1
         /\ Append(q, e)[Len(q) + 1] = e
         /\ \A i \in 1 .. Len(q) : Append(q, e)[i] = q[i]
OBVIOUS

LEMMA BecomeFacts ==
  ASSUME NEW S, NEW q \in Seq(S), q # <<>>, NEW e \in S
  PROVE  /\ Append(Front(q), e) \in Seq(S)
         /\ Len(Append(Front(q), e)) = Len(q)
         /\ Append(Front(q), e)[Len(q)] = e
         /\ \A i \in 1 .. (Len(q) - 1) : Append(Front(q), e)[i] = q[i]
<1>1. Front(q) \in Seq(S) /\ Len(Front(q)) + 1 = Len(q) /\ Len(q) \in Nat
  BY FrontFacts
<1>2. QED
  BY <1>1, FrontFacts, AppendFacts

\* What a step does to the stack of t, position by position.
Popped(t, n) ==
  /\ stack' \in [Threads -> Seq(Frames)] /\ Heights /\ Heights'
  /\ \A u \in Threads : u # t => stack'[u] = stack[u]
  /\ Len(stack[t]) >= n /\ Len(stack'[t]) = Len(stack[t]) - n
  /\ \A i \in 1 .. Len(stack'[t]) : stack'[t][i] = stack[t][i]

Pushed(t, fr) ==
  /\ stack' \in [Threads -> Seq(Frames)] /\ Heights /\ Heights'
  /\ \A u \in Threads : u # t => stack'[u] = stack[u]
  /\ Len(stack'[t]) = Len(stack[t]) + 1 /\ stack'[t][Len(stack[t]) + 1] = fr
  /\ \A i \in 1 .. Len(stack[t]) : stack'[t][i] = stack[t][i]

Changed(t, fr) ==
  /\ stack' \in [Threads -> Seq(Frames)] /\ Heights /\ Heights'
  /\ \A u \in Threads : u # t => stack'[u] = stack[u]
  /\ Len(stack[t]) > 0
  /\ Len(stack'[t]) = Len(stack[t]) /\ stack'[t][Len(stack[t])] = fr
  /\ \A i \in 1 .. (Len(stack[t]) - 1) : stack'[t][i] = stack[t][i]

LEMMA HeightsType ==
  ASSUME stack \in [Threads -> Seq(Frames)]
  PROVE  Heights
BY DEF Heights

LEMMA PopFacts ==
  ASSUME TypeOK, NEW t \in Threads, stack[t] # <<>>, Pop(t)
  PROVE  Popped(t, 1)
<1>1. stack[t] \in Seq(Frames)
  BY DEF TypeOK
<1>2. stack'[t] = Front(stack[t]) /\ \A u \in Threads : u # t => stack'[u] = stack[u]
  BY DEF Pop, TypeOK
<1>3. stack' \in [Threads -> Seq(Frames)]
  BY <1>1, <1>2, FrontFacts DEF Pop, TypeOK
<1>4. /\ Len(stack[t]) \in Nat /\ Len(stack[t]) >= 1
      /\ Len(stack'[t]) = Len(stack[t]) - 1
      /\ \A i \in 1 .. (Len(stack[t]) - 1) : stack'[t][i] = stack[t][i]
  BY <1>1, <1>2, FrontFacts
<1>5. Heights /\ Heights'
  BY <1>3, HeightsType DEF TypeOK, Heights
<1>6. QED
  BY <1>2, <1>3, <1>4, <1>5 DEF Popped

LEMMA PushFacts ==
  ASSUME TypeOK, NEW t \in Threads, NEW fr \in Frames, Push(t, fr)
  PROVE  Pushed(t, fr)
<1>1. stack[t] \in Seq(Frames)
  BY DEF TypeOK
<1>2. stack'[t] = Append(stack[t], fr)
      /\ \A u \in Threads : u # t => stack'[u] = stack[u]
  BY DEF Push, TypeOK
<1>3. stack' \in [Threads -> Seq(Frames)]
  BY <1>1, <1>2, AppendFacts DEF Push, TypeOK
<1>4. Heights /\ Heights'
  BY <1>3, HeightsType DEF TypeOK, Heights
<1>5. QED
  BY <1>1, <1>2, <1>3, <1>4, AppendFacts DEF Pushed

LEMMA BecomeChanges ==
  ASSUME TypeOK, NEW t \in Threads, stack[t] # <<>>, NEW fr \in Frames,
         Become(t, fr)
  PROVE  Changed(t, fr)
<1>1. stack[t] \in Seq(Frames) /\ Len(stack[t]) > 0
  BY DEF TypeOK
<1>2. stack'[t] = Append(Front(stack[t]), fr)
      /\ \A u \in Threads : u # t => stack'[u] = stack[u]
  BY DEF Become, TypeOK
<1>3. stack' \in [Threads -> Seq(Frames)]
  BY <1>1, <1>2, BecomeFacts DEF Become, TypeOK
<1>4. Heights /\ Heights'
  BY <1>3, HeightsType DEF TypeOK, Heights
<1>5. QED
  BY <1>1, <1>2, <1>3, <1>4, BecomeFacts DEF Changed

LEMMA TopFacts ==
  ASSUME TypeOK, NEW t \in Threads, stack[t] # <<>>
  PROVE  /\ Top(t) \in Frames /\ Top(t) = At(t, Len(stack[t]))
         /\ Len(stack[t]) \in 1 .. Len(stack[t])
BY DEF TypeOK, Top, At

----------------------------------------------------------------------------
(* Types *)

LEMMA FrameType ==
  ASSUME NEW kind \in {"acquired", "schedule", "invoker", "exit", "again", "function"},
         NEW s \in Strands, NEW f \in Funcs \cup {NoFunc}, NEW b \in BOOLEAN
  PROVE  /\ Frame(kind, s, f, b) \in Frames
         /\ Frame(kind, s, f, b).kind = kind /\ Frame(kind, s, f, b).strand = s
         /\ Frame(kind, s, f, b).func = f /\ Frame(kind, s, f, b).inline = b
BY DEF Frame, Frames

\* The queues and the other variables keep their types.
QueuesOK ==
  /\ locked \in [Strands -> BOOLEAN] /\ shutdown \in BOOLEAN
  /\ waiting \in [Strands -> Seq(Funcs)] /\ ready \in [Strands -> Seq(Funcs)]
  /\ pool \in Seq(Strands)
  /\ fresh \in SUBSET Funcs /\ finished \in SUBSET Funcs
  /\ order \in [Strands -> Seq(Funcs)]

HasFunc(fr) == fr.kind \in {"function", "acquired"} => fr.func # NoFunc

StacksOK ==
  /\ stack \in [Threads -> Seq(Frames)]
  /\ \A t \in Threads : \A i \in 1 .. Len(stack[t]) : HasFunc(At(t, i))

LEMMA TypeParts == TypeOK <=> QueuesOK /\ StacksOK
<1>1. stack \in [Threads -> Seq(Frames)] =>
        \A t \in Threads : DOMAIN stack[t] = 1 .. Len(stack[t])
  OBVIOUS
<1>2. QED
  BY <1>1 DEF TypeOK, QueuesOK, StacksOK, HasFunc, At

----------------------------------------------------------------------------
(* Holders *)

\* Where each frame comes from.
LEMMA PoppedAt ==
  ASSUME NEW t \in Threads, Popped(t, 1)
  PROVE  /\ Heights'
         /\ \A u \in Threads : \A i \in 1 .. Len(stack'[u]) :
              /\ i \in 1 .. Len(stack[u]) /\ At(u, i)' = At(u, i)
              /\ u = t => i < Len(stack[t])
<1> SUFFICES ASSUME NEW u \in Threads, NEW i \in 1 .. Len(stack'[u])
             PROVE  /\ i \in 1 .. Len(stack[u]) /\ At(u, i)' = At(u, i)
                    /\ u = t => i < Len(stack[t])
  BY DEF Popped
<1>1. CASE u = t
  BY <1>1 DEF Popped, Heights, At
<1>2. CASE u # t
  BY <1>2 DEF Popped, Heights, At
<1>3. QED
  BY <1>1, <1>2

LEMMA PushedAt ==
  ASSUME NEW t \in Threads, NEW fr, Pushed(t, fr)
  PROVE  /\ Heights'
         /\ \A u \in Threads : \A i \in 1 .. Len(stack'[u]) :
              \/ i \in 1 .. Len(stack[u]) /\ At(u, i)' = At(u, i)
              \/ u = t /\ i = Len(stack[t]) + 1 /\ At(u, i)' = fr
         /\ \A u \in Threads : \A i \in 1 .. Len(stack[u]) :
              i \in 1 .. Len(stack'[u]) /\ At(u, i)' = At(u, i)
<1>1. Heights'
  BY DEF Pushed
<1>2. ASSUME NEW u \in Threads, NEW i \in 1 .. Len(stack'[u])
      PROVE  \/ i \in 1 .. Len(stack[u]) /\ At(u, i)' = At(u, i)
             \/ u = t /\ i = Len(stack[t]) + 1 /\ At(u, i)' = fr
  <2>1. CASE u = t
    BY <2>1 DEF Pushed, Heights, At
  <2>2. CASE u # t
    BY <2>2 DEF Pushed, Heights, At
  <2>3. QED
    BY <2>1, <2>2
<1>3. ASSUME NEW u \in Threads, NEW i \in 1 .. Len(stack[u])
      PROVE  i \in 1 .. Len(stack'[u]) /\ At(u, i)' = At(u, i)
  <2>1. CASE u = t
    BY <2>1 DEF Pushed, Heights, At
  <2>2. CASE u # t
    BY <2>2 DEF Pushed, Heights, At
  <2>3. QED
    BY <2>1, <2>2
<1>4. QED
  BY <1>1, <1>2, <1>3

LEMMA ChangedAt ==
  ASSUME NEW t \in Threads, NEW fr, Changed(t, fr)
  PROVE  /\ Heights' /\ \A u \in Threads : Len(stack'[u]) = Len(stack[u])
         /\ Len(stack[t]) \in 1 .. Len(stack[t])
         /\ \A u \in Threads : \A i \in 1 .. Len(stack[u]) :
              At(u, i)' = IF u = t /\ i = Len(stack[t]) THEN fr ELSE At(u, i)
<1>1. /\ Heights' /\ \A u \in Threads : Len(stack'[u]) = Len(stack[u])
      /\ Len(stack[t]) \in 1 .. Len(stack[t])
  BY DEF Changed, Heights
<1>2. ASSUME NEW u \in Threads, NEW i \in 1 .. Len(stack[u])
      PROVE  At(u, i)' = IF u = t /\ i = Len(stack[t]) THEN fr ELSE At(u, i)
  <2>1. CASE u = t
    BY <2>1 DEF Changed, Heights, At
  <2>2. CASE u # t
    BY <2>2 DEF Changed, Heights, At
  <2>3. QED
    BY <2>1, <2>2
<1>3. QED
  BY <1>1, <1>2

LEMMA PoppedStacks ==
  ASSUME StacksOK, NEW t \in Threads, Popped(t, 1)
  PROVE  StacksOK'
<1>1. stack' \in [Threads -> Seq(Frames)]
  BY DEF Popped
<1>2. QED
  BY <1>1, PoppedAt DEF StacksOK

LEMMA PushedStacks ==
  ASSUME StacksOK, NEW t \in Threads, NEW fr, Pushed(t, fr), HasFunc(fr)
  PROVE  StacksOK'
<1>1. stack' \in [Threads -> Seq(Frames)]
  BY DEF Pushed
<1>2. ASSUME NEW u \in Threads, NEW i \in 1 .. Len(stack'[u])
      PROVE  HasFunc(At(u, i)')
  BY PushedAt DEF StacksOK
<1>3. QED
  BY <1>1, <1>2 DEF StacksOK, HasFunc

LEMMA ChangedStacks ==
  ASSUME StacksOK, NEW t \in Threads, NEW fr, Changed(t, fr), HasFunc(fr)
  PROVE  StacksOK'
<1>1. stack' \in [Threads -> Seq(Frames)]
  BY DEF Changed
<1>2. ASSUME NEW u \in Threads, NEW i \in 1 .. Len(stack'[u])
      PROVE  HasFunc(At(u, i)')
  <2>1. i \in 1 .. Len(stack[u])
    BY ChangedAt
  <2>2. CASE u = t /\ i = Len(stack[t])
    BY <2>1, <2>2, ChangedAt
  <2>3. CASE ~(u = t /\ i = Len(stack[t]))
    BY <2>1, <2>3, ChangedAt DEF StacksOK
  <2>4. QED
    BY <2>2, <2>3
<1>3. QED
  BY <1>1, <1>2 DEF StacksOK, HasFunc

LEMMA PopFunction ==
  ASSUME HoldInv, NEW t \in Threads, Popped(t, 1), UNCHANGED <<pool, locked>>
  PROVE  HoldInv'
<1>1. StackOK'
  BY PoppedAt DEF Heights, HoldInv, StackOK
<1>2. OneFrame'
  BY PoppedAt DEF HoldInv, OneFrame
<1>3. PoolOK' /\ FramesOK'
  BY PoppedAt DEF HoldInv, PoolOK, FramesOK
<1>4. QED
  BY <1>1, <1>2, <1>3 DEF HoldInv

LEMMA ChangeHolder ==
  ASSUME HoldInv, NEW t \in Threads, NEW fr, Changed(t, fr),
         fr.kind # "function", At(t, Len(stack[t])).kind # "function",
         fr.strand = At(t, Len(stack[t])).strand, UNCHANGED <<pool, locked>>
  PROVE  HoldInv'
<1>1. ASSUME NEW u \in Threads, NEW i \in 1 .. Len(stack'[u]),
             At(u, i)'.kind = "function"
      PROVE  /\ \E j \in 1 .. (i - 1) : /\ At(u, j)'.kind = "invoker"
                                       /\ At(u, j)'.strand = At(u, i)'.strand
             /\ ~At(u, i)'.inline =>
                  /\ i > 1 /\ At(u, i - 1)'.kind = "invoker"
                  /\ At(u, i - 1)'.strand = At(u, i)'.strand
  <2>1. i \in 1 .. Len(stack[u]) /\ At(u, i)' = At(u, i)
    BY <1>1, ChangedAt
  <2>2. \A j \in 1 .. (i - 1) : At(u, j)' = At(u, j)
    BY <2>1, ChangedAt DEF Changed, Heights
  <2>3. QED
    BY <1>1, <2>1, <2>2 DEF HoldInv, StackOK
<1>2. OneFrame'
  BY ChangedAt DEF HoldInv, OneFrame
<1>3. PoolOK' /\ FramesOK'
  BY ChangedAt DEF HoldInv, PoolOK, FramesOK
<1>4. StackOK'
  BY <1>1 DEF StackOK
<1>5. QED
  BY <1>2, <1>3, <1>4 DEF HoldInv

LEMMA PushFunction ==
  ASSUME HoldInv, NEW t \in Threads, NEW fr, Pushed(t, fr),
         fr.kind = "function", UNCHANGED <<pool, locked>>,
         \E j \in 1 .. Len(stack[t]) :
           At(t, j).kind = "invoker" /\ At(t, j).strand = fr.strand,
         \A j \in 1 .. Len(stack[t]) :
           ~fr.inline /\ j = Len(stack[t]) =>
             At(t, j).kind = "invoker" /\ At(t, j).strand = fr.strand
  PROVE  HoldInv'
<1>1. ASSUME NEW u \in Threads, NEW i \in 1 .. Len(stack'[u]),
             At(u, i)'.kind = "function"
      PROVE  /\ \E j \in 1 .. (i - 1) : /\ At(u, j)'.kind = "invoker"
                                       /\ At(u, j)'.strand = At(u, i)'.strand
             /\ ~At(u, i)'.inline =>
                  /\ i > 1 /\ At(u, i - 1)'.kind = "invoker"
                  /\ At(u, i - 1)'.strand = At(u, i)'.strand
  <2>1. Len(stack[u]) \in Nat
    BY DEF Pushed, Heights
  <2>2. i - 1 =< Len(stack[u]) /\ \A j \in 1 .. (i - 1) : At(u, j)' = At(u, j)
    BY <2>1, PushedAt
  <2>3. CASE i \in 1 .. Len(stack[u]) /\ At(u, i)' = At(u, i)
    BY <1>1, <2>1, <2>2, <2>3 DEF HoldInv, StackOK
  <2>4. CASE u = t /\ i = Len(stack[t]) + 1 /\ At(u, i)' = fr
    BY <2>1, <2>2, <2>4
  <2>5. QED
    BY <2>3, <2>4, PushedAt
<1>2. OneFrame'
  BY PushedAt DEF HoldInv, OneFrame
<1>3. PoolOK' /\ FramesOK'
  BY PushedAt DEF HoldInv, PoolOK, FramesOK
<1>4. StackOK'
  BY <1>1 DEF StackOK
<1>5. QED
  BY <1>2, <1>3, <1>4 DEF HoldInv

\* A holder that is pushed takes nothing away from the functions.
LEMMA PushedStackOK ==
  ASSUME StackOK, NEW t \in Threads, NEW fr, Pushed(t, fr), fr.kind # "function"
  PROVE  StackOK'
<1>1. ASSUME NEW u \in Threads, NEW i \in 1 .. Len(stack'[u]),
             At(u, i)'.kind = "function"
      PROVE  /\ \E j \in 1 .. (i - 1) : /\ At(u, j)'.kind = "invoker"
                                       /\ At(u, j)'.strand = At(u, i)'.strand
             /\ ~At(u, i)'.inline =>
                  /\ i > 1 /\ At(u, i - 1)'.kind = "invoker"
                  /\ At(u, i - 1)'.strand = At(u, i)'.strand
  <2>1. Len(stack[u]) \in Nat
    BY DEF Pushed, Heights
  <2>2. i \in 1 .. Len(stack[u]) /\ At(u, i)' = At(u, i)
    BY <1>1, PushedAt
  <2>3. \A j \in 1 .. (i - 1) : At(u, j)' = At(u, j)
    BY <2>1, <2>2, PushedAt
  <2>4. QED
    BY <1>1, <2>1, <2>2, <2>3 DEF StackOK
<1>2. QED
  BY <1>1 DEF StackOK

\* A strand that is not locked has no holder: one may be pushed.
LEMMA PushHolder ==
  ASSUME QueuesOK, HoldInv, NEW t \in Threads, NEW fr, Pushed(t, fr),
         fr.kind # "function", fr.strand \in Strands, ~locked[fr.strand],
         locked' = [locked EXCEPT ![fr.strand] = TRUE], pool' = pool
  PROVE  HoldInv'
<1>1. /\ locked'[fr.strand] /\ \A j \in 1 .. Len(pool) : pool[j] # fr.strand
      /\ \A s \in Strands : locked[s] => locked'[s]
      /\ \A j \in 1 .. Len(pool) : pool[j] \in Strands
  BY DEF QueuesOK, HoldInv, PoolOK
<1>2. \A u \in Threads : \A i \in 1 .. Len(stack[u]) :
        At(u, i).kind # "function" => At(u, i).strand # fr.strand
  BY DEF HoldInv, FramesOK
<1>3. StackOK'
  BY PushedStackOK DEF HoldInv
<1>4. OneFrame'
  BY <1>2, PushedAt DEF HoldInv, OneFrame
<1>5. PoolOK'
  BY <1>1 DEF HoldInv, PoolOK
<1>6. \A u \in Threads : \A i \in 1 .. Len(stack[u]) :
        At(u, i).kind # "function" => locked'[At(u, i).strand]
  BY <1>2 DEF HoldInv, FramesOK, QueuesOK
<1>7. FramesOK'
  BY <1>1, <1>6, PushedAt DEF HoldInv, FramesOK
<1>8. QED
  BY <1>3, <1>4, <1>5, <1>7 DEF HoldInv

LEMMA PoppedStackOK ==
  ASSUME StackOK, NEW t \in Threads, Popped(t, 1)
  PROVE  StackOK'
BY PoppedAt DEF Heights, StackOK

\* A frame that is popped leaves its strand without a holder.
LEMMA PoppedHolder ==
  ASSUME HoldInv, NEW t \in Threads, Popped(t, 1),
         NEW n, n = Len(stack[t]), At(t, n).kind # "function"
  PROVE  /\ n \in 1 .. Len(stack[t]) /\ locked[At(t, n).strand]
         /\ \A j \in 1 .. Len(pool) : pool[j] # At(t, n).strand
         /\ \A u \in Threads : \A i \in 1 .. Len(stack'[u]) :
              At(u, i)'.kind # "function" => At(u, i)'.strand # At(t, n).strand
<1>1. n \in 1 .. Len(stack[t])
  BY DEF Popped, Heights
<1>2. locked[At(t, n).strand] /\ \A j \in 1 .. Len(pool) : pool[j] # At(t, n).strand
  BY <1>1 DEF HoldInv, FramesOK
<1>3. ASSUME NEW u \in Threads, NEW i \in 1 .. Len(stack'[u]),
             At(u, i)'.kind # "function"
      PROVE  At(u, i)'.strand # At(t, n).strand
  <2>1. /\ i \in 1 .. Len(stack[u]) /\ At(u, i)' = At(u, i)
        /\ ~(u = t /\ i = n)
    BY PoppedAt
  <2>2. QED
    BY <1>1, <1>3, <2>1 DEF HoldInv, OneFrame
<1>4. QED
  BY <1>1, <1>2, <1>3

LEMMA ReleaseHolder ==
  ASSUME QueuesOK, HoldInv, NEW t \in Threads, Popped(t, 1),
         NEW n, n = Len(stack[t]), At(t, n).kind # "function",
         locked' = [locked EXCEPT ![At(t, n).strand] = FALSE], pool' = pool
  PROVE  HoldInv'
<1>1. \A s \in Strands : s # At(t, n).strand => locked'[s] = locked[s]
  BY DEF QueuesOK
<1>2. StackOK'
  BY PoppedStackOK DEF HoldInv
<1>3. OneFrame'
  BY PoppedAt DEF HoldInv, OneFrame
<1>4. PoolOK'
  <2>1. \A j \in 1 .. Len(pool) : pool[j] \in Strands
    BY DEF QueuesOK
  <2>2. \A j \in 1 .. Len(pool) : pool[j] # At(t, n).strand
    BY PoppedHolder
  <2>3. \A j \in 1 .. Len(pool) : locked'[pool[j]] = locked[pool[j]]
    BY <1>1, <2>1, <2>2
  <2>4. QED
    BY <2>3 DEF HoldInv, PoolOK
<1>5. \A u \in Threads : \A i \in 1 .. Len(stack'[u]) :
        At(u, i)'.kind # "function" => locked'[At(u, i)'.strand]
  <2>1. SUFFICES ASSUME NEW u \in Threads, NEW i \in 1 .. Len(stack'[u]),
                        At(u, i)'.kind # "function"
                 PROVE  locked'[At(u, i)'.strand]
    OBVIOUS
  <2>2. /\ At(u, i)'.strand # At(t, n).strand /\ At(u, i)' = At(u, i)
        /\ i \in 1 .. Len(stack[u])
    BY <2>1, PoppedHolder, PoppedAt
  <2>3. locked[At(u, i).strand]
    BY <2>1, <2>2 DEF HoldInv, FramesOK
  <2>4. QED
    BY <2>2, <2>3 DEF QueuesOK
<1>6. FramesOK'
  BY <1>5, PoppedAt DEF HoldInv, FramesOK
<1>7. QED
  BY <1>2, <1>3, <1>4, <1>6 DEF HoldInv

LEMMA SubmitHolder ==
  ASSUME QueuesOK, HoldInv, NEW t \in Threads, Popped(t, 1),
         NEW n, n = Len(stack[t]), At(t, n).kind # "function",
         At(t, n).strand \in Strands,
         pool' = Append(pool, At(t, n).strand), locked' = locked
  PROVE  HoldInv'
<1>1. /\ Len(pool) \in Nat /\ Len(pool') = Len(pool) + 1
      /\ \A j \in 1 .. Len(pool') :
           pool'[j] = IF j = Len(pool) + 1 THEN At(t, n).strand ELSE pool[j]
  BY DEF QueuesOK
<1>2. StackOK'
  BY PoppedStackOK DEF HoldInv
<1>3. OneFrame'
  BY PoppedAt DEF HoldInv, OneFrame
<1>4. PoolOK'
  BY <1>1, PoppedHolder DEF HoldInv, PoolOK
<1>5. FramesOK'
  BY <1>1, PoppedHolder, PoppedAt DEF HoldInv, FramesOK
<1>6. QED
  BY <1>2, <1>3, <1>4, <1>5 DEF HoldInv

LEMMA TakeHolder ==
  ASSUME QueuesOK, HoldInv, NEW t \in Threads, NEW fr, Pushed(t, fr),
         fr.kind # "function", pool # <<>>, fr.strand = Head(pool),
         pool' = Tail(pool), locked' = locked
  PROVE  HoldInv'
<1>1. /\ Len(pool) \in Nat \ {0} /\ pool[1] = fr.strand
      /\ Len(pool') = Len(pool) - 1
      /\ \A j \in 1 .. Len(pool') :
           j + 1 \in 1 .. Len(pool) /\ pool'[j] = pool[j + 1]
  BY DEF QueuesOK
<1>2. 1 \in 1 .. Len(pool)
  BY <1>1
<1>3. /\ locked[fr.strand]
      /\ \A j \in 1 .. Len(pool') : pool'[j] # fr.strand
  BY <1>1, <1>2 DEF HoldInv, PoolOK
<1>4. \A u \in Threads : \A i \in 1 .. Len(stack[u]) :
        At(u, i).kind # "function" => At(u, i).strand # fr.strand
  BY <1>1, <1>2 DEF HoldInv, FramesOK
<1>5. StackOK'
  BY PushedStackOK DEF HoldInv
<1>6. OneFrame'
  BY <1>4, PushedAt DEF HoldInv, OneFrame
<1>7. PoolOK'
  BY <1>1 DEF HoldInv, PoolOK
<1>8. FramesOK'
  BY <1>1, <1>3, PushedAt DEF HoldInv, FramesOK
<1>9. QED
  BY <1>5, <1>6, <1>7, <1>8 DEF HoldInv

\* An exception takes a function and turns the invoker below it.
Unwound(t, fr) ==
  /\ Heights /\ Heights'
  /\ \A u \in Threads : u # t => stack'[u] = stack[u]
  /\ Len(stack[t]) > 1 /\ Len(stack'[t]) = Len(stack[t]) - 1
  /\ \A i \in 1 .. Len(stack'[t]) :
       stack'[t][i] = IF i = Len(stack[t]) - 1 THEN fr ELSE stack[t][i]

LEMMA Unwind ==
  ASSUME HoldInv, NEW t \in Threads, NEW fr, Unwound(t, fr),
         fr.kind # "function", NEW n, n = Len(stack[t]) - 1,
         At(t, n).kind # "function", fr.strand = At(t, n).strand,
         UNCHANGED <<pool, locked>>
  PROVE  HoldInv'
<1>1. /\ n \in 1 .. Len(stack[t]) /\ Heights /\ Heights'
      /\ \A u \in Threads : \A i \in 1 .. Len(stack'[u]) :
           /\ i \in 1 .. Len(stack[u])
           /\ u = t => i =< n
           /\ At(u, i)' = IF u = t /\ i = n THEN fr ELSE At(u, i)
  <2>1. n \in 1 .. Len(stack[t]) /\ Heights /\ Heights'
    BY DEF Unwound, Heights
  <2>2. SUFFICES ASSUME NEW u \in Threads, NEW i \in 1 .. Len(stack'[u])
                 PROVE  /\ i \in 1 .. Len(stack[u])
                        /\ u = t => i =< n
                        /\ At(u, i)' = IF u = t /\ i = n THEN fr ELSE At(u, i)
    BY <2>1
  <2>3. CASE u = t
    BY <2>3 DEF Unwound, Heights, At
  <2>4. CASE u # t
    BY <2>4 DEF Unwound, Heights, At
  <2>5. QED
    BY <2>3, <2>4
<1>2. ASSUME NEW u \in Threads, NEW i \in 1 .. Len(stack'[u]),
             At(u, i)'.kind = "function"
      PROVE  /\ \E j \in 1 .. (i - 1) : /\ At(u, j)'.kind = "invoker"
                                       /\ At(u, j)'.strand = At(u, i)'.strand
             /\ ~At(u, i)'.inline =>
                  /\ i > 1 /\ At(u, i - 1)'.kind = "invoker"
                  /\ At(u, i - 1)'.strand = At(u, i)'.strand
  <2>1. /\ i \in 1 .. Len(stack[u]) /\ At(u, i)' = At(u, i)
        /\ Len(stack[u]) \in Nat /\ Len(stack'[u]) \in Nat
        /\ u = t => i < n
    BY <1>1, <1>2 DEF Heights
  <2>2. \A j \in 1 .. (i - 1) : At(u, j)' = At(u, j)
    BY <1>1, <2>1
  <2>3. QED
    BY <1>2, <2>1, <2>2 DEF HoldInv, StackOK
<1>3. StackOK'
  BY <1>2 DEF StackOK
<1>4. OneFrame'
  BY <1>1 DEF HoldInv, OneFrame
<1>5. PoolOK' /\ FramesOK'
  BY <1>1 DEF HoldInv, PoolOK, FramesOK
<1>6. QED
  BY <1>3, <1>4, <1>5 DEF HoldInv

----------------------------------------------------------------------------
(* The actions *)

Inv == QueuesOK /\ StacksOK /\ HoldInv

LEMMA InitInv == Init => Inv
<1> SUFFICES ASSUME Init PROVE Inv
  OBVIOUS
<1>1. QueuesOK
  <2>1. [r \in Strands |-> <<>>] \in [Strands -> Seq(Funcs)] /\ <<>> \in Seq(Strands)
    OBVIOUS
  <2>2. locked \in [Strands -> BOOLEAN] /\ shutdown \in BOOLEAN
    BY DEF Init
  <2>3. /\ waiting \in [Strands -> Seq(Funcs)] /\ ready \in [Strands -> Seq(Funcs)]
        /\ order \in [Strands -> Seq(Funcs)] /\ pool \in Seq(Strands)
        /\ fresh \in SUBSET Funcs /\ finished \in SUBSET Funcs
    BY <2>1, Zenon DEF Init
  <2>4. QED
    BY <2>2, <2>3 DEF QueuesOK
<1>2. stack \in [Threads -> Seq(Frames)] /\ \A t \in Threads : Len(stack[t]) = 0
  BY DEF Init
<1>3. \A t \in Threads : \A i \in 1 .. Len(stack[t]) : FALSE
  BY <1>2
<1>4. StacksOK /\ StackOK /\ OneFrame /\ FramesOK
  BY <1>2, <1>3 DEF StacksOK, StackOK, OneFrame, FramesOK
<1>5. PoolOK
  BY DEF Init, PoolOK
<1>6. QED
  BY <1>1, <1>4, <1>5 DEF Inv, HoldInv

\* The frame on top, which an action looks at.
LEMMA OnTop ==
  ASSUME Inv, NEW t \in Threads, NEW kind, TopIs(t, kind)
  PROVE  /\ TypeOK /\ stack[t] # <<>> /\ Len(stack[t]) \in 1 .. Len(stack[t])
         /\ Top(t) = At(t, Len(stack[t])) /\ Top(t) \in Frames
         /\ Top(t).kind = kind /\ Top(t).strand \in Strands
         /\ Top(t).inline \in BOOLEAN /\ HasFunc(Top(t))
         /\ Top(t).func \in Funcs \cup {NoFunc}
<1>1. TypeOK /\ stack[t] # <<>> /\ Top(t).kind = kind
  BY TypeParts DEF Inv, TopIs
<1>2. /\ Top(t) = At(t, Len(stack[t])) /\ Top(t) \in Frames
      /\ Len(stack[t]) \in 1 .. Len(stack[t])
  BY <1>1, TopFacts
<1>3. HasFunc(Top(t))
  BY <1>2 DEF Inv, StacksOK
<1>4. QED
  BY <1>1, <1>2, <1>3 DEF Frames

LEMMA SameStacks ==
  ASSUME UNCHANGED <<stack, pool, locked>>
  PROVE  /\ StacksOK => StacksOK'
         /\ HoldInv => HoldInv'
<1>1. StacksOK => StacksOK'
  BY DEF StacksOK, HasFunc, At
<1>2. StackOK => StackOK'
  BY DEF StackOK, At
<1>3. OneFrame => OneFrame'
  BY DEF OneFrame, At
<1>4. (PoolOK => PoolOK') /\ (FramesOK => FramesOK')
  BY DEF PoolOK, FramesOK, At
<1>5. QED
  BY <1>1, <1>2, <1>3, <1>4 DEF HoldInv

LEMMA RunInlineInv ==
  ASSUME Inv, NEW t \in Threads, NEW s \in Strands, NEW f \in Funcs,
         RunInline(t, s, f)
  PROVE  Inv'
<1> DEFINE fr == Frame("function", s, f, TRUE)
<1>1. fr \in Frames /\ fr.kind = "function" /\ fr.strand = s /\ fr.func = f /\ fr.inline = TRUE
  BY DEF Frame, Frames
<1> HIDE DEF fr
<1>2. Pushed(t, fr)
  BY <1>1, TypeParts, PushFacts DEF Inv, RunInline, fr
<1>3. \E j \in 1 .. Len(stack[t]) : At(t, j).kind = "invoker" /\ At(t, j).strand = s
  BY DEF RunInline, RunningInThisThread, At, Inv, StacksOK
<1>4. HoldInv'
  BY <1>1, <1>2, <1>3, PushFunction DEF Inv, RunInline
<1>5. QueuesOK'
  BY DEF Inv, QueuesOK, RunInline
<1>6. StacksOK'
  BY <1>1, <1>2, PushedStacks, StrandAssumption DEF Inv, HasFunc
<1>7. QED
  BY <1>4, <1>5, <1>6 DEF Inv

LEMMA EnqueueInv ==
  ASSUME Inv, NEW t \in Threads, NEW s \in Strands, NEW f \in Funcs,
         NEW mayBlock \in BOOLEAN, Enqueue(t, s, f, mayBlock)
  PROVE  Inv'
<1>1. QueuesOK'
  <2>1. /\ locked' \in [Strands -> BOOLEAN] /\ shutdown' \in BOOLEAN
        /\ fresh' \in SUBSET Funcs /\ finished' \in SUBSET Funcs
        /\ pool' \in Seq(Strands) /\ ready' \in [Strands -> Seq(Funcs)]
    BY DEF Inv, QueuesOK, Enqueue
  <2>2. Append(waiting[s], f) \in Seq(Funcs) /\ Append(order[s], f) \in Seq(Funcs)
    BY DEF Inv, QueuesOK
  <2>3. /\ \/ waiting' = waiting
           \/ waiting' = [waiting EXCEPT ![s] = Append(waiting[s], f)]
        /\ order' = order \/ order' = [order EXCEPT ![s] = Append(order[s], f)]
    BY DEF Enqueue
  <2>4. waiting' \in [Strands -> Seq(Funcs)] /\ order' \in [Strands -> Seq(Funcs)]
    BY <2>2, <2>3 DEF Inv, QueuesOK
  <2>5. QED
    BY <2>1, <2>4 DEF QueuesOK
<1>2. CASE ~shutdown /\ ~locked[s]
  <2> DEFINE fr == Frame("acquired", s, f, mayBlock)
  <2>1. fr \in Frames /\ fr.kind = "acquired" /\ fr.strand = s /\ fr.func = f
    BY DEF Frame, Frames
  <2> HIDE DEF fr
  <2>2. Pushed(t, fr)
    BY <1>2, <2>1, TypeParts, PushFacts DEF Inv, Enqueue, TakesStrand, fr
  <2>3. locked' = [locked EXCEPT ![s] = TRUE] /\ pool' = pool
    BY <1>2 DEF Enqueue, TakesStrand
  <2>4. HoldInv'
    BY <1>2, <2>1, <2>2, <2>3, PushHolder DEF Inv
  <2>5. StacksOK'
    BY <2>1, <2>2, PushedStacks, StrandAssumption DEF Inv, HasFunc
  <2>6. QED
    BY <1>1, <2>4, <2>5 DEF Inv
<1>3. CASE shutdown \/ locked[s]
  <2>1. UNCHANGED <<locked, pool, stack>>
    BY <1>3 DEF Enqueue, TakesStrand
  <2>2. StacksOK' /\ HoldInv'
    BY <2>1, SameStacks DEF Inv
  <2>3. QED
    BY <1>1, <2>2 DEF Inv
<1>4. QED
  BY <1>2, <1>3 DEF Inv, QueuesOK

LEMMA PushReadyInv ==
  ASSUME Inv, NEW t \in Threads, PushReady(t)
  PROVE  Inv'
<1> DEFINE fr == Frame("schedule", Top(t).strand, NoFunc, Top(t).inline)
<1>1. TopIs(t, "acquired")
  BY DEF PushReady
<1>2. Top(t).func \in Funcs
  BY <1>1, OnTop DEF HasFunc
<1>3. fr \in Frames /\ fr.kind = "schedule" /\ fr.strand = Top(t).strand
  BY <1>1, OnTop DEF Frame, Frames
<1> HIDE DEF fr
<1>4. Changed(t, fr)
  BY <1>1, <1>3, OnTop, BecomeChanges DEF PushReady, fr
<1>5. HoldInv'
  BY <1>1, <1>3, <1>4, OnTop, ChangeHolder DEF Inv, PushReady
<1>6. ready' \in [Strands -> Seq(Funcs)]
  BY <1>1, <1>2, OnTop DEF PushReady, Inv, QueuesOK
<1>7. QueuesOK'
  BY <1>6 DEF Inv, QueuesOK, PushReady
<1>8. StacksOK'
  BY <1>3, <1>4, ChangedStacks DEF Inv, HasFunc
<1>9. QED
  BY <1>5, <1>7, <1>8 DEF Inv

LEMMA ScheduleInv ==
  ASSUME Inv, NEW t \in Threads, Schedule(t)
  PROVE  Inv'
<1>1. TopIs(t, "schedule")
  BY DEF Schedule
<1>2. CASE Top(t).inline /\ t \in Workers
  <2> DEFINE fr == Frame("invoker", Top(t).strand, NoFunc, FALSE)
  <2>1. fr \in Frames /\ fr.kind = "invoker" /\ fr.strand = Top(t).strand
    BY <1>1, OnTop DEF Frame, Frames
  <2> HIDE DEF fr
  <2>2. Changed(t, fr) /\ UNCHANGED <<pool, locked>>
    BY <1>1, <1>2, <2>1, OnTop, BecomeChanges DEF Schedule, fr
  <2>3. HoldInv'
    BY <1>1, <2>1, <2>2, OnTop, ChangeHolder DEF Inv
  <2>4. StacksOK'
    BY <2>1, <2>2, ChangedStacks DEF Inv, HasFunc
  <2>5. QueuesOK'
    BY <1>2 DEF Inv, QueuesOK, Schedule
  <2>6. QED
    BY <2>3, <2>4, <2>5 DEF Inv
<1>3. CASE ~(Top(t).inline /\ t \in Workers)
  <2>1. Pop(t) /\ pool' = Append(pool, Top(t).strand) /\ locked' = locked
    BY <1>3 DEF Schedule
  <2>2. Popped(t, 1)
    BY <1>1, <2>1, OnTop, PopFacts
  <2>3. HoldInv'
    BY <1>1, <2>1, <2>2, OnTop, SubmitHolder DEF Inv
  <2>4. QueuesOK'
    BY <1>1, <2>1, OnTop DEF Inv, QueuesOK, Schedule
  <2>5. QED
    BY <2>2, <2>3, <2>4, PoppedStacks DEF Inv
<1>4. QED
  BY <1>2, <1>3

LEMMA RunInvokerInv ==
  ASSUME Inv, NEW t \in Threads, RunInvoker(t)
  PROVE  Inv'
<1> DEFINE fr == Frame("invoker", Head(pool), NoFunc, FALSE)
<1>1. pool # <<>> /\ Head(pool) \in Strands /\ Tail(pool) \in Seq(Strands)
  BY DEF RunInvoker, Inv, QueuesOK
<1>2. fr \in Frames /\ fr.kind = "invoker" /\ fr.strand = Head(pool)
  BY <1>1 DEF Frame, Frames
<1> HIDE DEF fr
<1>3. Pushed(t, fr)
  BY <1>2, TypeParts, PushFacts DEF Inv, RunInvoker, fr
<1>4. HoldInv'
  BY <1>1, <1>2, <1>3, TakeHolder DEF Inv, RunInvoker
<1>5. QueuesOK'
  BY <1>1 DEF Inv, QueuesOK, RunInvoker
<1>6. StacksOK'
  BY <1>2, <1>3, PushedStacks DEF Inv, HasFunc
<1>7. QED
  BY <1>4, <1>5, <1>6 DEF Inv

LEMMA RunNextInv ==
  ASSUME Inv, NEW t \in Threads, RunNext(t)
  PROVE  Inv'
<1> DEFINE s == Top(t).strand
           fr == Frame("function", s, Head(ready[s]), FALSE)
<1>1. TopIs(t, "invoker") /\ ready[s] # <<>>
  BY DEF RunNext
<1>2. /\ s \in Strands /\ Head(ready[s]) \in Funcs
      /\ Tail(ready[s]) \in Seq(Funcs)
  BY <1>1, OnTop DEF Inv, QueuesOK
<1>3. /\ fr \in Frames /\ fr.kind = "function" /\ fr.strand = s
      /\ fr.func \in Funcs /\ fr.inline = FALSE
  BY <1>2 DEF Frame, Frames
<1>4. Push(t, fr) /\ ready' = [ready EXCEPT ![s] = Tail(ready[s])]
  BY DEF RunNext
<1> HIDE DEF fr
<1>5. Pushed(t, fr)
  BY <1>3, <1>4, TypeParts, PushFacts DEF Inv
<1>6. /\ Len(stack[t]) \in 1 .. Len(stack[t])
      /\ At(t, Len(stack[t])).kind = "invoker"
      /\ At(t, Len(stack[t])).strand = s
  BY <1>1, OnTop
<1>7. HoldInv'
  <2>1. \A j \in 1 .. Len(stack[t]) :
          ~fr.inline /\ j = Len(stack[t]) =>
            At(t, j).kind = "invoker" /\ At(t, j).strand = fr.strand
    BY <1>3, <1>6
  <2>2. \E j \in 1 .. Len(stack[t]) :
          At(t, j).kind = "invoker" /\ At(t, j).strand = fr.strand
    BY <1>3, <1>6
  <2>3. UNCHANGED <<pool, locked>>
    BY DEF RunNext
  <2>4. QED
    BY <1>3, <1>5, <2>1, <2>2, <2>3, PushFunction DEF Inv
<1>8. QueuesOK'
  <2>1. ready' \in [Strands -> Seq(Funcs)]
    BY <1>2, <1>4 DEF Inv, QueuesOK
  <2>2. QED
    BY <2>1 DEF Inv, QueuesOK, RunNext
<1>9. StacksOK'
  BY <1>3, <1>5, PushedStacks, StrandAssumption DEF Inv, HasFunc
<1>10. QED
  BY <1>7, <1>8, <1>9 DEF Inv

LEMMA ReturnInv ==
  ASSUME Inv, NEW t \in Threads, TopIs(t, "function"), Pop(t),
         finished' = finished \cup {Top(t).func},
         UNCHANGED <<locked, shutdown, waiting, ready, pool, fresh, order>>
  PROVE  Inv'
<1>1. Popped(t, 1)
  BY OnTop, PopFacts
<1>2. Top(t).func \in Funcs
  BY OnTop DEF HasFunc
<1>3. QueuesOK'
  BY <1>2 DEF Inv, QueuesOK
<1>4. QED
  BY <1>1, <1>3, PopFunction, PoppedStacks DEF Inv

\* The stack after an exception in a function that was not dispatched.
LEMMA UnwoundFacts ==
  ASSUME Inv, NEW t \in Threads, TopIs(t, "function"), ~Top(t).inline,
         NEW below, below = Front(stack[t]),
         NEW fr, fr = Frame("exit", Top(t).strand, NoFunc, FALSE),
         stack' = [stack EXCEPT ![t] = Append(Front(below), fr)]
  PROVE  /\ Unwound(t, fr) /\ stack' \in [Threads -> Seq(Frames)]
         /\ fr.kind = "exit" /\ fr.strand = At(t, Len(stack[t]) - 1).strand
         /\ At(t, Len(stack[t]) - 1).kind = "invoker"
<1>1. /\ stack[t] \in Seq(Frames) /\ Len(stack[t]) \in Nat /\ stack[t] # <<>>
      /\ stack \in [Threads -> Seq(Frames)]
  BY OnTop DEF TypeOK
<1>2. Len(stack[t]) > 1 /\ At(t, Len(stack[t]) - 1).kind = "invoker"
  BY OnTop DEF Inv, HoldInv, StackOK
<1>3. /\ below \in Seq(Frames) /\ Len(below) = Len(stack[t]) - 1
      /\ \A i \in 1 .. (Len(stack[t]) - 1) : below[i] = stack[t][i]
  BY <1>1, FrontFacts
<1>4. At(t, Len(stack[t]) - 1).strand = Top(t).strand
  BY OnTop DEF Inv, HoldInv, StackOK
<1>5. fr \in Frames /\ fr.kind = "exit" /\ fr.strand = Top(t).strand
  BY OnTop DEF Frame, Frames
<1>6. below # <<>>
  BY <1>1, <1>2, <1>3
<1>7. /\ Append(Front(below), fr) \in Seq(Frames)
      /\ Len(Append(Front(below), fr)) = Len(below)
      /\ Append(Front(below), fr)[Len(below)] = fr
      /\ \A i \in 1 .. (Len(below) - 1) : Append(Front(below), fr)[i] = below[i]
  <2>1. \A q \in Seq(Frames), e \in Frames : q # <<>> =>
          /\ Append(Front(q), e) \in Seq(Frames)
          /\ Len(Append(Front(q), e)) = Len(q)
          /\ Append(Front(q), e)[Len(q)] = e
          /\ \A i \in 1 .. (Len(q) - 1) : Append(Front(q), e)[i] = q[i]
    BY BecomeFacts
  <2>2. QED
    BY <1>3, <1>5, <1>6, <2>1, Zenon
<1>8. /\ stack' \in [Threads -> Seq(Frames)]
      /\ stack'[t] = Append(Front(below), fr)
      /\ \A u \in Threads : u # t => stack'[u] = stack[u]
  BY <1>1, <1>7
<1>9. \A i \in 1 .. Len(stack'[t]) :
        stack'[t][i] = IF i = Len(stack[t]) - 1 THEN fr ELSE stack[t][i]
  <2>1. TAKE i \in 1 .. Len(stack'[t])
  <2>2. i \in 1 .. (Len(stack[t]) - 1)
    BY <1>3, <1>7, <1>8
  <2>3. CASE i = Len(stack[t]) - 1
    BY <1>3, <1>7, <1>8, <2>3
  <2>4. CASE i # Len(stack[t]) - 1
    <3>1. i \in 1 .. (Len(below) - 1)
      BY <1>1, <1>3, <2>2, <2>4
    <3>2. QED
      BY <1>3, <1>7, <1>8, <2>2, <2>4, <3>1
  <2>5. QED
    BY <2>3, <2>4
<1>10. Heights /\ Heights'
  BY <1>1, <1>8, HeightsType DEF Heights
<1>11. QED
  BY <1>2, <1>3, <1>4, <1>5, <1>7, <1>8, <1>9, <1>10 DEF Unwound

LEMMA ThrowInv ==
  ASSUME Inv, NEW t \in Threads, Throw(t)
  PROVE  Inv'
<1>1. /\ TopIs(t, "function") /\ finished' = finished \cup {Top(t).func}
      /\ UNCHANGED <<locked, shutdown, waiting, ready, pool, fresh, order>>
  BY DEF Throw
<1>2. CASE Top(t).inline
  BY <1>1, <1>2, ReturnInv DEF Throw
<1>3. CASE ~Top(t).inline
  <2> DEFINE below == Front(stack[t])
             fr == Frame("exit", Top(t).strand, NoFunc, FALSE)
             n == Len(stack[t]) - 1
  <2>1. stack' = [stack EXCEPT ![t] = Append(Front(below), fr)]
    BY <1>3 DEF Throw
  <2> HIDE DEF below, fr, n
  <2>2. below = Front(stack[t]) /\ fr = Frame("exit", Top(t).strand, NoFunc, FALSE)
        /\ n = Len(stack[t]) - 1
    BY DEF below, fr, n
  <2>3. /\ Unwound(t, fr) /\ stack' \in [Threads -> Seq(Frames)]
        /\ fr.kind = "exit" /\ fr.strand = At(t, n).strand
        /\ At(t, n).kind = "invoker"
    BY <1>1, <1>3, <2>1, <2>2, UnwoundFacts
  <2>4. HoldInv'
    BY <1>1, <2>2, <2>3, Unwind DEF Inv
  <2>5. StacksOK'
    <3>1. ASSUME NEW u \in Threads, NEW i \in 1 .. Len(stack'[u])
          PROVE  \/ At(u, i)' = fr
                 \/ i \in 1 .. Len(stack[u]) /\ At(u, i)' = At(u, i)
      BY <2>3 DEF Unwound, Heights, At
    <3>2. ASSUME NEW u \in Threads, NEW i \in 1 .. Len(stack'[u])
          PROVE  HasFunc(At(u, i)')
      BY <2>3, <3>1 DEF Inv, StacksOK, HasFunc
    <3>3. QED
      BY <2>3, <3>2 DEF StacksOK, HasFunc
  <2>6. QueuesOK'
    <3>1. Top(t).func \in Funcs
      BY <1>1, OnTop DEF HasFunc
    <3>2. QED
      BY <1>1, <3>1 DEF Inv, QueuesOK
  <2>7. QED
    BY <2>4, <2>5, <2>6 DEF Inv
<1>4. QED
  BY <1>2, <1>3

LEMMA ExitInv ==
  ASSUME Inv, NEW t \in Threads, Exit(t)
  PROVE  Inv'
<1> DEFINE s == Top(t).strand
           n == Len(stack[t])
<1>1. PICK kind \in {"exit", "invoker"} : TopIs(t, kind)
  BY DEF Exit
<1>2. /\ ready' = [ready EXCEPT ![s] = Merged(s)]
      /\ waiting' = [waiting EXCEPT ![s] = <<>>]
      /\ locked' = [locked EXCEPT ![s] = MoreToDo(s)]
      /\ IF MoreToDo(s) THEN Become(t, Frame("again", s, NoFunc, FALSE)) ELSE Pop(t)
      /\ UNCHANGED <<shutdown, pool, fresh, finished, order>>
  BY DEF Exit
<1>3. /\ s \in Strands /\ s = At(t, n).strand /\ At(t, n).kind # "function"
      /\ n \in 1 .. Len(stack[t]) /\ stack[t] # <<>> /\ TypeOK
  BY <1>1, OnTop
<1> HIDE DEF s, n
<1>4. QueuesOK'
  <2>1. Merged(s) \in Seq(Funcs) /\ <<>> \in Seq(Funcs) /\ MoreToDo(s) \in BOOLEAN
    BY <1>3 DEF Merged, MoreToDo, Inv, QueuesOK
  <2>2. /\ ready' \in [Strands -> Seq(Funcs)] /\ waiting' \in [Strands -> Seq(Funcs)]
        /\ locked' \in [Strands -> BOOLEAN]
    BY <1>2, <2>1 DEF Inv, QueuesOK
  <2>3. QED
    BY <1>2, <2>2 DEF Inv, QueuesOK
<1>5. CASE MoreToDo(s)
  <2> DEFINE fr == Frame("again", s, NoFunc, FALSE)
  <2>1. fr \in Frames /\ fr.kind = "again" /\ fr.strand = s
    BY <1>3 DEF Frame, Frames
  <2> HIDE DEF fr
  <2>2. Changed(t, fr)
    BY <1>2, <1>3, <1>5, <2>1, BecomeChanges DEF fr
  <2>3. locked' = locked
    <3>1. locked[s] = TRUE
      BY <1>3 DEF Inv, HoldInv, FramesOK, QueuesOK
    <3>2. MoreToDo(s) = TRUE
      BY <1>5 DEF MoreToDo
    <3>3. QED
      BY <1>2, <1>3, <3>1, <3>2 DEF Inv, QueuesOK
  <2>4. HoldInv'
    BY <1>2, <1>3, <2>1, <2>2, <2>3, ChangeHolder DEF Inv, n
  <2>5. StacksOK'
    BY <2>1, <2>2, ChangedStacks DEF Inv, HasFunc
  <2>6. QED
    BY <1>4, <2>4, <2>5 DEF Inv
<1>6. CASE ~MoreToDo(s)
  <2>1. Popped(t, 1)
    BY <1>2, <1>3, <1>6, PopFacts
  <2>2. MoreToDo(s) = FALSE
    BY <1>6 DEF MoreToDo
  <2>3. locked' = [locked EXCEPT ![At(t, n).strand] = FALSE]
    BY <1>2, <1>3, <2>2
  <2>4. HoldInv'
    BY <1>2, <1>3, <2>1, <2>3, ReleaseHolder DEF Inv, n
  <2>5. QED
    BY <1>4, <2>1, <2>4, PoppedStacks DEF Inv
<1>7. QED
  BY <1>5, <1>6

LEMMA AgainInv ==
  ASSUME Inv, NEW t \in Threads, Again(t)
  PROVE  Inv'
<1>1. TopIs(t, "again")
  BY DEF Again
<1>2. Popped(t, 1)
  BY <1>1, OnTop, PopFacts DEF Again
<1>3. HoldInv'
  BY <1>1, <1>2, OnTop, SubmitHolder DEF Inv, Again
<1>4. QueuesOK'
  BY <1>1, OnTop DEF Inv, QueuesOK, Again
<1>5. QED
  BY <1>2, <1>3, <1>4, PoppedStacks DEF Inv

LEMMA ShutdownInv ==
  ASSUME Inv, Shutdown
  PROVE  Inv'
<1>1. \A t \in Threads : stack'[t] = <<>> /\ Len(stack'[t]) = 0
  BY DEF Shutdown, Inv, StacksOK
<1>2. stack' \in [Threads -> Seq(Frames)] /\ pool' = <<>> /\ Len(pool') = 0
  BY DEF Shutdown, Inv, StacksOK
<1>3. \A t \in Threads : \A i \in 1 .. Len(stack'[t]) : FALSE
  BY <1>1
<1>4. StacksOK' /\ StackOK' /\ OneFrame' /\ FramesOK'
  BY <1>2, <1>3 DEF StacksOK, StackOK, OneFrame, FramesOK
<1>5. PoolOK'
  BY <1>2 DEF PoolOK
<1>6. QueuesOK'
  <2>1. \A r \in Strands : ToSet(ready[r]) \cup ToSet(waiting[r]) \subseteq Funcs
    BY DEF Inv, QueuesOK, ToSet
  <2>2. finished' \in SUBSET Funcs
    BY <2>1 DEF Shutdown, Inv, QueuesOK
  <2>3. [r \in Strands |-> <<>>] \in [Strands -> Seq(Funcs)] /\ <<>> \in Seq(Strands)
    OBVIOUS
  <2>4. ready' \in [Strands -> Seq(Funcs)] /\ waiting' \in [Strands -> Seq(Funcs)]
        /\ pool' \in Seq(Strands)
    BY <2>3, Zenon DEF Shutdown
  <2>5. QED
    BY <2>2, <2>4 DEF Shutdown, Inv, QueuesOK
<1>7. QED
  BY <1>4, <1>5, <1>6 DEF Inv, HoldInv

LEMMA NextInv == Inv /\ [Next]_vars => Inv'
<1> SUFFICES ASSUME Inv, [Next]_vars PROVE Inv'
  OBVIOUS
<1>1. CASE UNCHANGED vars
  <2>1. QueuesOK' /\ UNCHANGED <<stack, pool, locked>>
    BY <1>1 DEF vars, Inv, QueuesOK
  <2>2. QED
    BY <2>1, SameStacks DEF Inv
<1>2. ASSUME NEW t \in Threads, Advance(t) PROVE Inv'
  <2>1. CASE Return(t)
    BY <2>1, ReturnInv DEF Return
  <2>2. QED
    BY <1>2, <2>1, PushReadyInv, ScheduleInv, RunInvokerInv, RunNextInv,
       ThrowInv, ExitInv, AgainInv DEF Advance
<1>3. ASSUME NEW t \in Threads, NEW s \in Strands, Submit(t, s) PROVE Inv'
  <2>1. NextFunc \in Funcs
    BY <1>3 DEF Submit, NextFunc, Inv, QueuesOK
  <2>2. QED
    BY <1>3, <2>1, RunInlineInv, EnqueueInv DEF Submit
<1>4. QED
  BY <1>1, <1>2, <1>3, ShutdownInv DEF Next

----------------------------------------------------------------------------
(* Theorems *)

LEMMA SpecInv == Spec => []Inv
BY InitInv, NextInv, PTL DEF Spec

\* A function runs above an invoker of its strand, and a strand has one.
LEMMA HeldByOne == Inv => NonConcurrent
<1> SUFFICES ASSUME Inv, NEW s \in Strands, NEW t \in Threads, NEW u \in Threads,
                    RunningIn(t, s), RunningIn(u, s)
             PROVE  t = u
  BY DEF NonConcurrent
<1>1. ASSUME NEW v \in Threads, RunningIn(v, s)
      PROVE  \E i \in 1 .. Len(stack[v]) :
               At(v, i).kind # "function" /\ At(v, i).strand = s
  <2>1. Len(stack[v]) \in Nat /\ DOMAIN stack[v] = 1 .. Len(stack[v])
    BY DEF Inv, StacksOK
  <2>2. PICK i \in 1 .. Len(stack[v]) :
          At(v, i).kind = "function" /\ At(v, i).strand = s
    BY <1>1, <2>1 DEF RunningIn, At
  <2>3. PICK j \in 1 .. (i - 1) : At(v, j).kind = "invoker" /\ At(v, j).strand = s
    BY <2>2 DEF Inv, HoldInv, StackOK
  <2>4. QED
    BY <2>1, <2>2, <2>3
<1>2. PICK i \in 1 .. Len(stack[t]) :
        At(t, i).kind # "function" /\ At(t, i).strand = s
  BY <1>1
<1>3. PICK j \in 1 .. Len(stack[u]) :
        At(u, j).kind # "function" /\ At(u, j).strand = s
  BY <1>1
<1>4. QED
  BY <1>2, <1>3 DEF Inv, HoldInv, OneFrame

\* Every variable of the strand service keeps its type.
THEOREM StrandTypeOK == Spec => []TypeOK
<1>1. Inv => TypeOK
  BY TypeParts DEF Inv
<1>2. QED
  BY <1>1, SpecInv, PTL

\* Functions of one strand never run on two threads at a time, however many
\* threads submit and run them, and however calls nest and functions throw.
THEOREM NonConcurrentAlways == Spec => []NonConcurrent
BY HeldByOne, SpecInv, PTL

----------------------------------------------------------------------------
(* The strand service implements Strand *)

\* A thread has a frame of that kind, of that strand and with that function.
Has(t, kind, s, f) ==
  \E i \in 1 .. Len(stack[t]) :
    At(t, i).kind = kind /\ At(t, i).strand = s /\ At(t, i).func = f

\* Only functions and invokers have something above them, an invoker the
\* function that it runs.
NestOK ==
  \A t \in Threads : \A i \in 1 .. (Len(stack[t]) - 1) :
    /\ At(t, i).kind \in {"invoker", "function"}
    /\ At(t, i).kind = "invoker" => /\ At(t, i + 1).kind = "function"
                                    /\ At(t, i + 1).strand = At(t, i).strand

\* Nothing waits for a strand that is free, and nothing is ready while the
\* thread that took the strand has not pushed its function.
HeadOK ==
  \A s \in Strands :
    /\ ~locked[s] => ready[s] = <<>> /\ waiting[s] = <<>>
    /\ \A t \in Threads, f \in Funcs : Has(t, "acquired", s, f) => ready[s] = <<>>

\* What is not submitted is nowhere else.
FreshOK ==
  \A f \in fresh :
    /\ f \notin finished
    /\ \A s \in Strands :
         /\ \A t \in Threads :
              ~Has(t, "acquired", s, f) /\ ~Has(t, "function", s, f)
         /\ \A i \in 1 .. Len(ready[s]) : ready[s][i] # f
         /\ \A i \in 1 .. Len(waiting[s]) : waiting[s][i] # f

\* A function of a strand runs in one frame.
OnceOK ==
  \A t, u \in Threads :
    \A i \in 1 .. Len(stack[t]), j \in 1 .. Len(stack[u]) :
      /\ At(t, i).kind = "function" /\ At(u, j).kind = "function"
      /\ At(t, i).strand = At(u, j).strand /\ At(t, i).func = At(u, j).func
      => t = u /\ i = j

RunInv == Inv /\ NestOK /\ HeadOK /\ FreshOK /\ OnceOK

\* What becomes of the frames.
LEMMA PushedHas ==
  ASSUME NEW t \in Threads, NEW fr, Pushed(t, fr)
  PROVE  \A u \in Threads : \A kind, s, f :
           Has(u, kind, s, f)' <=>
             \/ Has(u, kind, s, f)
             \/ u = t /\ fr.kind = kind /\ fr.strand = s /\ fr.func = f
<1> SUFFICES ASSUME NEW u \in Threads, NEW kind, NEW s, NEW f
             PROVE  Has(u, kind, s, f)' <=>
                      \/ Has(u, kind, s, f)
                      \/ u = t /\ fr.kind = kind /\ fr.strand = s /\ fr.func = f
  OBVIOUS
<1>1. Has(u, kind, s, f) => Has(u, kind, s, f)'
  BY PushedAt DEF Has
<1>2. Has(u, kind, s, f)' => \/ Has(u, kind, s, f)
                             \/ u = t /\ fr.kind = kind /\ fr.strand = s /\ fr.func = f
  BY PushedAt DEF Has
<1>3. ASSUME u = t, fr.kind = kind, fr.strand = s, fr.func = f
      PROVE  Has(u, kind, s, f)'
  <2>1. PICK n \in 1 .. Len(stack'[t]) : stack'[t][n] = fr
    BY DEF Pushed, Heights
  <2>2. QED
    BY <1>3, <2>1 DEF Has, At
<1>4. QED
  BY <1>1, <1>2, <1>3

LEMMA PoppedHas ==
  ASSUME NEW t \in Threads, Popped(t, 1)
  PROVE  \A u \in Threads : \A kind, s, f :
           /\ Has(u, kind, s, f)' => Has(u, kind, s, f)
           /\ Has(u, kind, s, f) =>
                \/ Has(u, kind, s, f)'
                \/ /\ u = t /\ At(t, Len(stack[t])).kind = kind
                   /\ At(t, Len(stack[t])).strand = s
                   /\ At(t, Len(stack[t])).func = f
<1>1. \A u \in Threads : \A i \in 1 .. Len(stack[u]) :
        \/ i \in 1 .. Len(stack'[u]) /\ At(u, i)' = At(u, i)
        \/ u = t /\ i = Len(stack[t])
  <2>1. SUFFICES ASSUME NEW u \in Threads, NEW i \in 1 .. Len(stack[u])
                 PROVE  \/ i \in 1 .. Len(stack'[u]) /\ At(u, i)' = At(u, i)
                        \/ u = t /\ i = Len(stack[t])
    OBVIOUS
  <2>2. CASE u = t
    BY <2>2 DEF Popped, Heights, At
  <2>3. CASE u # t
    BY <2>3 DEF Popped, Heights, At
  <2>4. QED
    BY <2>2, <2>3
<1>2. SUFFICES ASSUME NEW u \in Threads, NEW kind, NEW s, NEW f
               PROVE  /\ Has(u, kind, s, f)' => Has(u, kind, s, f)
                      /\ Has(u, kind, s, f) =>
                           \/ Has(u, kind, s, f)'
                           \/ /\ u = t /\ At(t, Len(stack[t])).kind = kind
                              /\ At(t, Len(stack[t])).strand = s
                              /\ At(t, Len(stack[t])).func = f
  OBVIOUS
<1>3. Has(u, kind, s, f)' => Has(u, kind, s, f)
  BY PoppedAt DEF Has
<1>4. ASSUME Has(u, kind, s, f), ~Has(u, kind, s, f)'
      PROVE  /\ u = t /\ At(t, Len(stack[t])).kind = kind
             /\ At(t, Len(stack[t])).strand = s /\ At(t, Len(stack[t])).func = f
  BY <1>1, <1>4 DEF Has
<1>5. QED
  BY <1>3, <1>4

LEMMA ChangedHas ==
  ASSUME NEW t \in Threads, NEW fr, Changed(t, fr)
  PROVE  \A u \in Threads : \A kind, s, f :
           /\ Has(u, kind, s, f)' =>
                \/ Has(u, kind, s, f)
                \/ u = t /\ fr.kind = kind /\ fr.strand = s /\ fr.func = f
           /\ Has(u, kind, s, f) =>
                \/ Has(u, kind, s, f)'
                \/ /\ u = t /\ At(t, Len(stack[t])).kind = kind
                   /\ At(t, Len(stack[t])).strand = s
                   /\ At(t, Len(stack[t])).func = f
<1>1. SUFFICES ASSUME NEW u \in Threads, NEW kind, NEW s, NEW f
               PROVE  /\ Has(u, kind, s, f)' =>
                           \/ Has(u, kind, s, f)
                           \/ /\ u = t /\ fr.kind = kind
                              /\ fr.strand = s /\ fr.func = f
                      /\ Has(u, kind, s, f) =>
                           \/ Has(u, kind, s, f)'
                           \/ /\ u = t /\ At(t, Len(stack[t])).kind = kind
                              /\ At(t, Len(stack[t])).strand = s
                              /\ At(t, Len(stack[t])).func = f
  OBVIOUS
<1>2. /\ \A i \in 1 .. Len(stack[u]) :
           At(u, i)' = IF u = t /\ i = Len(stack[t]) THEN fr ELSE At(u, i)
      /\ Len(stack'[u]) = Len(stack[u])
  BY ChangedAt
<1>3. ASSUME Has(u, kind, s, f)', ~Has(u, kind, s, f)
      PROVE  u = t /\ fr.kind = kind /\ fr.strand = s /\ fr.func = f
  BY <1>2, <1>3 DEF Has
<1>4. ASSUME Has(u, kind, s, f), ~Has(u, kind, s, f)'
      PROVE  /\ u = t /\ At(t, Len(stack[t])).kind = kind
             /\ At(t, Len(stack[t])).strand = s /\ At(t, Len(stack[t])).func = f
  BY <1>2, <1>4 DEF Has
<1>5. QED
  BY <1>3, <1>4

\* A function was on top, and an invoker that becomes fr below it.
LEMMA UnwoundHas ==
  ASSUME NEW t \in Threads, NEW fr, Unwound(t, fr), fr.kind = "exit",
         At(t, Len(stack[t]) - 1).kind = "invoker"
  PROVE  \A u \in Threads, kind \in {"function", "acquired"} : \A s, f :
           /\ Has(u, kind, s, f)' => Has(u, kind, s, f)
           /\ Has(u, kind, s, f) =>
                \/ Has(u, kind, s, f)'
                \/ /\ u = t /\ At(t, Len(stack[t])).kind = kind
                   /\ At(t, Len(stack[t])).strand = s
                   /\ At(t, Len(stack[t])).func = f
<1>1. SUFFICES ASSUME NEW u \in Threads, NEW kind \in {"function", "acquired"},
                      NEW s, NEW f
               PROVE  /\ Has(u, kind, s, f)' => Has(u, kind, s, f)
                      /\ Has(u, kind, s, f) =>
                           \/ Has(u, kind, s, f)'
                           \/ /\ u = t /\ At(t, Len(stack[t])).kind = kind
                              /\ At(t, Len(stack[t])).strand = s
                              /\ At(t, Len(stack[t])).func = f
  OBVIOUS
<1>2. CASE u = t
  <2>1. /\ Len(stack[t]) \in Nat /\ Len(stack[t]) > 1
        /\ Len(stack'[t]) = Len(stack[t]) - 1
        /\ \A i \in 1 .. (Len(stack[t]) - 1) :
             At(t, i)' = IF i = Len(stack[t]) - 1 THEN fr ELSE At(t, i)
    BY DEF Unwound, Heights, At
  <2>2. \A i \in 1 .. Len(stack'[t]) :
          i \in 1 .. Len(stack[t]) /\ (At(t, i)' = fr \/ At(t, i)' = At(t, i))
    BY <2>1
  <2>3. Has(t, kind, s, f)' => Has(t, kind, s, f)
    BY <2>2 DEF Has
  <2>4. ASSUME NEW i \in 1 .. Len(stack[t]), At(t, i).kind = kind,
               i # Len(stack[t])
        PROVE  i \in 1 .. Len(stack'[t]) /\ At(t, i)' = At(t, i)
    BY <2>1, <2>4
  <2>5. QED
    BY <1>2, <2>3, <2>4 DEF Has
<1>3. CASE u # t
  BY <1>3 DEF Unwound, Has, At
<1>4. QED
  BY <1>2, <1>3

\* A position has what is there.
LEMMA AtHas ==
  ASSUME NEW t \in Threads, NEW i \in 1 .. Len(stack[t])
  PROVE  Has(t, At(t, i).kind, At(t, i).strand, At(t, i).func)
BY DEF Has

----------------------------------------------------------------------------
(* The shapes of steps, again *)

LEMMA PopNest ==
  ASSUME NestOK, NEW t \in Threads, Popped(t, 1)
  PROVE  NestOK'
<1> SUFFICES ASSUME NEW u \in Threads, NEW i \in 1 .. (Len(stack'[u]) - 1)
             PROVE  /\ At(u, i)'.kind \in {"invoker", "function"}
                    /\ At(u, i)'.kind = "invoker" =>
                         /\ At(u, i + 1)'.kind = "function"
                         /\ At(u, i + 1)'.strand = At(u, i)'.strand
  BY DEF NestOK
<1>1. i \in 1 .. Len(stack'[u]) /\ i + 1 \in 1 .. Len(stack'[u])
  BY DEF Popped, Heights
<1>2. /\ At(u, i)' = At(u, i) /\ At(u, i + 1)' = At(u, i + 1)
      /\ i + 1 \in 1 .. Len(stack[u])
  BY <1>1, PoppedAt
<1>3. i \in 1 .. (Len(stack[u]) - 1)
  BY <1>2 DEF Popped, Heights
<1>4. QED
  BY <1>2, <1>3 DEF NestOK

LEMMA PushNest ==
  ASSUME NestOK, NEW t \in Threads, NEW fr, Pushed(t, fr),
         NEW n, n = Len(stack[t]),
         n > 0 => /\ At(t, n).kind \in {"invoker", "function"}
                  /\ At(t, n).kind = "invoker" =>
                       fr.kind = "function" /\ fr.strand = At(t, n).strand
  PROVE  NestOK'
<1> SUFFICES ASSUME NEW u \in Threads, NEW i \in 1 .. (Len(stack'[u]) - 1)
             PROVE  /\ At(u, i)'.kind \in {"invoker", "function"}
                    /\ At(u, i)'.kind = "invoker" =>
                         /\ At(u, i + 1)'.kind = "function"
                         /\ At(u, i + 1)'.strand = At(u, i)'.strand
  BY DEF NestOK
<1>1. CASE u = t /\ i = n
  <2>1. n > 0 /\ At(u, i)' = At(t, n) /\ At(u, i + 1)' = fr
    BY <1>1 DEF Pushed, Heights, At
  <2>2. QED
    BY <2>1
<1>2. CASE ~(u = t /\ i = n)
  <2>1. i \in 1 .. (Len(stack[u]) - 1)
    BY <1>2 DEF Pushed, Heights
  <2>2. At(u, i)' = At(u, i) /\ At(u, i + 1)' = At(u, i + 1)
    BY <2>1, PushedAt DEF Pushed, Heights
  <2>3. QED
    BY <2>1, <2>2 DEF NestOK
<1>3. QED
  BY <1>1, <1>2

\* What is below the frame on top stays, and is no invoker if that was none of
\* its functions.
LEMMA ChangeNest ==
  ASSUME NestOK, NEW t \in Threads, NEW fr, Changed(t, fr),
         At(t, Len(stack[t])).kind # "function"
  PROVE  NestOK'
<1> SUFFICES ASSUME NEW u \in Threads, NEW i \in 1 .. (Len(stack'[u]) - 1)
             PROVE  /\ At(u, i)'.kind \in {"invoker", "function"}
                    /\ At(u, i)'.kind = "invoker" =>
                         /\ At(u, i + 1)'.kind = "function"
                         /\ At(u, i + 1)'.strand = At(u, i)'.strand
  BY DEF NestOK
<1>1. /\ i \in 1 .. (Len(stack[u]) - 1) /\ i \in 1 .. Len(stack[u])
      /\ i + 1 \in 1 .. Len(stack[u]) /\ Len(stack[u]) \in Nat
  BY ChangedAt DEF Heights
<1>2. At(u, i)' = At(u, i)
  BY <1>1, ChangedAt
<1>3. CASE u = t /\ i + 1 = Len(stack[t])
  BY <1>1, <1>2, <1>3 DEF NestOK
<1>4. CASE ~(u = t /\ i + 1 = Len(stack[t]))
  <2>1. At(u, i + 1)' = At(u, i + 1)
    BY <1>1, <1>4, ChangedAt
  <2>2. QED
    BY <1>1, <1>2, <2>1 DEF NestOK
<1>5. QED
  BY <1>3, <1>4

LEMMA UnwindNest ==
  ASSUME NestOK, NEW t \in Threads, NEW fr, Unwound(t, fr),
         At(t, Len(stack[t]) - 1).kind = "invoker"
  PROVE  NestOK'
<1> SUFFICES ASSUME NEW u \in Threads, NEW i \in 1 .. (Len(stack'[u]) - 1)
             PROVE  /\ At(u, i)'.kind \in {"invoker", "function"}
                    /\ At(u, i)'.kind = "invoker" =>
                         /\ At(u, i + 1)'.kind = "function"
                         /\ At(u, i + 1)'.strand = At(u, i)'.strand
  BY DEF NestOK
<1>1. CASE u # t
  BY <1>1 DEF Unwound, Heights, At, NestOK
<1>2. CASE u = t
  <2>1. /\ Len(stack[t]) \in Nat /\ Len(stack'[t]) = Len(stack[t]) - 1
        /\ \A j \in 1 .. (Len(stack[t]) - 1) :
             At(t, j)' = IF j = Len(stack[t]) - 1 THEN fr ELSE At(t, j)
    BY DEF Unwound, Heights, At
  <2>2. i \in 1 .. (Len(stack[t]) - 1) /\ At(t, i)' = At(t, i)
    BY <1>2, <2>1
  <2>3. CASE i + 1 = Len(stack[t]) - 1
    BY <1>2, <2>1, <2>2, <2>3 DEF NestOK
  <2>4. CASE i + 1 # Len(stack[t]) - 1
    <3>1. At(t, i + 1)' = At(t, i + 1)
      BY <1>2, <2>1, <2>2, <2>4
    <3>2. QED
      BY <1>2, <2>2, <3>1 DEF NestOK
  <2>5. QED
    BY <2>3, <2>4
<1>3. QED
  BY <1>1, <1>2

LEMMA PopOnce ==
  ASSUME OnceOK, NEW t \in Threads, Popped(t, 1)
  PROVE  OnceOK'
BY PoppedAt DEF OnceOK

LEMMA PushOnce ==
  ASSUME OnceOK, NEW t \in Threads, NEW fr, Pushed(t, fr),
         fr.kind = "function" =>
           \A u \in Threads : ~Has(u, "function", fr.strand, fr.func)
  PROVE  OnceOK'
<1>1. \A u \in Threads : \A i \in 1 .. Len(stack[u]) :
        ~(/\ fr.kind = "function" /\ At(u, i).kind = "function"
          /\ At(u, i).strand = fr.strand /\ At(u, i).func = fr.func)
  BY DEF Has
<1>2. SUFFICES ASSUME NEW u \in Threads, NEW v \in Threads,
                      NEW i \in 1 .. Len(stack'[u]), NEW j \in 1 .. Len(stack'[v]),
                      At(u, i)'.kind = "function", At(v, j)'.kind = "function",
                      At(u, i)'.strand = At(v, j)'.strand,
                      At(u, i)'.func = At(v, j)'.func
               PROVE  u = v /\ i = j
  BY DEF OnceOK
<1>3. \/ i \in 1 .. Len(stack[u]) /\ At(u, i)' = At(u, i)
      \/ u = t /\ i = Len(stack[t]) + 1 /\ At(u, i)' = fr
  BY PushedAt
<1>4. \/ j \in 1 .. Len(stack[v]) /\ At(v, j)' = At(v, j)
      \/ v = t /\ j = Len(stack[t]) + 1 /\ At(v, j)' = fr
  BY PushedAt
<1>5. QED
  BY <1>1, <1>2, <1>3, <1>4 DEF OnceOK

LEMMA ChangeOnce ==
  ASSUME OnceOK, NEW t \in Threads, NEW fr, Changed(t, fr), fr.kind # "function"
  PROVE  OnceOK'
BY ChangedAt DEF OnceOK

LEMMA UnwindOnce ==
  ASSUME OnceOK, NEW t \in Threads, NEW fr, Unwound(t, fr), fr.kind # "function"
  PROVE  OnceOK'
<1>1. ASSUME NEW u \in Threads, NEW i \in 1 .. Len(stack'[u]),
             At(u, i)'.kind = "function"
      PROVE  i \in 1 .. Len(stack[u]) /\ At(u, i)' = At(u, i)
  <2>1. CASE u = t
    BY <1>1, <2>1 DEF Unwound, Heights, At
  <2>2. CASE u # t
    BY <2>2 DEF Unwound, Heights, At
  <2>3. QED
    BY <2>1, <2>2
<1>2. QED
  BY <1>1 DEF OnceOK

\* A step that leaves the queues, and gives no thread a function that it has
\* not got from fresh.
LEMMA FreshStays ==
  ASSUME FreshOK, fresh' \subseteq fresh,
         \A f \in fresh' : f \in finished' => f \in finished,
         \A f \in fresh', s \in Strands, t \in Threads,
            kind \in {"acquired", "function"} :
           Has(t, kind, s, f)' => \E k \in {"acquired", "function"} : Has(t, k, s, f),
         UNCHANGED <<ready, waiting>>
  PROVE  FreshOK'
<1>1. ASSUME NEW f \in fresh', NEW s \in Strands, NEW t \in Threads
      PROVE  ~Has(t, "acquired", s, f)' /\ ~Has(t, "function", s, f)'
  BY <1>1 DEF FreshOK
<1>2. QED
  BY <1>1 DEF FreshOK

\* The frame on top is one of those that a thread has.
LEMMA TopHas ==
  ASSUME Inv, NEW t \in Threads, NEW kind, TopIs(t, kind)
  PROVE  /\ Has(t, kind, Top(t).strand, Top(t).func)
         /\ Top(t).strand \in Strands
         /\ kind \in {"acquired", "function"} => Top(t).func \in Funcs
<1>1. /\ Top(t) = At(t, Len(stack[t])) /\ Len(stack[t]) \in 1 .. Len(stack[t])
      /\ Top(t).kind = kind /\ Top(t).strand \in Strands /\ HasFunc(Top(t))
      /\ Top(t).func \in Funcs \cup {NoFunc}
  BY OnTop
<1>2. QED
  BY <1>1 DEF Has, HasFunc

----------------------------------------------------------------------------
(* The mapping *)

\* The functions of a strand that a thread has and not yet pushed.
Taken(s) == {fr.func : fr \in Acquiring(s)}

LEMMA SeqOfNone == SetToSeq({}) = <<>>
<1>1. Cardinality({}) = 0
  BY FS_EmptySet
<1>2. <<>> \in [1 .. 0 -> {}] /\ IsInjective(<<>>)
  BY DEF IsInjective
<1>3. SetToSeq({}) \in [1 .. 0 -> {}]
  BY <1>1, <1>2 DEF SetToSeq
<1>4. QED
  BY <1>3

LEMMA SeqOfOne ==
  ASSUME NEW x
  PROVE  SetToSeq({x}) = <<x>>
<1>1. Cardinality({x}) = 1
  BY FS_Singleton
<1>2. <<x>> \in [1 .. 1 -> {x}] /\ IsInjective(<<x>>)
  BY DEF IsInjective
<1>3. SetToSeq({x}) \in [1 .. 1 -> {x}]
  BY <1>1, <1>2 DEF SetToSeq
<1>4. QED
  BY <1>3

LEMMA FramesAre ==
  ASSUME StacksOK
  PROVE  \A fr : fr \in UNION {ToSet(stack[t]) : t \in Threads} <=>
                   \E t \in Threads : \E i \in 1 .. Len(stack[t]) : At(t, i) = fr
<1>1. \A t \in Threads : \A fr : fr \in ToSet(stack[t]) <=>
                               \E i \in 1 .. Len(stack[t]) : At(t, i) = fr
  <2>1. \A t \in Threads : DOMAIN stack[t] = 1 .. Len(stack[t])
    BY DEF StacksOK
  <2>2. QED
    BY <2>1 DEF ToSet, At
<1> DEFINE T(t) == ToSet(stack[t])
<1>2. \A fr : fr \in UNION {T(t) : t \in Threads} <=>
              \E t \in Threads : fr \in T(t)
  <2> HIDE DEF T
  <2>1. QED
    OBVIOUS
<1>3. QED
  BY <1>1, <1>2

LEMMA TakenIs ==
  StacksOK => \A s, f : f \in Taken(s) <=> \E t \in Threads : Has(t, "acquired", s, f)
<1> SUFFICES ASSUME StacksOK, NEW s, NEW f
             PROVE  f \in Taken(s) <=> \E t \in Threads : Has(t, "acquired", s, f)
  OBVIOUS
<1>1. \A fr : fr \in UNION {ToSet(stack[t]) : t \in Threads} <=>
        \E t \in Threads : \E i \in 1 .. Len(stack[t]) : At(t, i) = fr
  BY FramesAre
<1>2. \A fr : fr \in Acquiring(s) <=>
        \E t \in Threads : \E i \in 1 .. Len(stack[t]) :
          At(t, i) = fr /\ fr.kind = "acquired" /\ fr.strand = s
  BY <1>1 DEF Acquiring
<1>3. f \in Taken(s) <=> \E fr \in Acquiring(s) : fr.func = f
  BY DEF Taken
<1>4. QED
  BY <1>2, <1>3 DEF Has

\* What runs is what has a frame.
RunningTold ==
  \A s \in Strands :
    /\ \A f : f \in Running[s] <=> \E t \in Threads : Has(t, "function", s, f)
    /\ \A t \in Threads : RunningIn(t, s) <=> \E f : Has(t, "function", s, f)

LEMMA RunningIs == StacksOK => RunningTold
<1> SUFFICES ASSUME StacksOK, NEW s \in Strands
             PROVE  /\ \A f : f \in Running[s] <=>
                                \E t \in Threads : Has(t, "function", s, f)
                    /\ \A t \in Threads :
                         RunningIn(t, s) <=> \E f : Has(t, "function", s, f)
  BY DEF RunningTold
<1>1. \A fr : fr \in UNION {ToSet(stack[t]) : t \in Threads} <=>
        \E t \in Threads : \E i \in 1 .. Len(stack[t]) : At(t, i) = fr
  BY FramesAre
<1> DEFINE R == {g \in UNION {ToSet(stack[t]) : t \in Threads} :
                  g.kind = "function" /\ g.strand = s}
<1>2. \A fr : fr \in R <=>
        \E t \in Threads : \E i \in 1 .. Len(stack[t]) :
          At(t, i) = fr /\ fr.kind = "function" /\ fr.strand = s
  BY <1>1
<1>3. \A f : f \in Running[s] <=> \E fr \in R : fr.func = f
  BY DEF Running
<1>4. \A t \in Threads : DOMAIN stack[t] = 1 .. Len(stack[t])
  BY DEF StacksOK
<1>5. \A t \in Threads : RunningIn(t, s) <=> \E f : Has(t, "function", s, f)
  BY <1>4 DEF RunningIn, Has, At
<1>6. QED
  BY <1>2, <1>3, <1>5 DEF Has

\* The one thread that runs functions of a strand holds it.
HolderTold ==
  \A s \in Strands :
    /\ \A t \in Threads : RunningIn(t, s) => Holder[s] = t
    /\ (\A t \in Threads : ~RunningIn(t, s)) => Holder[s] = NoThread

LEMMA HolderIs == Inv => HolderTold
<1> SUFFICES ASSUME Inv, NEW s \in Strands
             PROVE  /\ \A t \in Threads : RunningIn(t, s) => Holder[s] = t
                    /\ (\A t \in Threads : ~RunningIn(t, s)) => Holder[s] = NoThread
  BY DEF HolderTold
<1>1. Holder[s] = IF \E t \in Threads : RunningIn(t, s)
                    THEN CHOOSE t \in Threads : RunningIn(t, s) ELSE NoThread
  BY DEF Holder
<1>2. \A t, u \in Threads : RunningIn(t, s) /\ RunningIn(u, s) => t = u
  BY HeldByOne DEF NonConcurrent
<1>3. ASSUME NEW t \in Threads, RunningIn(t, s)
      PROVE  Holder[s] = t
  <2> DEFINE c == CHOOSE u \in Threads : RunningIn(u, s)
  <2>1. c \in Threads /\ RunningIn(c, s)
    BY <1>3
  <2>2. Holder[s] = c
    BY <1>1, <1>3
  <2>3. QED
    BY <1>2, <1>3, <2>1, <2>2
<1>4. QED
  BY <1>1, <1>3

\* A function that a thread holds has its strand taken by it alone.
LEMMA TakenByOne ==
  Inv => \A s \in Strands : \A f :
    \A t \in Threads : Has(t, "acquired", s, f) => Taken(s) = {f} /\ locked[s]
<1> SUFFICES ASSUME Inv, NEW s \in Strands, NEW f, NEW t \in Threads,
                    Has(t, "acquired", s, f)
             PROVE  Taken(s) = {f} /\ locked[s]
  OBVIOUS
<1>1. PICK i \in 1 .. Len(stack[t]) :
        At(t, i).kind = "acquired" /\ At(t, i).strand = s /\ At(t, i).func = f
  BY DEF Has
<1>2. locked[s]
  BY <1>1 DEF Inv, HoldInv, FramesOK
<1>3. ASSUME NEW u \in Threads, NEW g, Has(u, "acquired", s, g)
      PROVE  g = f
  BY <1>1, <1>3 DEF Has, Inv, HoldInv, OneFrame
<1>4. \A g : g \in Taken(s) <=> \E u \in Threads : Has(u, "acquired", s, g)
  BY TakenIs DEF Inv
<1>5. QED
  BY <1>2, <1>3, <1>4

\* What waits for a strand: the function of a thread that has taken it, which
\* is then not running, or what is ready; and the rest.
PendingTold ==
  \A s \in Strands :
    /\ \A t \in Threads : \A f :
         Has(t, "acquired", s, f) =>
           f \in Funcs /\ ready[s] = <<>> /\ Pending[s] = <<f>> \o waiting[s]
    /\ (\A t \in Threads : \A f : ~Has(t, "acquired", s, f)) =>
         Pending[s] = ready[s] \o waiting[s]

LEMMA PendingIs == RunInv => PendingTold
<1> SUFFICES ASSUME RunInv, NEW s \in Strands
             PROVE  /\ \A t \in Threads : \A f :
                         Has(t, "acquired", s, f) =>
                           /\ f \in Funcs /\ ready[s] = <<>>
                           /\ Pending[s] = <<f>> \o waiting[s]
                    /\ (\A t \in Threads : \A f : ~Has(t, "acquired", s, f)) =>
                         Pending[s] = ready[s] \o waiting[s]
  BY DEF PendingTold
<1>1. Pending[s] = SetToSeq(Taken(s)) \o ready[s] \o waiting[s]
  BY DEF Pending, Taken
<1>2. Inv /\ ready[s] \in Seq(Funcs) /\ waiting[s] \in Seq(Funcs)
  BY DEF RunInv, Inv, QueuesOK
<1>3. ASSUME NEW t \in Threads, NEW f, Has(t, "acquired", s, f)
      PROVE  f \in Funcs /\ ready[s] = <<>> /\ Pending[s] = <<f>> \o waiting[s]
  <2>1. f \in Funcs
    <3>1. PICK i \in 1 .. Len(stack[t]) :
            At(t, i).kind = "acquired" /\ At(t, i).func = f
      BY <1>3 DEF Has
    <3>2. At(t, i) \in Frames /\ At(t, i).func # NoFunc
      BY <1>2, <3>1 DEF Inv, StacksOK, HasFunc, At
    <3>3. QED
      BY <3>1, <3>2 DEF Frames
  <2>2. ready[s] = <<>>
    BY <1>3, <2>1 DEF RunInv, HeadOK
  <2>3. SetToSeq(Taken(s)) = <<f>>
    BY <1>2, <1>3, TakenByOne, SeqOfOne
  <2>4. QED
    BY <1>1, <1>2, <2>1, <2>2, <2>3
<1>4. ASSUME \A t \in Threads : \A f : ~Has(t, "acquired", s, f)
      PROVE  Pending[s] = ready[s] \o waiting[s]
  <2>1. Taken(s) = {}
    BY <1>2, <1>4, TakenIs DEF Inv
  <2>2. Pending[s] = (<<>> \o ready[s]) \o waiting[s]
    BY <1>1, <2>1, SeqOfNone
  <2>3. <<>> \o ready[s] = ready[s]
    BY <1>2
  <2>4. QED
    BY <2>2, <2>3
<1>5. QED
  BY <1>3, <1>4

AbstractStep == Abstract!Next \/ UNCHANGED Abstract!vars

LEMMA RunningIsNext == StacksOK' => RunningTold'
<1>1. (StacksOK => RunningTold)'
  BY RunningIs, PTL
<1>2. QED
  BY <1>1

LEMMA HolderIsNext == Inv' => HolderTold'
<1>1. (Inv => HolderTold)'
  BY HolderIs, PTL
<1>2. QED
  BY <1>1

LEMMA PendingIsNext == RunInv' => PendingTold'
<1>1. (RunInv => PendingTold)'
  BY PendingIs, PTL
<1>2. QED
  BY <1>1

\* A step that takes nothing from the functions that run, and starts none.
LEMMA SameRunning ==
  ASSUME Inv, Inv',
         \A u \in Threads, r \in Strands : \A g :
           Has(u, "function", r, g)' <=> Has(u, "function", r, g)
  PROVE  Running' = Running /\ Holder' = Holder
<1>1. RunningTold /\ RunningTold'
  BY RunningIs, RunningIsNext DEF Inv
<1>2. HolderTold /\ HolderTold'
  BY HolderIs, HolderIsNext
<1>5. ASSUME NEW r \in Strands PROVE Running'[r] = Running[r]
  <2>1. \A g : g \in Running'[r] <=> g \in Running[r]
    BY <1>1 DEF RunningTold
  <2>2. QED
    BY <2>1
<1>6. ASSUME NEW r \in Strands PROVE Holder'[r] = Holder[r]
  <2>1. \A u \in Threads : RunningIn(u, r)' <=> RunningIn(u, r)
    BY <1>1 DEF RunningTold
  <2>2. QED
    BY <1>2, <2>1 DEF HolderTold
<1>7. Running' = Running
  BY <1>5 DEF Running
<1>8. Holder' = Holder
  BY <1>6 DEF Holder
<1>9. QED
  BY <1>7, <1>8

LEMMA AddFunction ==
  ASSUME Inv, Inv', NEW t \in Threads, NEW s \in Strands, NEW f,
         \A u \in Threads, r \in Strands : \A g :
           Has(u, "function", r, g)' <=>
             Has(u, "function", r, g) \/ (u = t /\ r = s /\ g = f)
  PROVE  /\ Running' = [Running EXCEPT ![s] = @ \cup {f}]
         /\ Holder' = [Holder EXCEPT ![s] = t]
<1>1. RunningTold /\ RunningTold'
  BY RunningIs, RunningIsNext DEF Inv
<1>2. HolderTold /\ HolderTold'
  BY HolderIs, HolderIsNext
<1>5. ASSUME NEW r \in Strands
      PROVE  Running'[r] = IF r = s THEN Running[s] \cup {f} ELSE Running[r]
  <2>1. \A g : g \in Running'[r] <=> g \in Running[r] \/ (r = s /\ g = f)
    BY <1>1 DEF RunningTold
  <2>2. QED
    BY <2>1
<1>6. ASSUME NEW r \in Strands
      PROVE  Holder'[r] = IF r = s THEN t ELSE Holder[r]
  <2>1. r # s => \A u \in Threads : RunningIn(u, r)' <=> RunningIn(u, r)
    BY <1>1 DEF RunningTold
  <2>2. RunningIn(t, s)'
    BY <1>1 DEF RunningTold
  <2>3. QED
    BY <1>2, <2>1, <2>2 DEF HolderTold
<1>7. Running' = [Running EXCEPT ![s] = @ \cup {f}]
  BY <1>5 DEF Running
<1>8. Holder' = [Holder EXCEPT ![s] = t]
  BY <1>6 DEF Holder
<1>9. QED
  BY <1>7, <1>8

LEMMA RemoveFunction ==
  ASSUME Inv, Inv', NEW t \in Threads, NEW s \in Strands, NEW f,
         Has(t, "function", s, f),
         \A u \in Threads, r \in Strands : \A g :
           Has(u, "function", r, g)' <=>
             Has(u, "function", r, g) /\ ~(u = t /\ r = s /\ g = f)
  PROVE  /\ Running' = [Running EXCEPT ![s] = @ \ {f}]
         /\ Holder' = [Holder EXCEPT ![s] = IF Running'[s] = {} THEN NoThread ELSE t]
         /\ Holder[s] = t /\ f \in Running[s]
<1>1. RunningTold /\ RunningTold'
  BY RunningIs, RunningIsNext DEF Inv
<1>2. HolderTold /\ HolderTold'
  BY HolderIs, HolderIsNext
<1>5. RunningIn(t, s) /\ \A u \in Threads : RunningIn(u, s) => u = t
  BY <1>1, HeldByOne DEF NonConcurrent, RunningTold
<1>6. ASSUME NEW r \in Strands
      PROVE  Running'[r] = IF r = s THEN Running[s] \ {f} ELSE Running[r]
  <2>1. \A g : g \in Running'[r] <=> g \in Running[r] /\ ~(r = s /\ g = f)
    BY <1>1, <1>5 DEF RunningTold
  <2>2. QED
    BY <2>1
<1>7. ASSUME NEW r \in Strands, r # s
      PROVE  Holder'[r] = Holder[r]
  <2>1. \A u \in Threads : RunningIn(u, r)' <=> RunningIn(u, r)
    BY <1>1, <1>7 DEF RunningTold
  <2>2. QED
    BY <1>2, <2>1 DEF HolderTold
<1>8. Holder'[s] = IF Running'[s] = {} THEN NoThread ELSE t
  <2>1. \A u \in Threads : RunningIn(u, s)' => RunningIn(u, s)
    BY <1>1 DEF RunningTold
  <2>2. CASE Running'[s] = {}
    <3>1. \A u \in Threads : ~RunningIn(u, s)'
      BY <1>1, <2>2 DEF RunningTold
    <3>2. QED
      BY <1>2, <2>2, <3>1 DEF HolderTold
  <2>3. CASE Running'[s] # {}
    <3>1. PICK u \in Threads : RunningIn(u, s)'
      BY <1>1, <2>3 DEF RunningTold
    <3>2. u = t
      BY <1>5, <2>1, <3>1
    <3>3. QED
      BY <1>2, <2>3, <3>1, <3>2 DEF HolderTold
  <2>4. QED
    BY <2>2, <2>3
<1>9. Running' = [Running EXCEPT ![s] = @ \ {f}]
  BY <1>6 DEF Running
<1>10. Holder' = [Holder EXCEPT ![s] = IF Running'[s] = {} THEN NoThread ELSE t]
  BY <1>7, <1>8 DEF Holder
<1>11. QED
  BY <1>1, <1>2, <1>5, <1>9, <1>10 DEF RunningTold, HolderTold

\* Only the strand s may have other functions waiting than before.
LEMMA PendingExcept ==
  ASSUME RunInv, RunInv', NEW s \in Strands,
         \A u \in Threads, r \in Strands \ {s} : \A g :
           Has(u, "acquired", r, g)' <=> Has(u, "acquired", r, g),
         \A r \in Strands \ {s} : ready'[r] = ready[r] /\ waiting'[r] = waiting[r]
  PROVE  Pending' = [Pending EXCEPT ![s] = Pending'[s]]
<1>1. PendingTold /\ PendingTold'
  BY PendingIs, PendingIsNext
<1>2. ASSUME NEW r \in Strands \ {s} PROVE Pending'[r] = Pending[r]
  <2>1. CASE \E u \in Threads : \E g : Has(u, "acquired", r, g)
    <3>1. PICK u \in Threads : \E g : Has(u, "acquired", r, g)
      BY <2>1
    <3>2. PICK g : Has(u, "acquired", r, g)
      BY <3>1
    <3>3. Has(u, "acquired", r, g)'
      BY <3>2
    <3>4. Pending[r] = <<g>> \o waiting[r] /\ Pending'[r] = <<g>> \o waiting'[r]
      BY <1>1, <3>2, <3>3 DEF PendingTold
    <3>5. QED
      BY <3>4
  <2>2. CASE \A u \in Threads : \A g : ~Has(u, "acquired", r, g)
    BY <1>1, <2>2 DEF PendingTold
  <2>3. QED
    BY <2>1, <2>2
<1>3. QED
  BY <1>2 DEF Pending

LEMMA SamePending ==
  ASSUME RunInv, RunInv',
         \A u \in Threads, r \in Strands : \A g :
           Has(u, "acquired", r, g)' <=> Has(u, "acquired", r, g),
         UNCHANGED <<ready, waiting>>
  PROVE  Pending' = Pending
<1>1. PendingTold /\ PendingTold'
  BY PendingIs, PendingIsNext
<1>2. ASSUME NEW r \in Strands PROVE Pending'[r] = Pending[r]
  <2>1. CASE \E u \in Threads : \E g : Has(u, "acquired", r, g)
    <3>1. PICK u \in Threads : \E g : Has(u, "acquired", r, g)
      BY <2>1
    <3>2. PICK g : Has(u, "acquired", r, g)
      BY <3>1
    <3>3. Has(u, "acquired", r, g)'
      BY <3>2
    <3>4. Pending[r] = <<g>> \o waiting[r] /\ Pending'[r] = <<g>> \o waiting'[r]
      BY <1>1, <3>2, <3>3 DEF PendingTold
    <3>5. QED
      BY <3>4
  <2>2. CASE \A u \in Threads : \A g : ~Has(u, "acquired", r, g)
    BY <1>1, <2>2 DEF PendingTold
  <2>3. QED
    BY <2>1, <2>2
<1>3. QED
  BY <1>2 DEF Pending

LEMMA ConcatWithout ==
  ASSUME NEW S, NEW p \in Seq(S), NEW q \in Seq(S), NEW x,
         \A j \in 1 .. Len(p) : p[j] # x, \A j \in 1 .. Len(q) : q[j] # x
  PROVE  \A i \in DOMAIN (p \o q) : (p \o q)[i] # x
<1> SUFFICES ASSUME NEW i \in DOMAIN (p \o q) PROVE (p \o q)[i] # x
  OBVIOUS
<1>1. /\ Len(p) \in Nat /\ Len(q) \in Nat /\ i \in 1 .. (Len(p) + Len(q))
      /\ (p \o q)[i] = IF i <= Len(p) THEN p[i] ELSE q[i - Len(p)]
  OBVIOUS
<1>2. CASE i <= Len(p)
  BY <1>1, <1>2
<1>3. CASE i > Len(p)
  <2>1. i - Len(p) \in 1 .. Len(q)
    BY <1>1, <1>3
  <2>2. QED
    BY <1>1, <1>3, <2>1
<1>4. QED
  BY <1>1, <1>2, <1>3

\* What is not submitted is unknown to Strand.
LEMMA FreshUnknown ==
  ASSUME RunInv, NEW f \in fresh
  PROVE  ~Abstract!Known(f)
<1>1. Inv /\ f \in Funcs
  BY DEF RunInv, Inv, QueuesOK
<1>2. f \notin finished
  BY DEF RunInv, FreshOK
<1>3. \A s \in Strands : f \notin Running[s]
  BY <1>1, RunningIs DEF RunInv, FreshOK, Inv, RunningTold
<1>4. ASSUME NEW s \in Strands PROVE \A i \in DOMAIN Pending[s] : Pending[s][i] # f
  <2>1. /\ ready[s] \in Seq(Funcs) /\ waiting[s] \in Seq(Funcs)
        /\ \A j \in 1 .. Len(ready[s]) : ready[s][j] # f
        /\ \A j \in 1 .. Len(waiting[s]) : waiting[s][j] # f
        /\ \A t \in Threads : ~Has(t, "acquired", s, f)
    BY <1>1 DEF RunInv, Inv, QueuesOK, FreshOK
  <2>2. CASE \E t \in Threads : \E g : Has(t, "acquired", s, g)
    <3>1. PICK t \in Threads : \E g : Has(t, "acquired", s, g)
      BY <2>2
    <3>2. PICK g : Has(t, "acquired", s, g)
      BY <3>1
    <3>3. Pending[s] = <<g>> \o waiting[s] /\ g # f /\ g \in Funcs
      BY <2>1, <3>2, PendingIs DEF PendingTold
    <3>4. <<g>> \in Seq(Funcs) /\ \A j \in 1 .. Len(<<g>>) : <<g>>[j] # f
      BY <3>3
    <3>5. QED
      BY <2>1, <3>3, <3>4, ConcatWithout
  <2>3. CASE \A t \in Threads : \A g : ~Has(t, "acquired", s, g)
    <3>1. Pending[s] = ready[s] \o waiting[s]
      BY <2>3, PendingIs DEF PendingTold
    <3>2. QED
      BY <2>1, <3>1, ConcatWithout
  <2>4. QED
    BY <2>2, <2>3
<1>5. QED
  BY <1>2, <1>3, <1>4 DEF Abstract!Known

----------------------------------------------------------------------------
(* The steps of the refinement *)

\* The holder of a strand takes it from others, and functions that run in it
\* are above its invoker.
LEMMA HolderAlone ==
  ASSUME Inv, NEW t \in Threads, stack[t] # <<>>, Top(t).kind # "function"
  PROVE  /\ locked[Top(t).strand] /\ Top(t).strand \in Strands
         /\ Top(t).kind # "acquired" =>
              \A u \in Threads : \A f : ~Has(u, "acquired", Top(t).strand, f)
         /\ \A u \in Threads : \A f : ~Has(u, "function", Top(t).strand, f)
<1>1. /\ Top(t) = At(t, Len(stack[t])) /\ Len(stack[t]) \in 1 .. Len(stack[t])
      /\ Top(t).strand \in Strands
  BY TypeParts, TopFacts DEF Inv, Frames
<1>2. locked[Top(t).strand]
  BY <1>1 DEF Inv, HoldInv, FramesOK
<1>3. ASSUME NEW u \in Threads, NEW f, Has(u, "acquired", Top(t).strand, f)
      PROVE  Top(t).kind = "acquired"
  BY <1>1, <1>3 DEF Has, Inv, HoldInv, OneFrame
<1>4. ASSUME NEW u \in Threads, NEW f, Has(u, "function", Top(t).strand, f)
      PROVE  FALSE
  <2>1. PICK i \in 1 .. Len(stack[u]) :
          At(u, i).kind = "function" /\ At(u, i).strand = Top(t).strand
    BY <1>4 DEF Has
  <2>2. PICK j \in 1 .. (i - 1) :
          At(u, j).kind = "invoker" /\ At(u, j).strand = Top(t).strand
    BY <2>1 DEF Inv, HoldInv, StackOK
  <2>3. Len(stack[u]) \in Nat
    BY DEF Inv, StacksOK
  <2>4. u = t /\ j = Len(stack[t])
    BY <1>1, <2>2, <2>3 DEF Inv, HoldInv, OneFrame
  <2>5. QED
    BY <2>3, <2>4
<1>5. QED
  BY <1>1, <1>2, <1>3, <1>4

SameFunctions ==
  \A u \in Threads, kind \in {"acquired", "function"} : \A r, g :
    Has(u, kind, r, g)' <=> Has(u, kind, r, g)

\* A step that moves the holder of a strand and no function.
LEMMA HolderStep ==
  ASSUME RunInv, Inv', NestOK', OnceOK', SameFunctions,
         UNCHANGED <<locked, ready, waiting, fresh, finished>>
  PROVE  RunInv' /\ AbstractStep
<1>1. HeadOK'
  BY DEF RunInv, HeadOK, SameFunctions
<1>2. FreshOK'
  BY DEF RunInv, FreshOK, SameFunctions
<1>3. RunInv'
  BY <1>1, <1>2 DEF RunInv
<1>4. Pending' = Pending
  BY <1>3, SamePending DEF SameFunctions
<1>5. Running' = Running /\ Holder' = Holder
  BY SameRunning DEF RunInv, SameFunctions
<1>6. QED
  BY <1>3, <1>4, <1>5 DEF AbstractStep, Abstract!vars

LEMMA ScheduleStep ==
  ASSUME RunInv, NEW t \in Threads, Schedule(t)
  PROVE  RunInv' /\ AbstractStep
<1>1. TopIs(t, "schedule") /\ Inv /\ Inv'
  BY ScheduleInv DEF Schedule, RunInv
<1>2. /\ Top(t) = At(t, Len(stack[t])) /\ Top(t).kind = "schedule"
      /\ Top(t).strand \in Strands /\ stack[t] # <<>> /\ TypeOK
  BY <1>1, OnTop
<1>3. CASE Top(t).inline /\ t \in Workers
  <2> DEFINE fr == Frame("invoker", Top(t).strand, NoFunc, FALSE)
  <2>1. fr \in Frames /\ fr.kind = "invoker"
    BY <1>2 DEF Frame, Frames
  <2> HIDE DEF fr
  <2>2. Changed(t, fr)
    BY <1>2, <1>3, <2>1, BecomeChanges DEF Schedule, fr
  <2>3. SameFunctions
    BY <1>2, <2>1, <2>2, ChangedHas DEF SameFunctions
  <2>4. NestOK' /\ OnceOK'
    BY <1>2, <2>1, <2>2, ChangeNest, ChangeOnce DEF RunInv
  <2>5. QED
    BY <1>1, <2>3, <2>4, HolderStep DEF Schedule
<1>4. CASE ~(Top(t).inline /\ t \in Workers)
  <2>1. Popped(t, 1)
    BY <1>2, <1>4, PopFacts DEF Schedule
  <2>2. SameFunctions
    BY <1>2, <2>1, PoppedHas DEF SameFunctions
  <2>3. NestOK' /\ OnceOK'
    BY <2>1, PopNest, PopOnce DEF RunInv
  <2>4. QED
    BY <1>1, <2>2, <2>3, HolderStep DEF Schedule
<1>5. QED
  BY <1>3, <1>4

LEMMA AgainStep ==
  ASSUME RunInv, NEW t \in Threads, Again(t)
  PROVE  RunInv' /\ AbstractStep
<1>1. TopIs(t, "again") /\ Inv /\ Inv'
  BY AgainInv DEF Again, RunInv
<1>2. /\ Top(t) = At(t, Len(stack[t])) /\ Top(t).kind = "again"
      /\ stack[t] # <<>> /\ TypeOK
  BY <1>1, OnTop
<1>3. Popped(t, 1)
  BY <1>2, PopFacts DEF Again
<1>4. SameFunctions
  BY <1>2, <1>3, PoppedHas DEF SameFunctions
<1>5. NestOK' /\ OnceOK'
  BY <1>3, PopNest, PopOnce DEF RunInv
<1>6. QED
  BY <1>1, <1>4, <1>5, HolderStep DEF Again

LEMMA RunInvokerStep ==
  ASSUME RunInv, NEW t \in Threads, RunInvoker(t)
  PROVE  RunInv' /\ AbstractStep
<1> DEFINE fr == Frame("invoker", Head(pool), NoFunc, FALSE)
<1>1. Inv /\ Inv' /\ stack[t] = <<>> /\ Head(pool) \in Strands
  <2>1. Inv /\ Inv' /\ stack[t] = <<>> /\ pool # <<>>
    BY RunInvokerInv DEF RunInvoker, RunInv
  <2>2. QED
    BY <2>1 DEF Inv, QueuesOK
<1>2. fr \in Frames /\ fr.kind = "invoker"
  BY <1>1 DEF Frame, Frames
<1> HIDE DEF fr
<1>3. Pushed(t, fr)
  BY <1>1, <1>2, TypeParts, PushFacts DEF Inv, RunInvoker, fr
<1>4. SameFunctions
  BY <1>2, <1>3, PushedHas DEF SameFunctions
<1>5. Len(stack[t]) = 0
  BY <1>1
<1>6. NestOK' /\ OnceOK'
  BY <1>2, <1>3, <1>5, PushNest, PushOnce DEF RunInv
<1>7. QED
  BY <1>1, <1>4, <1>6, HolderStep DEF RunInvoker

LEMMA PushReadyStep ==
  ASSUME RunInv, NEW t \in Threads, PushReady(t)
  PROVE  RunInv' /\ AbstractStep
<1>0. PICK s \in Strands, f \in Funcs : s = Top(t).strand /\ f = Top(t).func
  BY TopHas DEF PushReady, RunInv
<1> DEFINE fr == Frame("schedule", s, NoFunc, Top(t).inline)
<1>1. TopIs(t, "acquired") /\ Inv /\ Inv'
  BY PushReadyInv DEF PushReady, RunInv
<1>2. /\ Top(t) = At(t, Len(stack[t])) /\ Top(t).kind = "acquired"
      /\ stack[t] # <<>> /\ TypeOK /\ Has(t, "acquired", s, f)
  BY <1>0, <1>1, OnTop, TopHas
<1>3. /\ ready' = [ready EXCEPT ![s] = Append(ready[s], f)] /\ Become(t, fr)
      /\ UNCHANGED <<locked, shutdown, waiting, pool, fresh, finished, order>>
  BY <1>0 DEF PushReady
<1>4. fr \in Frames /\ fr.kind = "schedule" /\ fr.strand = s
  BY <1>1, OnTop DEF Frame, Frames
<1> HIDE DEF fr
<1>5. Changed(t, fr)
  BY <1>2, <1>3, <1>4, BecomeChanges
<1>6. \A u \in Threads : \A g : ~Has(u, "acquired", s, g)'
  <2>1. Len(stack'[t]) = Len(stack[t]) /\ At(t, Len(stack[t]))' = fr
        /\ Len(stack[t]) \in 1 .. Len(stack[t])
    BY <1>5, ChangedAt
  <2>2. ASSUME NEW u \in Threads, NEW i \in 1 .. Len(stack'[u]),
               At(u, i)'.kind = "acquired"
        PROVE  At(u, i)'.strand # s
    BY <1>1, <1>4, <2>1, <2>2 DEF Inv, HoldInv, OneFrame
  <2>3. QED
    BY <2>2 DEF Has
<1>7. /\ \A u \in Threads : \A r, g :
           Has(u, "function", r, g)' <=> Has(u, "function", r, g)
      /\ \A u \in Threads, r \in Strands \ {s} : \A g :
           Has(u, "acquired", r, g)' <=> Has(u, "acquired", r, g)
  BY <1>0, <1>2, <1>4, <1>5, ChangedHas
<1>8. ready[s] = <<>> /\ locked[s]
  BY <1>1, <1>2, TakenByOne DEF RunInv, HeadOK
<1>9. ready'[s] = <<f>> /\ \A r \in Strands \ {s} : ready'[r] = ready[r]
  BY <1>1, <1>2, <1>3, <1>8 DEF Inv, QueuesOK
<1>10. HeadOK'
  <2>1. SUFFICES ASSUME NEW r \in Strands
                 PROVE  /\ ~locked'[r] => ready'[r] = <<>> /\ waiting'[r] = <<>>
                        /\ \A u \in Threads, g \in Funcs :
                             Has(u, "acquired", r, g)' => ready'[r] = <<>>
    BY DEF HeadOK
  <2>2. CASE r = s
    BY <1>3, <1>6, <1>8, <2>2
  <2>3. CASE r # s
    BY <1>3, <1>7, <1>9, <2>3 DEF RunInv, HeadOK
  <2>4. QED
    BY <2>2, <2>3
<1>11. FreshOK'
  <2>1. f \notin fresh
    BY <1>2 DEF RunInv, FreshOK
  <2>2. ASSUME NEW g \in fresh, NEW r \in Strands
        PROVE  \A i \in 1 .. Len(ready'[r]) : ready'[r][i] # g
    <3>1. CASE r = s
      BY <1>9, <2>1, <3>1
    <3>2. CASE r # s
      BY <1>9, <3>2 DEF RunInv, FreshOK
    <3>3. QED
      BY <3>1, <3>2
  <2>3. ASSUME NEW g \in fresh, NEW r \in Strands, NEW u \in Threads
        PROVE  ~Has(u, "acquired", r, g)' /\ ~Has(u, "function", r, g)'
    BY <1>6, <1>7 DEF RunInv, FreshOK
  <2>4. QED
    BY <1>3, <2>2, <2>3 DEF RunInv, FreshOK
<1>12. NestOK' /\ OnceOK'
  BY <1>2, <1>4, <1>5, ChangeNest, ChangeOnce DEF RunInv
<1>13. RunInv'
  BY <1>1, <1>10, <1>11, <1>12 DEF RunInv
<1>14. Pending'[s] = Pending[s]
  <2>1. Pending[s] = <<f>> \o waiting[s]
    BY <1>2, PendingIs DEF PendingTold
  <2>2. Pending'[s] = ready'[s] \o waiting'[s]
    <3>1. PendingTold'
      BY <1>13, PendingIsNext
    <3>2. QED
      BY <1>2, <1>6, <3>1 DEF PendingTold
  <2>3. QED
    BY <1>3, <1>9, <2>1, <2>2
<1>15. Pending' = Pending
  <2>1. Pending' = [Pending EXCEPT ![s] = Pending'[s]]
    BY <1>2, <1>3, <1>7, <1>9, <1>13, PendingExcept
  <2>2. QED
    BY <1>14, <2>1 DEF Pending
<1>16. Running' = Running /\ Holder' = Holder
  BY <1>1, <1>7, SameRunning
<1>17. QED
  BY <1>3, <1>13, <1>15, <1>16 DEF AbstractStep, Abstract!vars

LEMMA ConcatTail ==
  ASSUME NEW S, NEW p \in Seq(S), NEW q \in Seq(S), p # <<>>
  PROVE  p \o q # <<>> /\ Head(p \o q) = Head(p) /\ Tail(p \o q) = Tail(p) \o q
<1>1. /\ Len(p) \in Nat \ {0} /\ Len(q) \in Nat /\ p \o q \in Seq(S)
      /\ Len(p \o q) = Len(p) + Len(q)
      /\ \A i \in 1 .. (Len(p) + Len(q)) :
           (p \o q)[i] = IF i <= Len(p) THEN p[i] ELSE q[i - Len(p)]
  BY ConcatProperties
<1>2. /\ Tail(p) \in Seq(S) /\ Len(Tail(p)) = Len(p) - 1
      /\ \A i \in 1 .. (Len(p) - 1) : Tail(p)[i] = p[i + 1]
  BY <1>1
<1>3. p \o q # <<>> /\ Head(p \o q) = Head(p)
  BY <1>1
<1>4. /\ Tail(p \o q) \in Seq(S) /\ Len(Tail(p \o q)) = Len(p) + Len(q) - 1
      /\ \A i \in 1 .. (Len(p) + Len(q) - 1) : Tail(p \o q)[i] = (p \o q)[i + 1]
  BY <1>1, <1>3
<1>5. /\ Tail(p) \o q \in Seq(S) /\ Len(Tail(p) \o q) = Len(p) + Len(q) - 1
      /\ \A i \in 1 .. (Len(p) + Len(q) - 1) : (Tail(p) \o q)[i] =
           IF i <= Len(p) - 1 THEN Tail(p)[i] ELSE q[i - (Len(p) - 1)]
  BY <1>1, <1>2, ConcatProperties
<1>6. ASSUME NEW i \in 1 .. (Len(p) + Len(q) - 1)
      PROVE  Tail(p \o q)[i] = (Tail(p) \o q)[i]
  BY <1>1, <1>2, <1>4, <1>5
<1>7. Tail(p \o q) = Tail(p) \o q
  BY <1>1, <1>4, <1>5, <1>6
<1>8. QED
  BY <1>3, <1>7

\* The ready function that runs next is the first of those that wait.
LEMMA RunNextStep ==
  ASSUME RunInv, NEW t \in Threads, RunNext(t)
  PROVE  RunInv' /\ AbstractStep
<1>1. TopIs(t, "invoker") /\ Inv /\ Inv'
  BY RunNextInv DEF RunNext, RunInv
<1>2. PICK s \in Strands : s = Top(t).strand
  BY <1>1, TopHas
<1>3. /\ Top(t) = At(t, Len(stack[t])) /\ Top(t).kind = "invoker"
      /\ stack[t] # <<>> /\ TypeOK
  BY <1>1, OnTop
<1>4. ready[s] # <<>> /\ ready[s] \in Seq(Funcs) /\ waiting[s] \in Seq(Funcs)
  BY <1>1, <1>2 DEF RunNext, Inv, QueuesOK
<1>5. PICK f \in Funcs : f = Head(ready[s])
  BY <1>4
<1> DEFINE fr == Frame("function", s, f, FALSE)
<1>6. Push(t, fr) /\ ready' = [ready EXCEPT ![s] = Tail(ready[s])]
      /\ UNCHANGED <<locked, shutdown, waiting, pool, fresh, finished, order>>
  BY <1>2, <1>5 DEF RunNext
<1>7. /\ fr \in Frames /\ fr.kind = "function" /\ fr.strand = s
      /\ fr.func = f
  BY DEF Frame, Frames
<1> HIDE DEF fr
<1>8. Pushed(t, fr)
  BY <1>3, <1>6, <1>7, PushFacts
<1>9. /\ locked[s]
      /\ \A u \in Threads : \A g : ~Has(u, "acquired", s, g)
      /\ \A u \in Threads : \A g : ~Has(u, "function", s, g)
  BY <1>1, <1>2, <1>3, HolderAlone
<1>10. /\ \A u \in Threads : \A r, g : Has(u, "function", r, g)' <=>
            Has(u, "function", r, g) \/ (u = t /\ r = s /\ g = f)
       /\ \A u \in Threads : \A r, g :
            Has(u, "acquired", r, g)' <=> Has(u, "acquired", r, g)
  BY <1>7, <1>8, PushedHas
<1>11. \A r \in Strands \ {s} : ready'[r] = ready[r]
  BY <1>1, <1>6 DEF Inv, QueuesOK
<1>12. /\ ready'[s] = Tail(ready[s]) /\ Len(ready[s]) \in Nat \ {0}
       /\ f = ready[s][1]
       /\ \A i \in 1 .. Len(ready'[s]) :
            i + 1 \in 1 .. Len(ready[s]) /\ ready'[s][i] = ready[s][i + 1]
  BY <1>1, <1>4, <1>5, <1>6 DEF Inv, QueuesOK
<1>13. HeadOK'
  <2>1. SUFFICES ASSUME NEW r \in Strands
                 PROVE  /\ ~locked'[r] => ready'[r] = <<>> /\ waiting'[r] = <<>>
                        /\ \A u \in Threads, g \in Funcs :
                             Has(u, "acquired", r, g)' => ready'[r] = <<>>
    BY DEF HeadOK
  <2>2. CASE r = s
    BY <1>6, <1>9, <1>10, <2>2
  <2>3. CASE r # s
    BY <1>6, <1>10, <1>11, <2>3 DEF RunInv, HeadOK
  <2>4. QED
    BY <2>2, <2>3
<1>14. FreshOK'
  <2>1. f \notin fresh
    <3>1. 1 \in 1 .. Len(ready[s])
      BY <1>12
    <3>2. QED
      BY <1>12, <3>1 DEF RunInv, FreshOK
  <2>2. ASSUME NEW g \in fresh, NEW r \in Strands
        PROVE  \A i \in 1 .. Len(ready'[r]) : ready'[r][i] # g
    <3>1. CASE r = s
      BY <1>12, <3>1 DEF RunInv, FreshOK
    <3>2. CASE r # s
      BY <1>11, <3>2 DEF RunInv, FreshOK
    <3>3. QED
      BY <3>1, <3>2
  <2>3. ASSUME NEW g \in fresh, NEW r \in Strands, NEW u \in Threads
        PROVE  ~Has(u, "acquired", r, g)' /\ ~Has(u, "function", r, g)'
    BY <1>10, <2>1 DEF RunInv, FreshOK
  <2>4. QED
    BY <1>6, <2>2, <2>3 DEF RunInv, FreshOK
<1>15. NestOK' /\ OnceOK'
  <2>1. NestOK'
    BY <1>2, <1>3, <1>7, <1>8, PushNest DEF RunInv
  <2>2. OnceOK'
    BY <1>7, <1>8, <1>9, PushOnce DEF RunInv
  <2>3. QED
    BY <2>1, <2>2
<1>16. RunInv'
  BY <1>1, <1>13, <1>14, <1>15 DEF RunInv
<1>17. Running[s] = {}
  BY <1>1, <1>9, RunningIs DEF Inv, RunningTold
<1>18. Pending[s] = ready[s] \o waiting[s]
  BY <1>9, PendingIs DEF PendingTold
<1>19. Pending[s] # <<>> /\ Head(Pending[s]) = f
       /\ Tail(Pending[s]) = Tail(ready[s]) \o waiting[s]
  BY <1>4, <1>5, <1>18, ConcatTail
<1>20. Pending' = [Pending EXCEPT ![s] = Tail(Pending[s])]
  <2>1. Pending' = [Pending EXCEPT ![s] = Pending'[s]]
    BY <1>6, <1>10, <1>11, <1>16, PendingExcept
  <2>2. PendingTold'
    BY <1>16, PendingIsNext
  <2>3. Pending'[s] = ready'[s] \o waiting'[s]
    BY <1>9, <1>10, <2>2 DEF PendingTold
  <2>4. QED
    BY <1>6, <1>12, <1>19, <2>1, <2>3
<1>21. /\ Running' = [Running EXCEPT ![s] = @ \cup {f}]
       /\ Holder' = [Holder EXCEPT ![s] = t]
  BY <1>1, <1>10, AddFunction
<1>22. Running' = [Running EXCEPT ![s] = {f}]
  <2>1. Running[s] \cup {f} = {f}
    BY <1>17
  <2>2. QED
    BY <1>21, <2>1
<1>23. Abstract!Start(t, s)
  BY <1>6, <1>17, <1>19, <1>20, <1>21, <1>22 DEF Abstract!Start
<1>24. QED
  BY <1>16, <1>23 DEF AbstractStep, Abstract!Next

\* The function on top ends, and with it only it.
LEMMA EndStep ==
  ASSUME RunInv, Inv', NestOK', OnceOK', NEW t \in Threads, NEW s \in Strands,
         NEW f \in Funcs, Has(t, "function", s, f), ~Has(t, "function", s, f)',
         \A u \in Threads, kind \in {"function", "acquired"} : \A r, g :
           /\ Has(u, kind, r, g)' => Has(u, kind, r, g)
           /\ Has(u, kind, r, g) =>
                \/ Has(u, kind, r, g)'
                \/ u = t /\ kind = "function" /\ r = s /\ g = f,
         finished' = finished \cup {f},
         UNCHANGED <<locked, ready, waiting, fresh>>
  PROVE  RunInv' /\ AbstractStep
<1>1. /\ \A u \in Threads : \A r, g : Has(u, "function", r, g)' <=>
           Has(u, "function", r, g) /\ ~(u = t /\ r = s /\ g = f)
      /\ \A u \in Threads : \A r, g :
           Has(u, "acquired", r, g)' <=> Has(u, "acquired", r, g)
  OBVIOUS
<1>2. HeadOK'
  BY <1>1 DEF RunInv, HeadOK
<1>3. f \notin fresh
  BY DEF RunInv, FreshOK
<1>4. FreshOK'
  BY <1>1, <1>3 DEF RunInv, FreshOK
<1>5. RunInv'
  BY <1>2, <1>4 DEF RunInv
<1>6. Pending' = Pending
  BY <1>1, <1>5, SamePending
<1>7. /\ Running' = [Running EXCEPT ![s] = @ \ {f}]
      /\ Holder' = [Holder EXCEPT ![s] = IF Running'[s] = {} THEN NoThread ELSE t]
      /\ Holder[s] = t /\ f \in Running[s]
  BY <1>1, RemoveFunction DEF RunInv
<1>8. Abstract!End(t, s, f)
  BY <1>6, <1>7 DEF Abstract!End
<1>9. QED
  BY <1>5, <1>8 DEF AbstractStep, Abstract!Next

LEMMA ReturnStep ==
  ASSUME RunInv, NEW t \in Threads, TopIs(t, "function"), Pop(t),
         finished' = finished \cup {Top(t).func},
         UNCHANGED <<locked, shutdown, waiting, ready, pool, fresh, order>>
  PROVE  RunInv' /\ AbstractStep
<1>1. Inv /\ Inv'
  BY ReturnInv DEF RunInv
<1>2. PICK s \in Strands, f \in Funcs : s = Top(t).strand /\ f = Top(t).func
  BY <1>1, TopHas
<1>3. /\ Top(t) = At(t, Len(stack[t])) /\ Len(stack[t]) \in 1 .. Len(stack[t])
      /\ Top(t).kind = "function" /\ stack[t] # <<>> /\ TypeOK
      /\ Has(t, "function", s, f)
  BY <1>1, <1>2, OnTop, TopHas
<1>4. Popped(t, 1)
  BY <1>3, PopFacts
<1>5. NestOK' /\ OnceOK'
  BY <1>4, PopNest, PopOnce DEF RunInv
<1>6. ~Has(t, "function", s, f)'
  <2>1. ASSUME NEW i \in 1 .. Len(stack'[t]), At(t, i)'.kind = "function",
               At(t, i)'.strand = s, At(t, i)'.func = f
        PROVE  FALSE
    <3>1. i \in 1 .. Len(stack[t]) /\ At(t, i)' = At(t, i) /\ i < Len(stack[t])
      BY <1>4, PoppedAt
    <3>2. i = Len(stack[t])
      BY <1>2, <1>3, <2>1, <3>1 DEF RunInv, OnceOK
    <3>3. QED
      BY <1>3, <3>1, <3>2
  <2>2. QED
    BY <2>1 DEF Has
<1>7. \A u \in Threads, kind \in {"function", "acquired"} : \A r, g :
        /\ Has(u, kind, r, g)' => Has(u, kind, r, g)
        /\ Has(u, kind, r, g) =>
             \/ Has(u, kind, r, g)'
             \/ u = t /\ kind = "function" /\ r = s /\ g = f
  BY <1>2, <1>3, <1>4, PoppedHas
<1>8. finished' = finished \cup {f}
  BY <1>2
<1>9. QED
  BY <1>1, <1>3, <1>5, <1>6, <1>7, <1>8, EndStep

LEMMA ThrowStep ==
  ASSUME RunInv, NEW t \in Threads, Throw(t)
  PROVE  RunInv' /\ AbstractStep
<1>1. /\ TopIs(t, "function") /\ finished' = finished \cup {Top(t).func}
      /\ UNCHANGED <<locked, shutdown, waiting, ready, pool, fresh, order>>
  BY DEF Throw
<1>2. Inv /\ Inv'
  BY ThrowInv DEF RunInv
<1>3. CASE Top(t).inline
  BY <1>1, <1>3, ReturnStep DEF Throw
<1>4. CASE ~Top(t).inline
  <2> DEFINE below == Front(stack[t])
             fr == Frame("exit", Top(t).strand, NoFunc, FALSE)
  <2>1. stack' = [stack EXCEPT ![t] = Append(Front(below), fr)]
    BY <1>4 DEF Throw
  <2>2. /\ Unwound(t, fr) /\ fr.kind = "exit"
        /\ At(t, Len(stack[t]) - 1).kind = "invoker"
    BY <1>1, <1>2, <1>4, <2>1, UnwoundFacts
  <2> HIDE DEF below, fr
  <2>3. PICK s \in Strands, f \in Funcs : s = Top(t).strand /\ f = Top(t).func
    BY <1>1, <1>2, TopHas
  <2>4. /\ Top(t) = At(t, Len(stack[t])) /\ Len(stack[t]) \in 1 .. Len(stack[t])
        /\ Top(t).kind = "function" /\ Has(t, "function", s, f)
    BY <1>1, <1>2, <2>3, OnTop, TopHas
  <2>5. NestOK' /\ OnceOK'
    BY <2>2, UnwindNest, UnwindOnce DEF RunInv
  <2>6. ~Has(t, "function", s, f)'
    <3>1. ASSUME NEW i \in 1 .. Len(stack'[t]), At(t, i)'.kind = "function",
                 At(t, i)'.strand = s, At(t, i)'.func = f
          PROVE  FALSE
      <4>1. /\ i \in 1 .. Len(stack[t]) /\ i < Len(stack[t])
            /\ At(t, i)' = fr \/ At(t, i)' = At(t, i)
        BY <2>2 DEF Unwound, Heights, At
      <4>2. i = Len(stack[t])
        BY <2>2, <2>3, <2>4, <3>1, <4>1 DEF RunInv, OnceOK
      <4>3. QED
        BY <2>4, <4>1, <4>2
    <3>2. QED
      BY <3>1 DEF Has
  <2>7. \A u \in Threads, kind \in {"function", "acquired"} : \A r, g :
          /\ Has(u, kind, r, g)' => Has(u, kind, r, g)
          /\ Has(u, kind, r, g) =>
               \/ Has(u, kind, r, g)'
               \/ u = t /\ kind = "function" /\ r = s /\ g = f
    BY <2>2, <2>3, <2>4, UnwoundHas
  <2>8. finished' = finished \cup {f}
    BY <1>1, <2>3
  <2>9. QED
    BY <1>1, <1>2, <2>4, <2>5, <2>6, <2>7, <2>8, EndStep
<1>5. QED
  BY <1>3, <1>4

\* on_invoker_exit moves what waited, and changes nothing of its order.
LEMMA ExitStep ==
  ASSUME RunInv, NEW t \in Threads, Exit(t)
  PROVE  RunInv' /\ AbstractStep
<1>1. Inv /\ Inv' /\ \E kind \in {"exit", "invoker"} : TopIs(t, kind)
  BY ExitInv DEF Exit, RunInv
<1>2. PICK kind \in {"exit", "invoker"} : TopIs(t, kind)
  BY <1>1
<1>3. PICK s \in Strands : s = Top(t).strand
  BY <1>1, <1>2, TopHas
<1>4. /\ ready' = [ready EXCEPT ![s] = Merged(s)]
      /\ waiting' = [waiting EXCEPT ![s] = <<>>]
      /\ locked' = [locked EXCEPT ![s] = MoreToDo(s)]
      /\ IF MoreToDo(s) THEN Become(t, Frame("again", s, NoFunc, FALSE)) ELSE Pop(t)
      /\ UNCHANGED <<shutdown, pool, fresh, finished, order>>
  BY <1>3 DEF Exit
<1>5. /\ Top(t) = At(t, Len(stack[t])) /\ stack[t] # <<>> /\ TypeOK
      /\ Top(t).kind = kind
  BY <1>1, <1>2, OnTop
<1>6. \A u \in Threads : \A f : ~Has(u, "acquired", s, f)
  BY <1>1, <1>3, <1>5, HolderAlone
<1>7. SameFunctions /\ NestOK' /\ OnceOK'
  <2>1. CASE MoreToDo(s)
    <3> DEFINE fr == Frame("again", s, NoFunc, FALSE)
    <3>1. fr \in Frames /\ fr.kind = "again"
      BY DEF Frame, Frames
    <3> HIDE DEF fr
    <3>2. Changed(t, fr)
      BY <1>4, <1>5, <2>1, <3>1, BecomeChanges DEF fr
    <3>3. SameFunctions
      BY <1>5, <3>1, <3>2, ChangedHas DEF SameFunctions
    <3>4. QED
      BY <1>5, <3>1, <3>2, <3>3, ChangeNest, ChangeOnce DEF RunInv
  <2>2. CASE ~MoreToDo(s)
    <3>1. Popped(t, 1)
      BY <1>4, <1>5, <2>2, PopFacts
    <3>2. SameFunctions
      BY <1>5, <3>1, PoppedHas DEF SameFunctions
    <3>3. QED
      BY <3>1, <3>2, PopNest, PopOnce DEF RunInv
  <2>3. QED
    BY <2>1, <2>2
<1>8. /\ ready[s] \in Seq(Funcs) /\ waiting[s] \in Seq(Funcs)
      /\ ready'[s] = ready[s] \o waiting[s] /\ waiting'[s] = <<>>
      /\ locked'[s] = MoreToDo(s)
      /\ \A r \in Strands \ {s} : /\ ready'[r] = ready[r]
                                  /\ waiting'[r] = waiting[r]
                                  /\ locked'[r] = locked[r]
  BY <1>1, <1>4 DEF Inv, QueuesOK, Merged
<1>9. HeadOK'
  <2>1. SUFFICES ASSUME NEW r \in Strands
                 PROVE  /\ ~locked'[r] => ready'[r] = <<>> /\ waiting'[r] = <<>>
                        /\ \A u \in Threads, f \in Funcs :
                             Has(u, "acquired", r, f)' => ready'[r] = <<>>
    BY DEF HeadOK
  <2>2. CASE r = s
    BY <1>6, <1>7, <1>8, <2>2 DEF MoreToDo, Merged, SameFunctions
  <2>3. CASE r # s
    BY <1>7, <1>8, <2>3 DEF RunInv, HeadOK, SameFunctions
  <2>4. QED
    BY <2>2, <2>3
<1>10. FreshOK'
  <2>1. ASSUME NEW f \in fresh, NEW r \in Strands
        PROVE  /\ \A i \in 1 .. Len(ready'[r]) : ready'[r][i] # f
               /\ \A i \in 1 .. Len(waiting'[r]) : waiting'[r][i] # f
    <3>1. CASE r = s
      <4>1. /\ \A i \in 1 .. Len(ready[s]) : ready[s][i] # f
            /\ \A i \in 1 .. Len(waiting[s]) : waiting[s][i] # f
        BY DEF RunInv, FreshOK
      <4>2. \A i \in DOMAIN (ready[s] \o waiting[s]) : (ready[s] \o waiting[s])[i] # f
        BY <1>8, <4>1, ConcatWithout
      <4>3. DOMAIN (ready[s] \o waiting[s]) = 1 .. Len(ready[s] \o waiting[s])
        <5>1. ready[s] \o waiting[s] \in Seq(Funcs)
          BY <1>8, ConcatProperties
        <5>2. QED
          BY <5>1
      <4>4. Len(waiting'[s]) = 0
        BY <1>8
      <4>5. \A i \in 1 .. Len(ready'[s]) : ready'[s][i] # f
        BY <1>8, <4>2, <4>3
      <4>6. \A i \in 1 .. Len(waiting'[s]) : waiting'[s][i] # f
        BY <4>4
      <4>7. QED
        BY <3>1, <4>5, <4>6
    <3>2. CASE r # s
      BY <1>8, <3>2 DEF RunInv, FreshOK
    <3>3. QED
      BY <3>1, <3>2
  <2>2. QED
    BY <1>4, <1>7, <2>1 DEF RunInv, FreshOK, SameFunctions
<1>11. RunInv'
  BY <1>1, <1>7, <1>9, <1>10 DEF RunInv
<1>12. Pending'[s] = Pending[s]
  <2>1. Pending[s] = ready[s] \o waiting[s]
    BY <1>6, PendingIs DEF PendingTold
  <2>2. PendingTold' /\ \A u \in Threads : \A f : ~Has(u, "acquired", s, f)'
    BY <1>6, <1>7, <1>11, PendingIsNext DEF SameFunctions
  <2>3. Pending'[s] = ready'[s] \o waiting'[s]
    BY <2>2 DEF PendingTold
  <2>4. (ready[s] \o waiting[s]) \o <<>> = ready[s] \o waiting[s]
    BY <1>8
  <2>5. QED
    BY <1>8, <2>1, <2>3, <2>4
<1>13. Pending' = Pending
  <2>1. Pending' = [Pending EXCEPT ![s] = Pending'[s]]
    BY <1>7, <1>8, <1>11, PendingExcept DEF SameFunctions
  <2>2. QED
    BY <1>12, <2>1 DEF Pending
<1>14. Running' = Running /\ Holder' = Holder
  BY <1>1, <1>7, SameRunning DEF SameFunctions
<1>15. QED
  BY <1>4, <1>11, <1>13, <1>14 DEF AbstractStep, Abstract!vars

\* A function that is dispatched in its strand runs in the one that runs there.
LEMMA RunInlineStep ==
  ASSUME RunInv, NEW t \in Threads, NEW s \in Strands, NEW f \in Funcs,
         RunInline(t, s, f)
  PROVE  RunInv' /\ AbstractStep
<1> DEFINE fr == Frame("function", s, f, TRUE)
<1>1. /\ fr \in Frames /\ fr.kind = "function" /\ fr.strand = s /\ fr.func = f
  BY DEF Frame, Frames
<1>2. /\ Inv /\ Inv' /\ f \in fresh /\ fresh' = fresh \ {f} /\ Push(t, fr)
      /\ UNCHANGED <<locked, shutdown, waiting, ready, pool, finished, order>>
  BY RunInlineInv DEF RunInline, RunInv
<1> HIDE DEF fr
<1>3. Pushed(t, fr)
  BY <1>1, <1>2, TypeParts, PushFacts DEF Inv
<1>4. /\ \A u \in Threads : \A r, g : Has(u, "function", r, g)' <=>
           Has(u, "function", r, g) \/ (u = t /\ r = s /\ g = f)
      /\ \A u \in Threads : \A r, g :
           Has(u, "acquired", r, g)' <=> Has(u, "acquired", r, g)
  BY <1>1, <1>3, PushedHas
<1>5. /\ Len(stack[t]) \in Nat /\ DOMAIN stack[t] = 1 .. Len(stack[t])
      /\ Len(stack[t]) > 0 => At(t, Len(stack[t])).kind = "function"
  <2>1. Len(stack[t]) \in Nat /\ DOMAIN stack[t] = 1 .. Len(stack[t])
    BY <1>2 DEF Inv, StacksOK
  <2>2. CASE TopIs(t, "function")
    BY <1>2, <2>1, <2>2, OnTop
  <2>3. CASE stack[t] = <<>>
    BY <2>1, <2>3
  <2>4. QED
    BY <2>1, <2>2, <2>3 DEF RunInline, CanCall
<1>6. NestOK'
  BY <1>3, <1>5, PushNest DEF RunInv
<1>7. OnceOK'
  BY <1>1, <1>2, <1>3, PushOnce DEF RunInv, FreshOK
<1>8. HeadOK'
  BY <1>2, <1>4 DEF RunInv, HeadOK
<1>9. FreshOK'
  BY <1>2, <1>4 DEF RunInv, FreshOK
<1>10. RunInv'
  BY <1>2, <1>6, <1>7, <1>8, <1>9 DEF RunInv
<1>11. Holder[s] = t
  <2>1. PICK j \in 1 .. Len(stack[t]) :
          At(t, j).kind = "invoker" /\ At(t, j).strand = s
    BY <1>5 DEF RunInline, RunningInThisThread, At
  <2>2. j \in 1 .. (Len(stack[t]) - 1)
    BY <1>5, <2>1
  <2>3. At(t, j + 1).kind = "function" /\ At(t, j + 1).strand = s
        /\ j + 1 \in 1 .. Len(stack[t])
    BY <1>5, <2>1, <2>2 DEF RunInv, NestOK
  <2>4. RunningIn(t, s)
    BY <1>5, <2>3 DEF RunningIn, At
  <2>5. QED
    BY <1>2, <2>4, HolderIs DEF HolderTold
<1>12. Pending' = Pending
  BY <1>2, <1>4, <1>10, SamePending
<1>13. /\ Running' = [Running EXCEPT ![s] = @ \cup {f}]
       /\ Holder' = [Holder EXCEPT ![s] = t]
  BY <1>2, <1>4, AddFunction
<1>14. Holder' = Holder
  BY <1>11, <1>13 DEF Holder
<1>15. Abstract!Nest(t, s, f)
  BY <1>2, <1>11, <1>12, <1>13, <1>14, FreshUnknown DEF Abstract!Nest
<1>16. QED
  BY <1>10, <1>15 DEF AbstractStep, Abstract!Next

LEMMA ConcatEmpty == <<>> \o <<>> = <<>>
<1>1. <<>> \in Seq({})
  OBVIOUS
<1>2. Len(<<>> \o <<>>) = 0 /\ <<>> \o <<>> \in Seq({})
  BY <1>1, ConcatProperties
<1>3. QED
  BY <1>2

LEMMA ConcatAppend ==
  ASSUME NEW S, NEW p \in Seq(S), NEW q \in Seq(S), NEW e \in S
  PROVE  p \o Append(q, e) = Append(p \o q, e)
<1>1. /\ Len(p) \in Nat /\ Len(q) \in Nat /\ p \o q \in Seq(S)
      /\ Len(p \o q) = Len(p) + Len(q)
      /\ \A i \in 1 .. (Len(p) + Len(q)) :
           (p \o q)[i] = IF i <= Len(p) THEN p[i] ELSE q[i - Len(p)]
  BY ConcatProperties
<1>2. /\ Append(q, e) \in Seq(S) /\ Len(Append(q, e)) = Len(q) + 1
      /\ Append(q, e)[Len(q) + 1] = e
      /\ \A i \in 1 .. Len(q) : Append(q, e)[i] = q[i]
  BY AppendFacts
<1>3. /\ p \o Append(q, e) \in Seq(S)
      /\ Len(p \o Append(q, e)) = Len(p) + Len(q) + 1
      /\ \A i \in 1 .. (Len(p) + Len(q) + 1) : (p \o Append(q, e))[i] =
           IF i <= Len(p) THEN p[i] ELSE Append(q, e)[i - Len(p)]
  BY <1>1, <1>2, ConcatProperties
<1>4. /\ Append(p \o q, e) \in Seq(S)
      /\ Len(Append(p \o q, e)) = Len(p) + Len(q) + 1
      /\ Append(p \o q, e)[Len(p) + Len(q) + 1] = e
      /\ \A i \in 1 .. (Len(p) + Len(q)) : Append(p \o q, e)[i] = (p \o q)[i]
  <2>1. /\ Append(p \o q, e) \in Seq(S)
        /\ Len(Append(p \o q, e)) = Len(p \o q) + 1
        /\ Append(p \o q, e)[Len(p \o q) + 1] = e
        /\ \A i \in 1 .. Len(p \o q) : Append(p \o q, e)[i] = (p \o q)[i]
    BY <1>1, AppendFacts
  <2>2. QED
    BY <1>1, <2>1
<1>5. ASSUME NEW i \in 1 .. (Len(p) + Len(q) + 1)
      PROVE  (p \o Append(q, e))[i] = Append(p \o q, e)[i]
  BY <1>1, <1>2, <1>3, <1>4
<1>6. QED
  BY <1>1, <1>3, <1>4, <1>5

\* A call comes from the function on top, or from outside.
LEMMA CallerNests ==
  ASSUME Inv, NEW t \in Threads, CanCall(t)
  PROVE  /\ Len(stack[t]) \in Nat
         /\ Len(stack[t]) > 0 => At(t, Len(stack[t])).kind = "function"
<1>1. Len(stack[t]) \in Nat
  BY DEF Inv, StacksOK
<1>2. CASE TopIs(t, "function")
  BY <1>1, <1>2, OnTop
<1>3. CASE stack[t] = <<>>
  BY <1>1, <1>3
<1>4. QED
  BY <1>1, <1>2, <1>3 DEF CanCall

\* A function of a free strand: the thread takes the strand.
LEMMA TakeStep ==
  ASSUME RunInv, Inv', NEW t \in Threads, NEW s \in Strands, NEW f \in Funcs,
         NEW inline \in BOOLEAN, CanCall(t), f \in fresh, fresh' = fresh \ {f},
         ~locked[s], locked' = [locked EXCEPT ![s] = TRUE],
         Push(t, Frame("acquired", s, f, inline)),
         UNCHANGED <<waiting, ready, finished>>
  PROVE  RunInv' /\ AbstractStep
<1> DEFINE fr == Frame("acquired", s, f, inline)
<1>1. fr \in Frames /\ fr.kind = "acquired" /\ fr.strand = s /\ fr.func = f
  BY DEF Frame, Frames
<1>2. Push(t, fr)
  OBVIOUS
<1> HIDE DEF fr
<1>3. Pushed(t, fr)
  BY <1>1, <1>2, TypeParts, PushFacts DEF RunInv, Inv
<1>4. /\ \A u \in Threads : \A r, g : Has(u, "acquired", r, g)' <=>
           Has(u, "acquired", r, g) \/ (u = t /\ r = s /\ g = f)
      /\ \A u \in Threads : \A r, g :
           Has(u, "function", r, g)' <=> Has(u, "function", r, g)
  BY <1>1, <1>3, PushedHas
<1>5. NestOK'
  BY <1>3, CallerNests, PushNest DEF RunInv
<1>6. OnceOK'
  BY <1>1, <1>3, PushOnce DEF RunInv
<1>7. ready[s] = <<>> /\ waiting[s] = <<>>
  BY DEF RunInv, HeadOK
<1>8. locked \in [Strands -> BOOLEAN]
  BY DEF RunInv, Inv, QueuesOK
<1>9. HeadOK'
  <2>1. SUFFICES ASSUME NEW r \in Strands
                 PROVE  /\ ~locked'[r] => ready'[r] = <<>> /\ waiting'[r] = <<>>
                        /\ \A u \in Threads, g \in Funcs :
                             Has(u, "acquired", r, g)' => ready'[r] = <<>>
    BY DEF HeadOK
  <2>2. CASE r = s
    BY <1>7, <2>2
  <2>3. CASE r # s
    BY <1>4, <1>8, <2>3 DEF RunInv, HeadOK
  <2>4. QED
    BY <2>2, <2>3
<1>10. FreshOK'
  BY <1>4 DEF RunInv, FreshOK
<1>11. RunInv'
  BY <1>5, <1>6, <1>9, <1>10 DEF RunInv
<1>12. Pending[s] = <<>>
  <2>1. \A u \in Threads : \A g : ~Has(u, "acquired", s, g)
    BY TakenByOne DEF RunInv
  <2>2. Pending[s] = ready[s] \o waiting[s]
    BY <2>1, PendingIs DEF PendingTold
  <2>3. QED
    BY <1>7, <2>2, ConcatEmpty
<1>13. Pending'[s] = <<f>>
  <2>1. PendingTold' /\ Has(t, "acquired", s, f)'
    BY <1>4, <1>11, PendingIsNext
  <2>2. Pending'[s] = <<f>> \o waiting'[s]
    BY <2>1 DEF PendingTold
  <2>3. <<f>> \in Seq(Funcs)
    OBVIOUS
  <2>4. <<f>> \o <<>> = <<f>>
    BY <2>3
  <2>5. waiting'[s] = <<>>
    BY <1>7
  <2>6. QED
    BY <2>2, <2>4, <2>5
<1>14. Pending' = [Pending EXCEPT ![s] = Append(Pending[s], f)]
  <2>1. Pending' = [Pending EXCEPT ![s] = Pending'[s]]
    BY <1>4, <1>11, PendingExcept
  <2>2. Append(Pending[s], f) = <<f>>
    BY <1>12
  <2>3. QED
    BY <1>13, <2>1, <2>2
<1>15. Running' = Running /\ Holder' = Holder
  BY <1>4, SameRunning DEF RunInv
<1>16. Abstract!Queue(s, f)
  BY <1>14, <1>15, FreshUnknown DEF Abstract!Queue
<1>17. QED
  BY <1>11, <1>16 DEF AbstractStep, Abstract!Next

\* A function of a strand that is taken waits, last of all.
LEMMA WaitStep ==
  ASSUME RunInv, Inv', NEW s \in Strands, NEW f \in Funcs,
         f \in fresh, fresh' = fresh \ {f}, locked[s],
         waiting' = [waiting EXCEPT ![s] = Append(waiting[s], f)],
         UNCHANGED <<locked, ready, finished, stack>>
  PROVE  RunInv' /\ AbstractStep
<1>1. /\ ready[s] \in Seq(Funcs) /\ waiting[s] \in Seq(Funcs)
      /\ waiting'[s] = Append(waiting[s], f)
      /\ \A r \in Strands \ {s} : waiting'[r] = waiting[r]
  BY DEF RunInv, Inv, QueuesOK
<1>2. \A u \in Threads : \A kind, r, g : Has(u, kind, r, g)' <=> Has(u, kind, r, g)
  BY DEF Has, At
<1>3. NestOK' /\ OnceOK'
  BY DEF RunInv, NestOK, OnceOK, At
<1>4. HeadOK'
  BY <1>1, <1>2 DEF RunInv, HeadOK
<1>5. FreshOK'
  <2>1. ASSUME NEW g \in fresh', NEW r \in Strands
        PROVE  \A i \in 1 .. Len(waiting'[r]) : waiting'[r][i] # g
    <3>1. CASE r = s
      <4>1. /\ Len(waiting[s]) \in Nat /\ Len(waiting'[s]) = Len(waiting[s]) + 1
            /\ waiting'[s][Len(waiting[s]) + 1] = f
            /\ \A i \in 1 .. Len(waiting[s]) : waiting'[s][i] = waiting[s][i]
        BY <1>1, AppendFacts
      <4>2. g # f /\ \A i \in 1 .. Len(waiting[s]) : waiting[s][i] # g
        BY DEF RunInv, FreshOK
      <4>3. ASSUME NEW i \in 1 .. Len(waiting'[s]) PROVE waiting'[s][i] # g
        BY <4>1, <4>2, <4>3
      <4>4. QED
        BY <3>1, <4>3
    <3>2. CASE r # s
      BY <1>1, <3>2 DEF RunInv, FreshOK
    <3>3. QED
      BY <3>1, <3>2
  <2>2. QED
    BY <1>2, <2>1 DEF RunInv, FreshOK
<1>6. RunInv'
  BY <1>3, <1>4, <1>5 DEF RunInv
<1>7. Pending'[s] = Append(Pending[s], f)
  <2>1. PendingTold /\ PendingTold'
    BY <1>6, PendingIs, PendingIsNext
  <2>2. CASE \E u \in Threads : \E g : Has(u, "acquired", s, g)
    <3>1. PICK u \in Threads : \E g : Has(u, "acquired", s, g)
      BY <2>2
    <3>2. PICK g : Has(u, "acquired", s, g)
      BY <3>1
    <3>3. g \in Funcs /\ Pending[s] = <<g>> \o waiting[s]
      BY <2>1, <3>2 DEF PendingTold
    <3>4. Pending'[s] = <<g>> \o waiting'[s]
      BY <1>2, <2>1, <3>2 DEF PendingTold
    <3>5. <<g>> \in Seq(Funcs)
      BY <3>3
    <3>6. <<g>> \o Append(waiting[s], f) = Append(<<g>> \o waiting[s], f)
      BY <1>1, <3>5, ConcatAppend
    <3>7. QED
      BY <1>1, <3>3, <3>4, <3>6
  <2>3. CASE \A u \in Threads : \A g : ~Has(u, "acquired", s, g)
    <3>1. Pending[s] = ready[s] \o waiting[s]
      BY <2>1, <2>3 DEF PendingTold
    <3>2. Pending'[s] = ready'[s] \o waiting'[s]
      BY <1>2, <2>1, <2>3 DEF PendingTold
    <3>3. ready[s] \o Append(waiting[s], f) = Append(ready[s] \o waiting[s], f)
      <4>1. PICK p \in Seq(Funcs), q \in Seq(Funcs) : p = ready[s] /\ q = waiting[s]
        BY <1>1
      <4>2. p \o Append(q, f) = Append(p \o q, f)
        BY ConcatAppend
      <4>3. QED
        BY <4>1, <4>2
    <3>4. QED
      BY <1>1, <3>1, <3>2, <3>3
  <2>4. QED
    BY <2>2, <2>3
<1>8. Pending' = [Pending EXCEPT ![s] = Append(Pending[s], f)]
  <2>1. Pending' = [Pending EXCEPT ![s] = Pending'[s]]
    BY <1>1, <1>2, <1>6, PendingExcept
  <2>2. QED
    BY <1>7, <2>1
<1>9. Running' = Running /\ Holder' = Holder
  BY <1>2, SameRunning DEF RunInv
<1>10. Abstract!Queue(s, f)
  BY <1>8, <1>9, FreshUnknown DEF Abstract!Queue
<1>11. QED
  BY <1>6, <1>10 DEF AbstractStep, Abstract!Next

\* After the end, a function is destroyed at once.
LEMMA RefuseStep ==
  ASSUME RunInv, Inv', NEW f \in Funcs, f \in fresh, fresh' = fresh \ {f},
         finished' = finished \cup {f},
         UNCHANGED <<locked, waiting, ready, stack>>
  PROVE  RunInv' /\ AbstractStep
<1>1. \A u \in Threads : \A kind, r, g : Has(u, kind, r, g)' <=> Has(u, kind, r, g)
  BY DEF Has, At
<1>2. NestOK' /\ OnceOK'
  BY DEF RunInv, NestOK, OnceOK, At
<1>3. HeadOK'
  BY <1>1 DEF RunInv, HeadOK
<1>4. FreshOK'
  BY <1>1 DEF RunInv, FreshOK
<1>5. RunInv'
  BY <1>2, <1>3, <1>4 DEF RunInv
<1>6. Pending' = Pending
  BY <1>1, <1>5, SamePending
<1>7. Running' = Running /\ Holder' = Holder
  BY <1>1, SameRunning DEF RunInv
<1>8. Abstract!Refuse(f)
  BY <1>6, <1>7, FreshUnknown DEF Abstract!Refuse
<1>9. QED
  BY <1>5, <1>8 DEF AbstractStep, Abstract!Next

LEMMA EnqueueStep ==
  ASSUME RunInv, NEW t \in Threads, NEW s \in Strands, NEW f \in Funcs,
         NEW mayBlock \in BOOLEAN, Enqueue(t, s, f, mayBlock)
  PROVE  RunInv' /\ AbstractStep
<1>1. Inv'
  BY EnqueueInv DEF RunInv
<1>2. /\ CanCall(t) /\ f \in fresh /\ fresh' = fresh \ {f}
      /\ UNCHANGED <<shutdown, ready, pool>>
  BY DEF Enqueue
<1>3. CASE shutdown
  BY <1>1, <1>2, <1>3, RefuseStep DEF Enqueue
<1>4. CASE ~shutdown /\ ~locked[s]
  BY <1>1, <1>2, <1>4, TakeStep DEF Enqueue, TakesStrand
<1>5. CASE ~shutdown /\ locked[s]
  BY <1>1, <1>2, <1>5, WaitStep DEF Enqueue, TakesStrand
<1>6. QED
  BY <1>3, <1>4, <1>5

LEMMA ConcatOf ==
  ASSUME NEW S, NEW p \in Seq(S), NEW q \in Seq(S), NEW x
  PROVE  (\E i \in DOMAIN (p \o q) : (p \o q)[i] = x)
           <=> x \in ToSet(p) \cup ToSet(q)
<1>1. /\ Len(p) \in Nat /\ Len(q) \in Nat
      /\ DOMAIN p = 1 .. Len(p) /\ DOMAIN q = 1 .. Len(q)
      /\ DOMAIN (p \o q) = 1 .. (Len(p) + Len(q))
      /\ \A i \in 1 .. (Len(p) + Len(q)) :
           (p \o q)[i] = IF i <= Len(p) THEN p[i] ELSE q[i - Len(p)]
  OBVIOUS
<1>2. ASSUME NEW i \in DOMAIN (p \o q), (p \o q)[i] = x
      PROVE  x \in ToSet(p) \cup ToSet(q)
  <2>1. CASE i <= Len(p)
    BY <1>1, <1>2, <2>1 DEF ToSet
  <2>2. CASE i > Len(p)
    <3>1. i - Len(p) \in DOMAIN q /\ x = q[i - Len(p)]
      BY <1>1, <1>2, <2>2
    <3>2. QED
      BY <3>1 DEF ToSet
  <2>3. QED
    BY <1>1, <2>1, <2>2
<1>3. ASSUME x \in ToSet(p) PROVE \E i \in DOMAIN (p \o q) : (p \o q)[i] = x
  <2>1. PICK i \in 1 .. Len(p) : x = p[i]
    BY <1>1, <1>3 DEF ToSet
  <2>2. i \in DOMAIN (p \o q) /\ (p \o q)[i] = x
    BY <1>1, <2>1
  <2>3. QED
    BY <2>2
<1>4. ASSUME x \in ToSet(q) PROVE \E i \in DOMAIN (p \o q) : (p \o q)[i] = x
  <2>1. PICK i \in 1 .. Len(q) : x = q[i]
    BY <1>1, <1>4 DEF ToSet
  <2>2. Len(p) + i \in DOMAIN (p \o q) /\ (p \o q)[Len(p) + i] = x
    BY <1>1, <2>1
  <2>3. QED
    BY <2>2
<1>5. QED
  BY <1>2, <1>3, <1>4

LEMMA ShutdownStep ==
  ASSUME RunInv, Shutdown
  PROVE  RunInv' /\ AbstractStep
<1>1. /\ Inv /\ Inv' /\ \A t \in Threads : stack[t] = <<>>
      /\ ready' = [s \in Strands |-> <<>>] /\ waiting' = [s \in Strands |-> <<>>]
      /\ UNCHANGED <<locked, stack, fresh, order>>
  BY ShutdownInv DEF RunInv, Shutdown
<1>2. \A u \in Threads : \A kind, r, g :
        ~Has(u, kind, r, g) /\ ~Has(u, kind, r, g)'
  BY <1>1 DEF Has
<1>3. NestOK' /\ OnceOK'
  BY <1>1 DEF RunInv, NestOK, OnceOK, At
<1>4. HeadOK'
  BY <1>1, <1>2 DEF HeadOK
<1>5. \A s \in Strands : /\ ready[s] \in Seq(Funcs) /\ waiting[s] \in Seq(Funcs)
                         /\ Pending[s] = ready[s] \o waiting[s]
  BY <1>1, <1>2, PendingIs DEF PendingTold, Inv, QueuesOK
<1> DEFINE Gone(s) == ToSet(ready[s]) \cup ToSet(waiting[s])
<1>6. finished' = finished \cup UNION {Gone(s) : s \in Strands}
  BY DEF Shutdown
<1>7. FreshOK'
  <2>1. ASSUME NEW f \in fresh, NEW s \in Strands PROVE f \notin Gone(s)
    <3>1. /\ DOMAIN ready[s] = 1 .. Len(ready[s])
          /\ DOMAIN waiting[s] = 1 .. Len(waiting[s])
      BY <1>5
    <3>2. QED
      BY <3>1 DEF RunInv, FreshOK, ToSet
  <2> HIDE DEF Gone
  <2>2. \A f \in fresh' : f \notin finished'
    BY <1>1, <1>6, <2>1 DEF RunInv, FreshOK
  <2>3. \A s \in Strands : Len(ready'[s]) = 0 /\ Len(waiting'[s]) = 0
    BY <1>1
  <2>4. QED
    BY <1>2, <2>2, <2>3 DEF FreshOK
<1>8. RunInv'
  BY <1>1, <1>3, <1>4, <1>7 DEF RunInv
<1>9. Pending' = [s \in Strands |-> <<>>]
  <2>1. PendingTold'
    BY <1>8, PendingIsNext
  <2>2. \A s \in Strands : Pending'[s] = ready'[s] \o waiting'[s]
    BY <1>2, <2>1 DEF PendingTold
  <2>3. \A s \in Strands : Pending'[s] = <<>>
    BY <1>1, <2>2
  <2>4. QED
    BY <2>3 DEF Pending
<1>10. Running' = Running /\ Holder' = Holder
  BY <1>1, <1>2, SameRunning
<1>11. \A s \in Strands : {Pending[s][i] : i \in DOMAIN Pending[s]} = Gone(s)
  <2>1. ASSUME NEW s \in Strands
        PROVE  {Pending[s][i] : i \in DOMAIN Pending[s]} = Gone(s)
    <3>1. PICK p \in Seq(Funcs), q \in Seq(Funcs) :
            p = ready[s] /\ q = waiting[s] /\ Pending[s] = p \o q
      BY <1>5
    <3>2. \A x : (\E i \in DOMAIN (p \o q) : (p \o q)[i] = x)
                  <=> x \in ToSet(p) \cup ToSet(q)
      BY ConcatOf
    <3>3. {(p \o q)[i] : i \in DOMAIN (p \o q)} = ToSet(p) \cup ToSet(q)
      BY <3>2
    <3>4. QED
      BY <3>1, <3>3
  <2>2. QED
    BY <2>1
<1>12. finished' = finished \cup
         UNION {{Pending[s][i] : i \in DOMAIN Pending[s]} : s \in Strands}
  <2> HIDE DEF Gone
  <2>1. {{Pending[s][i] : i \in DOMAIN Pending[s]} : s \in Strands}
          = {Gone(s) : s \in Strands}
    BY <1>11
  <2>2. QED
    BY <1>6, <2>1
<1>13. Abstract!Shutdown
  BY <1>9, <1>10, <1>12 DEF Abstract!Shutdown
<1>14. QED
  BY <1>8, <1>13 DEF AbstractStep, Abstract!Next

LEMMA InitRun == Init => RunInv /\ Abstract!Init
<1> SUFFICES ASSUME Init PROVE RunInv /\ Abstract!Init
  OBVIOUS
<1>1. Inv
  BY InitInv
<1>2. \A t \in Threads : stack[t] = <<>> /\ Len(stack[t]) = 0
  BY DEF Init
<1>3. \A t \in Threads : \A kind, s, f : ~Has(t, kind, s, f)
  BY <1>2 DEF Has
<1>4. NestOK /\ OnceOK
  BY <1>2 DEF NestOK, OnceOK
<1>5. \A s \in Strands : /\ ready[s] = <<>> /\ waiting[s] = <<>>
                         /\ Len(ready[s]) = 0 /\ Len(waiting[s]) = 0
  BY DEF Init
<1>6. HeadOK
  BY <1>3, <1>5 DEF HeadOK
<1>7. finished = {}
  BY DEF Init
<1>8. FreshOK
  BY <1>3, <1>5, <1>7 DEF FreshOK
<1>9. RunInv
  BY <1>1, <1>4, <1>6, <1>8 DEF RunInv
<1>10. Pending = [s \in Strands |-> <<>>]
  <2>1. \A s \in Strands : Pending[s] = ready[s] \o waiting[s]
    BY <1>3, <1>9, PendingIs DEF PendingTold
  <2>2. \A s \in Strands : Pending[s] = <<>>
    BY <1>5, <2>1, ConcatEmpty
  <2>3. QED
    BY <2>2 DEF Pending
<1>11. RunningTold /\ HolderTold
  BY <1>1, RunningIs, HolderIs DEF Inv
<1>12. Running = [s \in Strands |-> {}]
  <2>1. \A s \in Strands : Running[s] = {}
    BY <1>3, <1>11 DEF RunningTold
  <2>2. QED
    BY <2>1 DEF Running
<1>13. Holder = [s \in Strands |-> NoThread]
  <2>1. \A s \in Strands : Holder[s] = NoThread
    BY <1>3, <1>11 DEF RunningTold, HolderTold
  <2>2. QED
    BY <2>1 DEF Holder
<1>14. Abstract!Init
  BY <1>7, <1>10, <1>12, <1>13 DEF Abstract!Init
<1>15. QED
  BY <1>9, <1>14

LEMMA StutterStep ==
  ASSUME RunInv, UNCHANGED vars
  PROVE  RunInv' /\ AbstractStep
<1>1. Inv'
  BY NextInv DEF RunInv
<1>2. UNCHANGED <<locked, waiting, ready, stack, fresh, finished>>
  BY DEF vars
<1>3. SameFunctions
  BY <1>2 DEF SameFunctions, Has, At
<1>4. NestOK' /\ OnceOK'
  BY <1>2 DEF RunInv, NestOK, OnceOK, At
<1>5. QED
  BY <1>1, <1>2, <1>3, <1>4, HolderStep

\* Every step keeps the invariant, and is a step of Strand or none.
LEMMA NextRun ==
  ASSUME RunInv, [Next]_vars
  PROVE  RunInv' /\ AbstractStep
<1>1. ASSUME NEW t \in Threads, Advance(t) PROVE RunInv' /\ AbstractStep
  <2>1. CASE Return(t)
    BY <2>1, ReturnStep DEF Return
  <2>2. QED
    BY <1>1, <2>1, PushReadyStep, ScheduleStep, RunInvokerStep, RunNextStep,
       ThrowStep, ExitStep, AgainStep DEF Advance
<1>2. ASSUME NEW t \in Threads, NEW s \in Strands, Submit(t, s)
      PROVE  RunInv' /\ AbstractStep
  <2>1. NextFunc \in Funcs
    BY <1>2 DEF Submit, NextFunc, RunInv, Inv, QueuesOK
  <2>2. QED
    BY <1>2, <2>1, RunInlineStep, EnqueueStep DEF Submit
<1>3. QED
  BY <1>1, <1>2, ShutdownStep, StutterStep DEF Next

\* The strand service keeps what a strand promises, for any threads, strands and
\* functions: what is queued starts in the order in which it was queued, once,
\* when nothing of its strand runs; what is dispatched in the strand runs within
\* what runs there; and what waits at the end is destroyed.
THEOREM StrandImplements == Spec => ImplementsStrand
<1>1. Init => RunInv /\ Abstract!Init
  BY InitRun
<1>2. RunInv /\ [Next]_vars => RunInv' /\ [Abstract!Next]_(Abstract!vars)
  BY NextRun DEF AbstractStep
<1>3. QED
  BY <1>1, <1>2, PTL DEF Spec, ImplementsStrand, Abstract!Spec
============================================================================
