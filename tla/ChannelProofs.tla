---------------------------- MODULE ChannelProofs ----------------------------
(***************************************************************************)
(* That a channel never gives a message twice, that its two states tell    *)
(* what waits on it, and that it is a bounded mailbox: for any channels,   *)
(* operations and capacities, and the programs of MovedAlone, Settled and  *)
(* MailboxLike.                                                            *)
(*                                                                         *)
(* There are four invariants, each of which needs the one before.  Alone   *)
(* says that what is moved is not used otherwise.  Inv says that the       *)
(* result of an operation tells which queue it is in, and that it is there *)
(* once.  StatesInv says which pairs of states a channel can have and what *)
(* waits and is stored then.  Room says that senders block exactly when    *)
(* the buffer is full.                                                     *)
(***************************************************************************)
EXTENDS Channel, SequenceTheorems, TLAPS

----------------------------------------------------------------------------
(* Queues, one for each channel *)

\* p is q but for what it has for c.
Only(c, p, q) == \A d \in Channels : d # c => p[d] = q[d]

In(q, c, x) == \E i \in 1 .. Len(q[c]) : q[c][i] = x

Nowhere(q, x) == \A d \in Channels : ~In(q, d, x)

\* What is in p is what is in q, and x for c; or but x for c; or but what q
\* has for c.
Joined(p, q, c, x) ==
  \A d \in Channels : \A y : In(p, d, y) <=> In(q, d, y) \/ (d = c /\ y = x)

Parted(p, q, c, x) ==
  \A d \in Channels : \A y :
    /\ In(p, d, y) => In(q, d, y)
    /\ In(q, d, y) => In(p, d, y) \/ (d = c /\ y = x)

Within(p, q) ==
  \A c \in Channels : \A y : In(p, c, y) => \E d \in Channels : In(q, d, y)

Left(p, q, c) == \A d \in Channels : \A y : In(p, d, y) <=> In(q, d, y) /\ d # c

\* No element is at two positions.
Once(q) ==
  \A c, d \in Channels : \A i \in 1 .. Len(q[c]), j \in 1 .. Len(q[d]) :
    q[c][i] = q[d][j] => c = d /\ i = j

LEMMA ByLength ==
  ASSUME NEW S, NEW s \in Seq(S)
  PROVE  Len(s) \in Nat /\ (s = <<>> <=> Len(s) = 0)
OBVIOUS

LEMMA OnePlace ==
  ASSUME NEW q, Once(q), NEW c \in Channels, NEW d \in Channels,
         NEW i \in 1 .. Len(q[c]), NEW j \in 1 .. Len(q[d]), q[c][i] = q[d][j]
  PROVE  c = d /\ i = j
BY DEF Once

LEMMA HeadIn ==
  ASSUME NEW S, NEW q \in [Channels -> Seq(S)], NEW c \in Channels, q[c] # <<>>
  PROVE  In(q, c, Head(q[c])) /\ Head(q[c]) \in S
<1>1. q[c] \in Seq(S) /\ Len(q[c]) \in Nat \ {0}
  OBVIOUS
<1>2. Head(q[c]) = q[c][1] /\ 1 \in 1 .. Len(q[c])
  BY <1>1
<1>3. QED
  BY <1>1, <1>2 DEF In

LEMMA Appended ==
  ASSUME NEW S, NEW q \in [Channels -> Seq(S)], NEW c \in Channels, NEW x \in S,
         NEW p \in [Channels -> Seq(S)], p[c] = Append(q[c], x), Only(c, p, q)
  PROVE  /\ p[c] # <<>>
         /\ Joined(p, q, c, x)
         /\ Once(q) /\ Nowhere(q, x) => Once(p)
<1>1. /\ q[c] \in Seq(S) /\ Append(q[c], x) \in Seq(S)
      /\ p[c] = Append(q[c], x) /\ p[c] # <<>>
      /\ \A d \in Channels : d # c => p[d] = q[d]
  BY DEF Only
<1>2. /\ Len(q[c]) \in Nat /\ Len(p[c]) = Len(q[c]) + 1
      /\ p[c][Len(q[c]) + 1] = x
      /\ \A i \in 1 .. Len(q[c]) : p[c][i] = q[c][i]
  BY <1>1
<1>3. \A i \in 1 .. Len(p[c]) :
        \/ i \in 1 .. Len(q[c]) /\ p[c][i] = q[c][i]
        \/ i = Len(q[c]) + 1 /\ p[c][i] = x
  BY <1>2
<1>4. ASSUME NEW d \in Channels, NEW y
      PROVE  In(p, d, y) <=> In(q, d, y) \/ (d = c /\ y = x)
  <2>1. CASE d = c
    <3>1. In(p, c, y) => In(q, c, y) \/ y = x
      BY <1>3 DEF In
    <3>2. In(q, c, y) => In(p, c, y)
      BY <1>2 DEF In
    <3>3. In(p, c, x)
      <4>1. Len(q[c]) + 1 \in 1 .. Len(p[c])
        BY <1>2
      <4>2. QED
        BY <1>2, <4>1 DEF In
    <3>4. QED
      BY <2>1, <3>1, <3>2, <3>3
  <2>2. CASE d # c
    BY <1>1, <2>2 DEF In
  <2>3. QED
    BY <2>1, <2>2
<1>5. ASSUME Once(q), Nowhere(q, x)
      PROVE  Once(p)
  <2>1. \A d \in Channels : \A i \in 1 .. Len(p[d]) :
          \/ i \in 1 .. Len(q[d]) /\ p[d][i] = q[d][i] /\ p[d][i] # x
          \/ d = c /\ i = Len(q[c]) + 1 /\ p[d][i] = x
    BY <1>1, <1>3, <1>5 DEF In, Nowhere
  <2>2. QED
    BY <1>5, <2>1 DEF Once
<1>6. Joined(p, q, c, x)
  BY <1>4 DEF Joined
<1>7. QED
  BY <1>1, <1>5, <1>6

LEMMA Removed ==
  ASSUME NEW S, NEW q \in [Channels -> Seq(S)], NEW c \in Channels,
         NEW i \in 1 .. Len(q[c]), NEW p \in [Channels -> Seq(S)],
         p[c] = RemoveAt(q[c], i), Only(c, p, q)
  PROVE  /\ p[c] \in Seq(S) /\ Len(p[c]) = Len(q[c]) - 1
         /\ Parted(p, q, c, q[c][i])
         /\ Once(q) => Once(p) /\ Nowhere(p, q[c][i])
<1>1. /\ q[c] \in Seq(S) /\ Len(q[c]) \in Nat \ {0} /\ i \in Nat \ {0}
      /\ i <= Len(q[c])
  OBVIOUS
<1> DEFINE a == SubSeq(q[c], 1, i - 1)
           b == SubSeq(q[c], i + 1, Len(q[c]))
<1>2. /\ a \in Seq(S) /\ Len(a) = i - 1
      /\ \A j \in 1 .. (i - 1) : a[j] = q[c][j]
  <2>1. \A j \in 1 .. (i - 1) : q[c][j] \in S
    BY <1>1
  <2>2. 1 \in Int /\ i - 1 \in Int
    BY <1>1
  <2>3. /\ a \in Seq(S)
        /\ Len(a) = IF 1 <= i - 1 THEN i - 1 - 1 + 1 ELSE 0
        /\ \A j \in 1 .. (i - 1 - 1 + 1) : a[j] = q[c][1 + j - 1]
    BY <2>1, <2>2, SubSeqProperties
  <2>4. QED
    BY <1>1, <2>3
<1>3. /\ b \in Seq(S) /\ Len(b) = Len(q[c]) - i
      /\ \A j \in 1 .. (Len(q[c]) - i) : b[j] = q[c][i + j]
  <2>1. \A j \in (i + 1) .. Len(q[c]) : q[c][j] \in S
    BY <1>1
  <2>2. i + 1 \in Int /\ Len(q[c]) \in Int
    BY <1>1
  <2>3. /\ b \in Seq(S)
        /\ Len(b) = IF i + 1 <= Len(q[c]) THEN Len(q[c]) - (i + 1) + 1 ELSE 0
        /\ \A j \in 1 .. (Len(q[c]) - (i + 1) + 1) : b[j] = q[c][i + 1 + j - 1]
    BY <2>1, <2>2, SubSeqProperties
  <2>4. Len(q[c]) - (i + 1) + 1 = Len(q[c]) - i
    BY <1>1
  <2>5. \A j \in 1 .. (Len(q[c]) - i) : i + 1 + j - 1 = i + j
    BY <1>1
  <2>6. QED
    BY <1>1, <2>3, <2>4, <2>5
<1>4. RemoveAt(q[c], i) = a \o b
  BY DEF RemoveAt
<1> HIDE DEF a, b
<1>5. /\ a \o b \in Seq(S) /\ Len(a \o b) = Len(a) + Len(b)
      /\ \A j \in 1 .. (Len(a) + Len(b)) :
           (a \o b)[j] = IF j <= Len(a) THEN a[j] ELSE b[j - Len(a)]
  BY <1>2, <1>3, ConcatProperties
<1>6. /\ p[c] \in Seq(S) /\ p[c] = a \o b
      /\ \A d \in Channels : d # c => p[d] = q[d]
  BY <1>4, <1>5 DEF Only
<1>7. /\ Len(p[c]) = Len(q[c]) - 1
      /\ \A j \in 1 .. (Len(q[c]) - 1) :
           p[c][j] = IF j < i THEN q[c][j] ELSE q[c][j + 1]
  <2>1. Len(p[c]) = Len(q[c]) - 1
    BY <1>1, <1>2, <1>3, <1>5, <1>6
  <2>2. ASSUME NEW j \in 1 .. (Len(q[c]) - 1)
        PROVE  p[c][j] = IF j < i THEN q[c][j] ELSE q[c][j + 1]
    <3>1. /\ j \in 1 .. (Len(a) + Len(b))
          /\ p[c][j] = IF j <= i - 1 THEN a[j] ELSE b[j - (i - 1)]
      BY <1>1, <1>2, <1>3, <1>5, <1>6
    <3>2. CASE j < i
      <4>1. j <= i - 1 /\ j \in 1 .. (i - 1)
        BY <1>1, <3>2
      <4>2. QED
        BY <1>2, <3>1, <3>2, <4>1
    <3>3. CASE ~(j < i)
      <4>1. ~(j <= i - 1) /\ j - (i - 1) \in 1 .. (Len(q[c]) - i)
        BY <1>1, <3>3
      <4>2. i + (j - (i - 1)) = j + 1
        BY <1>1
      <4>3. b[j - (i - 1)] = q[c][i + (j - (i - 1))]
        BY <1>3, <4>1
      <4>4. QED
        BY <3>1, <3>3, <4>1, <4>2, <4>3
    <3>4. QED
      BY <3>2, <3>3
  <2>3. QED
    BY <2>1, <2>2
<1>8. \A d \in Channels : \A j \in 1 .. Len(p[d]) :
        LET k == IF d = c /\ j >= i THEN j + 1 ELSE j
        IN  /\ k \in 1 .. Len(q[d]) /\ p[d][j] = q[d][k]
            /\ d = c => k # i
  <2>1. \A d \in Channels : d # c => p[d] = q[d]
    BY <1>6
  <2>2. ASSUME NEW j \in 1 .. Len(p[c]), NEW k, k = IF j >= i THEN j + 1 ELSE j
        PROVE  k \in 1 .. Len(q[c]) /\ p[c][j] = q[c][k] /\ k # i
    <3>1. j \in 1 .. (Len(q[c]) - 1)
      BY <1>7, <2>2
    <3>2. QED
      BY <1>1, <1>7, <2>2, <3>1
  <2>3. QED
    BY <2>1, <2>2
<1>9. \A d \in Channels : \A y : In(p, d, y) => In(q, d, y)
  BY <1>8 DEF In
<1>10. ASSUME NEW d \in Channels, NEW y, In(q, d, y), ~(d = c /\ y = q[c][i])
       PROVE  In(p, d, y)
  <2>1. PICK k \in 1 .. Len(q[d]) : q[d][k] = y
    BY <1>10 DEF In
  <2>2. CASE d # c
    BY <1>6, <2>1, <2>2 DEF In
  <2>3. CASE d = c
    <3>1. k # i
      BY <1>10, <2>1, <2>3
    <3>2. CASE k < i
      <4>1. k \in 1 .. Len(p[c]) /\ p[c][k] = y
        BY <1>1, <1>7, <2>1, <2>3, <3>2
      <4>2. QED
        BY <2>3, <4>1 DEF In
    <3>3. CASE k > i
      <4>1. k - 1 \in 1 .. Len(p[c]) /\ p[c][k - 1] = y
        BY <1>1, <1>7, <2>1, <2>3, <3>3
      <4>2. QED
        BY <2>3, <4>1 DEF In
    <3>4. QED
      BY <1>1, <2>1, <2>3, <3>1, <3>2, <3>3
  <2>4. QED
    BY <2>2, <2>3
<1>11. ASSUME Once(q)
       PROVE  Once(p) /\ Nowhere(p, q[c][i])
  <2>1. Once(p)
    <3>1. SUFFICES ASSUME NEW d \in Channels, NEW e \in Channels,
                          NEW j \in 1 .. Len(p[d]), NEW k \in 1 .. Len(p[e]),
                          p[d][j] = p[e][k]
                   PROVE  d = e /\ j = k
      BY DEF Once
    <3> DEFINE m == IF d = c /\ j >= i THEN j + 1 ELSE j
               n == IF e = c /\ k >= i THEN k + 1 ELSE k
    <3>2. /\ m \in 1 .. Len(q[d]) /\ p[d][j] = q[d][m]
          /\ n \in 1 .. Len(q[e]) /\ p[e][k] = q[e][n]
      BY <1>8
    <3> HIDE DEF m, n
    <3>3. d = e /\ m = n
      <4>1. q[d][m] = q[e][n]
        BY <3>1, <3>2
      <4>2. QED
        BY <1>11, <3>2, <4>1, OnePlace
    <3>4. j \in Nat /\ k \in Nat
      BY <3>1
    <3>5. QED
      BY <1>1, <3>3, <3>4 DEF m, n
  <2>2. ASSUME NEW d \in Channels, In(p, d, q[c][i])
        PROVE  FALSE
    <3>1. PICK j \in 1 .. Len(p[d]) : p[d][j] = q[c][i]
      BY <2>2 DEF In
    <3>2. PICK k \in 1 .. Len(q[d]) : p[d][j] = q[d][k] /\ (d = c => k # i)
      BY <1>8
    <3>3. q[c][i] = q[d][k]
      BY <3>1, <3>2
    <3>4. c = d /\ i = k
      BY <1>11, <3>2, <3>3, OnePlace
    <3>5. QED
      BY <3>2, <3>4
  <2>3. QED
    BY <2>1, <2>2 DEF Nowhere
<1>12. Parted(p, q, c, q[c][i])
  BY <1>9, <1>10 DEF Parted
<1>13. QED
  BY <1>6, <1>7, <1>11, <1>12

LEMMA Tailed ==
  ASSUME NEW S, NEW q \in [Channels -> Seq(S)], NEW c \in Channels, q[c] # <<>>,
         NEW p \in [Channels -> Seq(S)], p[c] = Tail(q[c]), Only(c, p, q)
  PROVE  /\ p[c] \in Seq(S) /\ Len(p[c]) = Len(q[c]) - 1
         /\ Parted(p, q, c, Head(q[c]))
         /\ Once(q) => Once(p) /\ Nowhere(p, Head(q[c]))
<1>1. /\ q[c] \in Seq(S) /\ Len(q[c]) \in Nat \ {0} /\ Head(q[c]) = q[c][1]
      /\ Tail(q[c]) \in Seq(S) /\ Len(Tail(q[c])) = Len(q[c]) - 1
      /\ \A j \in 1 .. (Len(q[c]) - 1) : Tail(q[c])[j] = q[c][j + 1]
  OBVIOUS
<1>2. /\ p[c] \in Seq(S) /\ p[c] = Tail(q[c])
      /\ \A d \in Channels : d # c => p[d] = q[d]
  BY <1>1 DEF Only
<1>3. \A d \in Channels : \A j \in 1 .. Len(p[d]) :
        LET k == IF d = c THEN j + 1 ELSE j
        IN  /\ k \in 1 .. Len(q[d]) /\ p[d][j] = q[d][k]
            /\ d = c => k # 1
  <2>1. \A d \in Channels : d # c => p[d] = q[d]
    BY <1>2
  <2>2. ASSUME NEW j \in 1 .. Len(p[c])
        PROVE  j + 1 \in 1 .. Len(q[c]) /\ p[c][j] = q[c][j + 1] /\ j + 1 # 1
    <3>1. j \in 1 .. (Len(q[c]) - 1)
      BY <1>1, <1>2, <2>2
    <3>2. QED
      BY <1>1, <1>2, <3>1
  <2>3. QED
    BY <2>1, <2>2
<1>4. \A d \in Channels : \A y : In(p, d, y) => In(q, d, y)
  BY <1>3 DEF In
<1>5. ASSUME NEW d \in Channels, NEW y, In(q, d, y), ~(d = c /\ y = Head(q[c]))
      PROVE  In(p, d, y)
  <2>1. PICK k \in 1 .. Len(q[d]) : q[d][k] = y
    BY <1>5 DEF In
  <2>2. CASE d # c
    BY <1>2, <2>1, <2>2 DEF In
  <2>3. CASE d = c
    <3>1. k - 1 \in 1 .. Len(p[c]) /\ p[c][k - 1] = y
      BY <1>1, <1>2, <1>5, <2>1, <2>3
    <3>2. QED
      BY <2>3, <3>1 DEF In
  <2>4. QED
    BY <2>2, <2>3
<1>6. ASSUME Once(q)
      PROVE  Once(p) /\ Nowhere(p, Head(q[c]))
  <2>1. Once(p)
    <3>1. SUFFICES ASSUME NEW d \in Channels, NEW e \in Channels,
                          NEW j \in 1 .. Len(p[d]), NEW k \in 1 .. Len(p[e]),
                          p[d][j] = p[e][k]
                   PROVE  d = e /\ j = k
      BY DEF Once
    <3> DEFINE m == IF d = c THEN j + 1 ELSE j
               n == IF e = c THEN k + 1 ELSE k
    <3>2. /\ m \in 1 .. Len(q[d]) /\ p[d][j] = q[d][m]
          /\ n \in 1 .. Len(q[e]) /\ p[e][k] = q[e][n]
      BY <1>3
    <3> HIDE DEF m, n
    <3>3. d = e /\ m = n
      <4>1. q[d][m] = q[e][n]
        BY <3>1, <3>2
      <4>2. QED
        BY <1>6, <3>2, <4>1, OnePlace
    <3>4. j \in Nat /\ k \in Nat
      BY <3>1
    <3>5. QED
      BY <3>3, <3>4 DEF m, n
  <2>2. ASSUME NEW d \in Channels, In(p, d, Head(q[c]))
        PROVE  FALSE
    <3>1. 1 \in 1 .. Len(q[c])
      BY <1>1
    <3>2. QED
      BY <1>1, <1>3, <1>6, <2>2, <3>1 DEF In, Once
  <2>3. QED
    BY <2>1, <2>2 DEF Nowhere
<1>7. Parted(p, q, c, Head(q[c]))
  BY <1>4, <1>5 DEF Parted
<1>8. QED
  BY <1>1, <1>2, <1>6, <1>7

LEMMA Emptied ==
  ASSUME NEW S, NEW q \in [Channels -> Seq(S)], NEW c \in Channels,
         NEW p \in [Channels -> Seq(S)], p[c] = <<>>, Only(c, p, q)
  PROVE  /\ Left(p, q, c)
         /\ Once(q) => Once(p)
<1>1. /\ p[c] = <<>> /\ Len(p[c]) = 0
      /\ \A d \in Channels : d # c => p[d] = q[d]
  BY DEF Only
<1>2. Left(p, q, c)
  BY <1>1 DEF In, Left
<1>3. ASSUME Once(q)
      PROVE  Once(p)
  <2>1. SUFFICES ASSUME NEW d \in Channels, NEW e \in Channels,
                        NEW j \in 1 .. Len(p[d]), NEW k \in 1 .. Len(p[e]),
                        p[d][j] = p[e][k]
                 PROVE  d = e /\ j = k
    BY DEF Once
  <2>2. d # c /\ e # c
    BY <1>1, <2>1
  <2>3. p[d] = q[d] /\ p[e] = q[e]
    BY <1>1, <2>2
  <2>4. QED
    BY <1>3, <2>1, <2>3 DEF Once
<1>4. QED
  BY <1>1, <1>2, <1>3

----------------------------------------------------------------------------
(* The inductive invariant behind MessageNotDuplicated *)

States == {"block", "buffer", "waiter", "closed"}

Results == {"new", "copying", "waiting", "ok", "closed", "cancelled", "destroyed"}

TypeOK ==
  /\ capacity \in [Channels -> DOMAIN Uses]
  /\ receiveState \in [Channels -> States]
  /\ sendState \in [Channels -> States]
  /\ buffer \in [Channels -> Seq(Senders)]
  /\ waiters \in [Channels -> Seq(Ops)]
  /\ copies \in [Channels -> Seq(Senders)]
  /\ resetting \subseteq Channels
  /\ result \in [Ops -> Results]
  /\ got \in [Receivers -> Senders \cup {NoMessage}]
  /\ undefined \in BOOLEAN /\ down \in BOOLEAN

\* The result of an operation tells which of the queues it is in.
Sorted ==
  /\ Once(Contents) /\ Once(waiters) /\ Once(copies)
  /\ \A c \in Channels, o \in Ops :
       /\ In(Contents, c, o) => result[o] = "ok"
       /\ In(waiters, c, o) => result[o] = "waiting"
       /\ In(copies, c, o) => result[o] = "copying"

\* A message that was received is not in a Contents, nor received again.
Received ==
  \A r \in Receivers : got[r] # NoMessage =>
    /\ result[got[r]] = "ok"
    /\ \A q \in Receivers : got[q] = got[r] => q = r
    /\ \A c \in Channels : ~In(Contents, c, got[r])

Inv == TypeOK /\ Sorted /\ Received

\* The program moves no channel while other threads use it.
MovedAlone == MovesRace => \A n \in DOMAIN Uses : "move" \notin Uses[n]

\* What is moved is in one move, and not used otherwise.
Alone ==
  /\ moving \subseteq Channels \X Channels \X {"receive", "send", "copy", "clear"}
  /\ moving # {} => ~MovesRace
  /\ \A m \in moving : m[1] # m[2]
  /\ \A m, n \in moving : m = n \/ {m[1], m[2]} \cap {n[1], n[2]} = {}
  /\ \A c \in Moved : c \notin resetting /\ copies[c] = <<>>

LEMMA Kinds ==
  /\ Senders \subseteq Ops /\ Receivers \subseteq Ops
  /\ \A s \in Senders : s \notin Receivers /\ s # NoMessage
BY ChannelAssumption DEF Ops

\* What is not moved has the contents of its buffer.
LEMMA SameContents ==
  ASSUME UNCHANGED <<buffer, moving>>
  PROVE  Contents' = Contents
BY DEF Contents, Copied

LEMMA ContentsType == TypeOK => Contents \in [Channels -> Seq(Senders)]
<1>1. <<>> \in Seq(Senders)
  OBVIOUS
<1>2. QED
  BY <1>1 DEF TypeOK, Contents

LEMMA OneContents ==
  ASSUME TypeOK, UNCHANGED moving, NEW c \in Channels, ~Copied(c),
         NEW x \in Seq(Senders), buffer' = [buffer EXCEPT ![c] = x]
  PROVE  /\ Contents[c] = buffer[c]
         /\ Contents' = [Contents EXCEPT ![c] = x]
         /\ Contents' \in [Channels -> Seq(Senders)]
         /\ Contents'[c] = x /\ Only(c, Contents', Contents)
         /\ buffer' \in [Channels -> Seq(Senders)]
<1>1. \A d \in Channels : Copied(d)' <=> Copied(d)
  BY DEF Copied
<1>2. buffer' \in [Channels -> Seq(Senders)] /\ <<>> \in Seq(Senders)
  BY DEF TypeOK
<1>3. QED
  BY <1>1, <1>2 DEF Contents, TypeOK, Only

LEMMA EndedFacts ==
  ASSUME TypeOK, NEW S, NEW h \in Results, result' = Ended(S, h)
  PROVE  /\ result' \in [Ops -> Results]
         /\ \A o \in Ops : result'[o] = IF o \in S THEN h ELSE result[o]
BY DEF TypeOK, Ended

\* The queues are what they were, or have fewer operations in them, and the
\* operations that ended otherwise were waiting.
LEMMA FewerKeep ==
  ASSUME Inv, TypeOK', Once(Contents'), Once(waiters'), Once(copies'),
         UNCHANGED got,
         \A c \in Channels, o \in Ops :
           /\ In(Contents', c, o) => \E d \in Channels : In(Contents, d, o)
           /\ In(waiters', c, o) =>
                result'[o] = result[o] /\ \E d \in Channels : In(waiters, d, o)
           /\ In(copies', c, o) =>
                result'[o] = result[o] /\ \E d \in Channels : In(copies, d, o),
         \A o \in Ops : result[o] = "ok" => result'[o] = "ok"
  PROVE  Inv'
<1>1. Sorted'
  BY DEF Inv, Sorted
<1>2. Received'
  <2>1. SUFFICES ASSUME NEW r \in Receivers, got[r] # NoMessage
                 PROVE  /\ result'[got[r]] = "ok"
                        /\ \A q \in Receivers : got[q] = got[r] => q = r
                        /\ \A c \in Channels : ~In(Contents', c, got[r])
    BY DEF Received
  <2>2. got[r] \in Ops
    BY <2>1, Kinds DEF Inv, TypeOK
  <2>3. QED
    BY <2>1, <2>2 DEF Inv, Received
<1>3. QED
  BY <1>1, <1>2 DEF Inv

LEMMA InitInv ==
  ASSUME Init
  PROVE  Inv
<1>1. TypeOK
  <2>1. /\ NoMessage \in Senders \cup {NoMessage} /\ {"new"} \subseteq Results
        /\ <<>> \in Seq(Senders) /\ <<>> \in Seq(Ops)
    BY DEF Results
  <2>2. \A c \in Channels : Idle(c) \in States /\ "block" \in States
    BY DEF Idle, States
  <2>3. QED
    BY <2>1, <2>2 DEF Init, TypeOK
<1>2. \A c \in Channels : \A o :
        ~In(Contents, c, o) /\ ~In(waiters, c, o) /\ ~In(copies, c, o)
  BY DEF Init, In, Contents
<1>3. Once(Contents) /\ Once(waiters) /\ Once(copies)
  BY DEF Init, Once, Contents
<1>4. Sorted
  BY <1>2, <1>3 DEF Sorted
<1>5. Received
  BY DEF Init, Received
<1>6. QED
  BY <1>1, <1>4, <1>5 DEF Inv

LEMMA PutKeeps ==
  ASSUME Inv, NEW c \in Channels, NEW s \in Senders, Put(c, s),
         result[s] \in {"new", "copying"},
         TypeOK /\ capacity' = capacity /\ resetting' = resetting /\ down' = down,
         ~Copied(c), UNCHANGED moving,
         copies' \in [Channels -> Seq(Senders)], Once(copies'),
         \A d \in Channels, o \in Ops :
           In(copies', d, o) => In(copies, d, o) /\ o # s
  PROVE  Inv'
<1>1. /\ s \in Ops /\ s # NoMessage /\ s \notin Receivers
      /\ Nowhere(Contents, s) /\ Nowhere(waiters, s)
      /\ \A r \in Receivers : got[r] # s
  <2>1. s \in Ops /\ s # NoMessage /\ s \notin Receivers
    BY Kinds
  <2>2. QED
    BY <2>1 DEF Inv, Sorted, Received, Nowhere
<1>2. CASE PutInBuffer(c, s)
  <2>1. /\ buffer' \in [Channels -> Seq(Senders)] /\ Once(Contents')
        /\ Joined(Contents', Contents, c, s)
    <3>1. /\ Contents' \in [Channels -> Seq(Senders)]
          /\ Contents'[c] = Append(Contents[c], s) /\ Only(c, Contents', Contents)
          /\ buffer' \in [Channels -> Seq(Senders)]
      <4>1. /\ buffer' = [buffer EXCEPT ![c] = Append(buffer[c], s)]
            /\ Append(buffer[c], s) \in Seq(Senders)
        BY <1>2 DEF PutInBuffer, TypeOK
      <4>2. QED
        BY <4>1, OneContents
    <3>2. Contents \in [Channels -> Seq(Senders)] /\ Once(Contents)
      BY ContentsType DEF Inv, Sorted
    <3>3. Joined(Contents', Contents, c, s) /\ (Nowhere(Contents, s) => Once(Contents'))
      BY <3>1, <3>2, Appended
    <3>4. QED
      BY <1>1, <3>1, <3>3
  <2>2. /\ result' \in [Ops -> Results]
        /\ \A o \in Ops : result'[o] = IF o \in {s} THEN "ok" ELSE result[o]
    <3>1. result' = Ended({s}, "ok") /\ "ok" \in Results
      BY <1>2 DEF PutInBuffer, Results
    <3>2. QED
      BY <3>1, EndedFacts
  <2>3. TypeOK'
    BY <1>2, <2>1, <2>2 DEF PutInBuffer, TypeOK, States
  <2>4. Sorted'
    BY <1>1, <1>2, <2>1, <2>2 DEF PutInBuffer, Inv, Sorted, Nowhere, Joined
  <2>5. Received'
    <3>1. got' = got /\ \A r \in Receivers : got[r] # NoMessage => got[r] \in Ops
      BY <1>2, Kinds DEF PutInBuffer, TypeOK
    <3>2. QED
      BY <1>1, <2>1, <2>2, <3>1 DEF Inv, Received, Nowhere, Joined
  <2>6. QED
    BY <2>3, <2>4, <2>5 DEF Inv
<1>3. CASE PutToWaiter(c, s)
  <2> DEFINE o == Head(waiters[c])
  <2>1. /\ waiters' \in [Channels -> Seq(Ops)] /\ Once(waiters')
        /\ Parted(waiters', waiters, c, o) /\ Nowhere(waiters', o)
        /\ In(waiters, c, o) /\ o \in Ops
    <3>1. /\ waiters' \in [Channels -> Seq(Ops)] /\ waiters[c] # <<>>
          /\ waiters'[c] = Tail(waiters[c]) /\ Only(c, waiters', waiters)
      BY <1>3 DEF PutToWaiter, TypeOK, Only
    <3>2. waiters \in [Channels -> Seq(Ops)] /\ Once(waiters)
      BY DEF TypeOK, Inv, Sorted
    <3>3. In(waiters, c, o) /\ o \in Ops
      BY <3>1, <3>2, HeadIn
    <3>4. QED
      BY <3>1, <3>2, <3>3, Tailed
  <2>2. /\ result' \in [Ops -> Results]
        /\ \A x \in Ops : result'[x] = IF x \in {o, s} THEN "ok" ELSE result[x]
    <3>1. result' = Ended({o, s}, "ok") /\ "ok" \in Results
      BY <1>3 DEF PutToWaiter, Results
    <3>2. QED
      BY <3>1, EndedFacts
  <2>3. /\ got' \in [Receivers -> Senders \cup {NoMessage}]
        /\ \A r \in Receivers : got'[r] = IF r = o THEN s ELSE got[r]
    BY <1>3 DEF PutToWaiter, GotBy, TypeOK
  <2>4. /\ result[o] = "waiting"
        /\ Nowhere(copies, o) /\ Nowhere(Contents, o)
        /\ \A r \in Receivers : got[r] # NoMessage => got[r] # o
    BY <2>1 DEF Inv, Sorted, Received, Nowhere
  <2> HIDE DEF o
  <2>5. TypeOK'
    BY <1>3, <2>1, <2>2, <2>3
    DEF PutToWaiter, TypeOK, States, NextSendState, Idle
  <2>6. Sorted'
    <3>1. Contents' = Contents
      BY <1>3, SameContents DEF PutToWaiter
    <3>2. QED
      BY <1>1, <2>1, <2>2, <2>4, <3>1 DEF Inv, Sorted, Nowhere, Parted
  <2>7. Received'
    <3>1. Contents' = Contents
      BY <1>3, SameContents DEF PutToWaiter
    <3>2. \A r \in Receivers : got[r] # NoMessage => got[r] \in Ops
      BY Kinds DEF TypeOK
    <3>3. QED
      BY <1>1, <2>2, <2>3, <2>4, <3>1, <3>2 DEF Inv, Received, Nowhere, Parted
  <2>8. QED
    BY <2>5, <2>6, <2>7 DEF Inv
<1>4. CASE PutToNobody(c)
  <2>1. UNCHANGED <<chanVars, opVars>> /\ undefined' = TRUE
    BY <1>4 DEF PutToNobody, Undefined
  <2>2. TypeOK'
    BY <2>1 DEF TypeOK, chanVars, opVars
  <2>3. Contents' = Contents
    BY <2>1, SameContents DEF chanVars
  <2>4. QED
    BY <2>1, <2>2, <2>3 DEF Inv, Sorted, Received, chanVars, opVars
<1>5. QED
  BY <1>2, <1>3, <1>4 DEF Put

LEMMA ToSetIn ==
  ASSUME NEW S, NEW q \in [Channels -> Seq(S)], NEW c \in Channels, NEW x
  PROVE  x \in ToSet(q[c]) <=> In(q, c, x)
<1>1. DOMAIN q[c] = 1 .. Len(q[c])
  OBVIOUS
<1>2. QED
  BY <1>1 DEF ToSet, In

\* What an empty queue is filled with at once.
LEMMA Filled ==
  ASSUME NEW S, NEW q \in [Channels -> Seq(S)], NEW c \in Channels, q[c] = <<>>,
         NEW n \in Nat, NEW b \in [1 .. n -> S], IsInjective(b),
         NEW p \in [Channels -> Seq(S)], p[c] = b, Only(c, p, q), Once(q),
         \A x \in ToSet(b) : Nowhere(q, x)
  PROVE  /\ Once(p)
         /\ \A d \in Channels : \A y : In(p, d, y) => In(q, d, y) \/ y \in ToSet(b)
<1>1. /\ b \in Seq(S) /\ Len(b) = n
      /\ \A i \in 1 .. Len(b) : b[i] \in ToSet(b)
  <2>1. b \in Seq(S)
    BY SeqDef
  <2>2. DOMAIN b = 1 .. n /\ Len(b) = n
    BY <2>1
  <2>3. QED
    BY <2>1, <2>2 DEF ToSet
<1>2. \A d \in Channels : d # c => p[d] = q[d]
  BY DEF Only
<1>3. \A d \in Channels : \A y : In(p, d, y) => In(q, d, y) \/ y \in ToSet(b)
  BY <1>1, <1>2 DEF In
<1>4. Once(p)
  <2>1. SUFFICES ASSUME NEW d \in Channels, NEW e \in Channels,
                        NEW j \in 1 .. Len(p[d]), NEW k \in 1 .. Len(p[e]),
                        p[d][j] = p[e][k]
                 PROVE  d = e /\ j = k
    BY DEF Once
  <2>2. CASE d = c /\ e = c
    <3>1. DOMAIN b = 1 .. Len(b)
      BY <1>1
    <3>2. QED
      BY <2>1, <2>2, <3>1 DEF IsInjective
  <2>3. CASE d # c /\ e # c
    <3>1. p[d] = q[d] /\ p[e] = q[e]
      BY <1>2, <2>3
    <3>2. QED
      BY <2>1, <3>1, OnePlace
  <2>4. CASE d = c /\ e # c
    <3>1. p[d][j] \in ToSet(b) /\ In(q, e, p[d][j])
      BY <1>1, <1>2, <2>1, <2>4 DEF In
    <3>2. QED
      BY <3>1 DEF Nowhere
  <2>5. CASE d # c /\ e = c
    <3>1. p[e][k] \in ToSet(b) /\ In(q, d, p[e][k])
      BY <1>1, <1>2, <2>1, <2>5 DEF In
    <3>2. QED
      BY <3>1 DEF Nowhere
  <2>6. QED
    BY <2>2, <2>3, <2>4, <2>5
<1>5. QED
  BY <1>3, <1>4

\* What one channel has goes to another.
LEMMA HandedOn ==
  ASSUME NEW S, NEW q \in [Channels -> Seq(S)], NEW c \in Channels,
         NEW d \in Channels, c # d, Once(q),
         NEW p \in [Channels -> Seq(S)], p[d] = q[c], p[c] = <<>>,
         \A e \in Channels : e # c /\ e # d => p[e] = q[e]
  PROVE  Once(p) /\ Within(p, q)
<1>1. /\ p[d] = q[c] /\ p[c] = <<>>
      /\ \A e \in Channels : e # c /\ e # d => p[e] = q[e]
  OBVIOUS
<1>2. \A e \in Channels : \A j \in 1 .. Len(p[e]) :
        LET f == IF e = d THEN c ELSE e
        IN  e # c /\ j \in 1 .. Len(q[f]) /\ p[e][j] = q[f][j]
  BY <1>1
<1>3. Within(p, q)
  <2>1. SUFFICES ASSUME NEW e \in Channels, NEW y, In(p, e, y)
                 PROVE  \E f \in Channels : In(q, f, y)
    BY DEF Within
  <2>2. PICK j \in 1 .. Len(p[e]) : p[e][j] = y
    BY <2>1 DEF In
  <2>3. PICK f \in Channels : j \in 1 .. Len(q[f]) /\ p[e][j] = q[f][j]
    BY <1>2
  <2>4. QED
    BY <2>2, <2>3 DEF In
<1>4. Once(p)
  <2>1. SUFFICES ASSUME NEW e \in Channels, NEW f \in Channels,
                        NEW j \in 1 .. Len(p[e]), NEW k \in 1 .. Len(p[f]),
                        p[e][j] = p[f][k]
                 PROVE  e = f /\ j = k
    BY DEF Once
  <2> DEFINE m == IF e = d THEN c ELSE e
             n == IF f = d THEN c ELSE f
  <2>2. /\ e # c /\ j \in 1 .. Len(q[m]) /\ p[e][j] = q[m][j]
        /\ f # c /\ k \in 1 .. Len(q[n]) /\ p[f][k] = q[n][k]
    BY <1>2
  <2>3. m \in Channels /\ n \in Channels
    OBVIOUS
  <2> HIDE DEF m, n
  <2>4. q[m][j] = q[n][k]
    BY <2>1, <2>2
  <2>5. m = n /\ j = k
    <3>1. j \in 1 .. Len(q[m]) /\ k \in 1 .. Len(q[n]) /\ Once(q)
      BY <2>2
    <3>2. QED
      BY ONLY <2>3, <2>4, <3>1, OnePlace
  <2>6. QED
    BY <2>2, <2>5 DEF m, n
<1>5. QED
  BY <1>1, <1>3, <1>4

LEMMA TrySendKeeps ==
  ASSUME Inv, NEW c \in Channels, NEW s \in Senders, TrySend(c, s),
         UNCHANGED <<capacity, moving>>, ~Copied(c)
  PROVE  Inv'
<1>1. /\ Put(c, s) /\ result[s] = "new" /\ s \in Ops
      /\ copies' = copies /\ resetting' = resetting /\ down' = down
  BY Kinds DEF TrySend, New
<1>2. \A d \in Channels, o \in Ops : In(copies', d, o) => In(copies, d, o) /\ o # s
  BY <1>1 DEF Inv, Sorted
<1>3. TypeOK /\ Once(copies') /\ copies' \in [Channels -> Seq(Senders)]
  BY <1>1 DEF Inv, Sorted, TypeOK
<1>4. QED
  BY <1>1, <1>2, <1>3, PutKeeps

LEMMA NextCopyKeeps ==
  ASSUME Inv, NEW c \in Channels, NextCopy(c), UNCHANGED <<capacity, moving>>,
         ~Copied(c)
  PROVE  Inv'
<1> DEFINE s == Head(copies[c])
<1>1. /\ Put(c, s) /\ copies[c] # <<>> /\ resetting' = resetting /\ down' = down
      /\ copies' \in [Channels -> Seq(Senders)]
      /\ copies'[c] = Tail(copies[c]) /\ Only(c, copies', copies)
  BY DEF NextCopy, Inv, TypeOK, Only
<1>2. copies \in [Channels -> Seq(Senders)] /\ Once(copies) /\ TypeOK
  BY DEF Inv, Sorted, TypeOK
<1>3. s \in Senders /\ In(copies, c, s)
  BY <1>1, <1>2, HeadIn
<1>4. Parted(copies', copies, c, s) /\ Once(copies') /\ Nowhere(copies', s)
  BY <1>1, <1>2, Tailed
<1>5. result[s] = "copying"
  BY <1>3, Kinds DEF Inv, Sorted
<1> HIDE DEF s
<1>6. \A d \in Channels, o \in Ops : In(copies', d, o) => In(copies, d, o) /\ o # s
  BY <1>4 DEF Parted, Nowhere
<1>7. QED
  BY <1>1, <1>2, <1>3, <1>4, <1>5, <1>6, PutKeeps

LEMMA TrySendNKeeps ==
  ASSUME Inv, NEW c \in Channels, NEW b \in Batches, TrySendN(c, b),
         UNCHANGED <<capacity, moving>>
  PROVE  Inv'
<1>1. PICK n \in Nat : b \in [1 .. n -> Senders] /\ IsInjective(b)
  BY ChannelAssumption DEF Batches
<1>2. /\ copies[c] = <<>> /\ copies' = [copies EXCEPT ![c] = b]
      /\ result' = Ended(ToSet(b), "copying")
      /\ \A i \in DOMAIN b : result[b[i]] = "new"
      /\ UNCHANGED <<receiveState, sendState, buffer, Contents, waiters, capacity,
                     resetting, got, undefined, down>>
  BY SameContents DEF TrySendN, New, CanLock, chanVars
<1>3. /\ ToSet(b) \subseteq Senders /\ ToSet(b) \subseteq Ops
      /\ \A x \in ToSet(b) : result[x] = "new"
  BY <1>1, <1>2, Kinds DEF ToSet
<1>4. b \in Seq(Senders)
  BY <1>1, SeqDef
<1>5. /\ copies' \in [Channels -> Seq(Senders)]
      /\ copies'[c] = b /\ Only(c, copies', copies)
  BY <1>2, <1>4 DEF Inv, TypeOK, Only
<1>6. copies \in [Channels -> Seq(Senders)] /\ Once(copies)
  BY DEF Inv, Sorted, TypeOK
<1>7. \A x \in ToSet(b) : Nowhere(copies, x)
  BY <1>3 DEF Inv, Sorted, Nowhere
<1>8. /\ Once(copies')
      /\ \A d \in Channels : \A y :
           In(copies', d, y) => In(copies, d, y) \/ y \in ToSet(b)
  BY <1>1, <1>2, <1>5, <1>6, <1>7, Filled
<1>9. /\ result' \in [Ops -> Results]
      /\ \A o \in Ops : result'[o] = IF o \in ToSet(b) THEN "copying" ELSE result[o]
  <2>1. TypeOK /\ "copying" \in Results
    BY DEF Inv, Results
  <2>2. QED
    BY <1>2, <2>1, EndedFacts
<1>10. TypeOK'
  BY <1>2, <1>5, <1>9 DEF Inv, TypeOK
<1>11. Sorted'
  BY <1>2, <1>3, <1>8, <1>9 DEF Inv, Sorted
<1>12. Received'
  <2>1. \A r \in Receivers : got[r] # NoMessage => got[r] \in Ops
    BY Kinds DEF Inv, TypeOK
  <2>2. QED
    BY <1>2, <1>3, <1>9, <2>1 DEF Inv, Received
<1>13. QED
  BY <1>10, <1>11, <1>12 DEF Inv

\* An operation that waits: SendBlocks and ReceiveBlocks.
LEMMA WaitKeeps ==
  ASSUME Inv, TypeOK', NEW c \in Channels, NEW o \in Ops, result[o] = "new",
         waiters' = [waiters EXCEPT ![c] = Append(waiters[c], o)],
         result' = Ended({o}, "waiting"), UNCHANGED <<Contents, copies, got>>
  PROVE  Inv'
<1>1. /\ waiters \in [Channels -> Seq(Ops)] /\ waiters' \in [Channels -> Seq(Ops)]
      /\ waiters'[c] = Append(waiters[c], o) /\ Only(c, waiters', waiters)
  BY DEF Inv, TypeOK, Only
<1>2. Once(waiters) /\ Nowhere(waiters, o) /\ Nowhere(Contents, o)
      /\ Nowhere(copies, o)
  BY DEF Inv, Sorted, Nowhere
<1>3. Joined(waiters', waiters, c, o) /\ Once(waiters')
  <2>1. Joined(waiters', waiters, c, o)
    BY <1>1, Appended
  <2>2. Once(waiters')
    BY <1>1, <1>2, Appended
  <2>3. QED
    BY <2>1, <2>2
<1>4. \A x \in Ops : result'[x] = IF x \in {o} THEN "waiting" ELSE result[x]
  <2>1. TypeOK /\ "waiting" \in Results
    BY DEF Inv, Results
  <2>2. QED
    BY <2>1, EndedFacts
<1>5. Sorted'
  BY <1>2, <1>3, <1>4 DEF Inv, Sorted, Nowhere, Joined
<1>6. Received'
  <2>1. \A r \in Receivers : got[r] # NoMessage => got[r] \in Ops
    BY Kinds DEF Inv, TypeOK
  <2>2. QED
    BY <1>4, <2>1 DEF Inv, Received
<1>7. QED
  BY <1>5, <1>6 DEF Inv

LEMMA BlocksKeep ==
  ASSUME Inv, NEW c \in Channels, UNCHANGED <<capacity, moving>>
  PROVE  /\ \A s \in Senders : SendBlocks(c, s) => Inv'
         /\ \A r \in Receivers : ReceiveBlocks(c, r) => Inv'
<1>1. /\ receiveState \in [Channels -> States] /\ sendState \in [Channels -> States]
      /\ waiters \in [Channels -> Seq(Ops)] /\ TypeOK
      /\ "waiting" \in Results
  BY DEF Inv, TypeOK, Results
<1>2. ASSUME NEW s \in Senders, SendBlocks(c, s)
      PROVE  Inv'
  <2>1. /\ s \in Ops /\ result[s] = "new"
        /\ waiters' = [waiters EXCEPT ![c] = Append(waiters[c], s)]
        /\ result' = Ended({s}, "waiting") /\ UNCHANGED <<Contents, copies, got>>
    BY <1>2, Kinds, SameContents DEF SendBlocks, New
  <2>2. TypeOK'
    <3>1. waiters' \in [Channels -> Seq(Ops)]
      BY <1>1, <2>1
    <3>2. result' \in [Ops -> Results]
      BY <1>1, <2>1, EndedFacts
    <3>3. receiveState' \in [Channels -> States]
      BY <1>1, <1>2 DEF SendBlocks, States
    <3>4. QED
      BY <1>1, <1>2, <3>1, <3>2, <3>3 DEF SendBlocks, TypeOK
  <2>3. QED
    BY <2>1, <2>2, WaitKeeps
<1>3. ASSUME NEW r \in Receivers, ReceiveBlocks(c, r)
      PROVE  Inv'
  <2>1. /\ r \in Ops /\ result[r] = "new"
        /\ waiters' = [waiters EXCEPT ![c] = Append(waiters[c], r)]
        /\ result' = Ended({r}, "waiting") /\ UNCHANGED <<Contents, copies, got>>
    BY <1>3, Kinds, SameContents DEF ReceiveBlocks, New
  <2>2. TypeOK'
    <3>1. waiters' \in [Channels -> Seq(Ops)]
      BY <1>1, <2>1
    <3>2. result' \in [Ops -> Results]
      BY <1>1, <2>1, EndedFacts
    <3>3. sendState' \in [Channels -> States]
      BY <1>1, <1>3 DEF ReceiveBlocks, States
    <3>4. QED
      BY <1>1, <1>3, <3>1, <3>2, <3>3 DEF ReceiveBlocks, TypeOK
  <2>3. QED
    BY <2>1, <2>2, WaitKeeps
<1>4. QED
  BY <1>2, <1>3

\* The receiver r takes m, which is nowhere from then on.
LEMMA TakeKeeps ==
  ASSUME Inv, TypeOK', NEW r \in Receivers, result[r] = "new",
         NEW m \in Senders, got' = [got EXCEPT ![r] = m], result'[m] = "ok",
         Once(Contents'), Once(waiters'), UNCHANGED copies, Nowhere(Contents', m),
         \A q \in Receivers : got[q] # m,
         \A d \in Channels, o \in Ops :
           /\ In(Contents', d, o) =>
                /\ result'[o] = "ok"
                /\ In(Contents, d, o) \/ \E e \in Channels : In(waiters, e, o)
           /\ In(waiters', d, o) => In(waiters, d, o) /\ result'[o] = result[o],
         \A o \in Ops : result[o] \in {"ok", "copying"} => result'[o] = result[o]
  PROVE  Inv'
<1>1. Sorted'
  BY DEF Inv, Sorted
<1>2. Received'
  <2>1. SUFFICES ASSUME NEW q \in Receivers, got'[q] # NoMessage
                 PROVE  /\ result'[got'[q]] = "ok"
                        /\ \A p \in Receivers : got'[p] = got'[q] => p = q
                        /\ \A d \in Channels : ~In(Contents', d, got'[q])
    BY DEF Received
  <2>2. \A p \in Receivers : got'[p] = IF p = r THEN m ELSE got[p]
    BY DEF Inv, TypeOK
  <2>3. CASE q = r
    BY <2>2, <2>3 DEF Nowhere
  <2>4. CASE q # r
    <3>1. got'[q] = got[q] /\ got[q] \in Ops /\ result[got[q]] = "ok"
      BY <2>1, <2>2, <2>4, Kinds DEF Inv, TypeOK, Received
    <3>2. \A p \in Receivers : got'[p] = got'[q] => p = q
      BY <2>1, <2>2, <3>1 DEF Inv, Received
    <3>3. \A d \in Channels : ~In(Contents', d, got[q])
      <4>1. \A e \in Channels : ~In(waiters, e, got[q]) /\ ~In(Contents, e, got[q])
        BY <2>1, <3>1 DEF Inv, Sorted, Received
      <4>2. QED
        BY <3>1, <4>1
    <3>4. QED
      BY <3>1, <3>2, <3>3
  <2>5. QED
    BY <2>3, <2>4
<1>3. QED
  BY <1>1, <1>2 DEF Inv

LEMMA TryReceiveKeeps ==
  ASSUME Inv, NEW c \in Channels, NEW r \in Receivers, TryReceive(c, r),
         UNCHANGED <<capacity, moving>>, ~Copied(c)
  PROVE  Inv'
<1>1. /\ result[r] = "new" /\ r \in Ops /\ r \notin Senders
      /\ UNCHANGED <<copies, resetting, down>>
  BY Kinds DEF TryReceive, New
<1>2. /\ TypeOK /\ "ok" \in Results
      /\ buffer \in [Channels -> Seq(Senders)] /\ buffer[c] = Contents[c]
      /\ Contents \in [Channels -> Seq(Senders)] /\ Once(Contents)
      /\ waiters \in [Channels -> Seq(Ops)] /\ Once(waiters)
      /\ result \in [Ops -> Results]
      /\ \A d \in Channels : Drained(d) \in States
      /\ States = {"block", "buffer", "waiter", "closed"}
  BY ContentsType DEF Inv, Sorted, TypeOK, Drained, Results, States, Contents
<1>3. ASSUME TakeFromBuffer(c, r)
      PROVE  Inv'
  <2> DEFINE m == Head(Contents[c])
             w == Head(waiters[c])
  <2>1. Contents[c] # <<>> /\ got' = [got EXCEPT ![r] = m] /\ undefined' = undefined
    BY <1>2, <1>3 DEF TakeFromBuffer
  <2>2. m \in Senders /\ m \in Ops /\ In(Contents, c, m)
    BY <1>2, <2>1, HeadIn, Kinds
  <2>3. result[m] = "ok" /\ \A q \in Receivers : got[q] # m
    BY <2>2, Kinds DEF Inv, Sorted, Received
  <2>4. PICK b : b = [Contents EXCEPT ![c] = Tail(Contents[c])]
    OBVIOUS
  <2>5. /\ b \in [Channels -> Seq(Senders)] /\ b[c] = Tail(Contents[c])
        /\ Only(c, b, Contents)
    BY <1>2, <2>1, <2>4 DEF Only
  <2>6. Parted(b, Contents, c, m) /\ Once(b) /\ Nowhere(b, m)
    BY <1>2, <2>1, <2>5, Tailed
  <2>7. CASE waiters[c] # <<>>
    <3>1. /\ w \in Senders /\ waiters' = [waiters EXCEPT ![c] = Tail(waiters[c])]
          /\ result' = Ended({r, w}, "ok")
          /\ UNCHANGED <<receiveState, sendState>>
          /\ buffer' = [buffer EXCEPT ![c] = Append(Tail(Contents[c]), w)]
      BY <1>2, <1>3, <2>7 DEF TakeFromBuffer, AfterTake
    <3>2. w \in Ops /\ In(waiters, c, w)
      BY <1>2, <2>7, HeadIn
    <3>3. /\ waiters' \in [Channels -> Seq(Ops)] /\ waiters'[c] = Tail(waiters[c])
          /\ Only(c, waiters', waiters)
      BY <1>2, <2>7, <3>1 DEF Only
    <3>4. Parted(waiters', waiters, c, w) /\ Once(waiters') /\ Nowhere(waiters', w)
      BY <1>2, <2>7, <3>3, Tailed
    <3>5. /\ Contents' \in [Channels -> Seq(Senders)] /\ Contents'[c] = Append(b[c], w)
          /\ Only(c, Contents', b) /\ buffer' \in [Channels -> Seq(Senders)]
      <4>1. Append(Tail(Contents[c]), w) \in Seq(Senders)
        BY <1>2, <2>1, <3>1
      <4>2. /\ Contents' \in [Channels -> Seq(Senders)]
            /\ Contents'[c] = Append(Tail(Contents[c]), w)
            /\ Only(c, Contents', Contents)
            /\ buffer' \in [Channels -> Seq(Senders)]
        BY <1>2, <3>1, <4>1, OneContents
      <4>3. QED
        BY <2>5, <4>2 DEF Only
    <3>6. /\ result' \in [Ops -> Results]
          /\ \A o \in Ops : result'[o] = IF o \in {r, w} THEN "ok" ELSE result[o]
      BY <1>2, <3>1, EndedFacts
    <3> HIDE DEF m, w
    <3>7. result[w] = "waiting" /\ Nowhere(Contents, w)
      BY <3>2 DEF Inv, Sorted, Nowhere
    <3>8. Nowhere(b, w)
      BY <2>6, <3>7 DEF Nowhere, Parted
    <3>9. Joined(Contents', b, c, w) /\ Once(Contents')
      <4>1. w \in Senders /\ b \in [Channels -> Seq(Senders)]
        BY <2>5, <3>1
      <4>2. QED
        BY <2>6, <3>5, <3>8, <4>1, Appended
    <3>10. Nowhere(Contents', m)
      BY <2>3, <2>6, <3>7, <3>9 DEF Nowhere, Joined
    <3>11. TypeOK'
      BY <1>1, <1>2, <2>1, <2>2, <3>1, <3>3, <3>5, <3>6 DEF TypeOK
    <3>12. ASSUME NEW d \in Channels, NEW o \in Ops
           PROVE  /\ In(Contents', d, o) =>
                       /\ result'[o] = "ok"
                       /\ In(Contents, d, o) \/ \E e \in Channels : In(waiters, e, o)
                  /\ In(waiters', d, o) =>
                       In(waiters, d, o) /\ result'[o] = result[o]
      <4>1. In(waiters', d, o) => In(waiters, d, o) /\ o # w /\ o # r
        BY <1>1, <3>4 DEF Parted, Nowhere, Inv, Sorted
      <4>2. In(Contents', d, o) => In(Contents, d, o) \/ o = w
        BY <2>6, <3>9 DEF Parted, Joined
      <4>3. In(Contents, d, o) => result[o] = "ok"
        BY DEF Inv, Sorted
      <4>4. QED
        BY <3>2, <3>6, <4>1, <4>2, <4>3
    <3>13. \A o \in Ops : result[o] \in {"ok", "copying"} => result'[o] = result[o]
      BY <1>1, <3>6, <3>7
    <3>14. result'[m] = "ok"
      BY <2>2, <2>3, <3>13
    <3>15. QED
      BY <1>1, <2>1, <2>2, <2>3, <3>4, <3>9, <3>10, <3>11, <3>12, <3>13, <3>14,
         TakeKeeps
  <2>8. CASE waiters[c] = <<>>
    <3>1. /\ waiters' = waiters /\ result' = Ended({r}, "ok")
          /\ receiveState' = [receiveState EXCEPT ![c] =
                                IF Len(Contents[c]) = 1 THEN Drained(c) ELSE @]
          /\ sendState' = [sendState EXCEPT ![c] =
                             IF @ = "closed" THEN "closed" ELSE "buffer"]
          /\ Contents' = b /\ buffer' \in [Channels -> Seq(Senders)]
      <4>1. buffer' = [buffer EXCEPT ![c] = Tail(Contents[c])]
        BY <1>2, <1>3, <2>8 DEF TakeFromBuffer, AfterTake
      <4>2. Tail(Contents[c]) \in Seq(Senders)
        BY <1>2, <2>1
      <4>3. Contents' = b /\ buffer' \in [Channels -> Seq(Senders)]
        BY <1>2, <2>4, <4>1, <4>2, OneContents
      <4>4. QED
        BY <1>2, <1>3, <2>8, <4>3 DEF TakeFromBuffer
    <3>2. /\ result' \in [Ops -> Results]
          /\ \A o \in Ops : result'[o] = IF o \in {r} THEN "ok" ELSE result[o]
      BY <1>2, <3>1, EndedFacts
    <3> HIDE DEF m, w
    <3>3. TypeOK'
      BY <1>1, <1>2, <2>1, <2>2, <2>5, <3>1, <3>2 DEF TypeOK
    <3>4. ASSUME NEW d \in Channels, NEW o \in Ops
          PROVE  /\ In(Contents', d, o) => In(Contents, d, o) /\ result'[o] = "ok"
                 /\ In(waiters', d, o) =>
                      In(waiters, d, o) /\ result'[o] = result[o]
      BY <1>1, <2>6, <3>1, <3>2 DEF Parted, Inv, Sorted
    <3>5. \A o \in Ops : result[o] \in {"ok", "copying"} => result'[o] = result[o]
      BY <1>1, <3>2
    <3>6. result'[m] = "ok"
      BY <2>2, <2>3, <3>5
    <3>7. QED
      BY <1>1, <1>2, <2>1, <2>2, <2>3, <2>6, <3>1, <3>3, <3>4, <3>5, <3>6,
         TakeKeeps
  <2>9. QED
    BY <2>7, <2>8
<1>4. ASSUME TakeFromWaiter(c, r)
      PROVE  Inv'
  <2> DEFINE w == Head(waiters[c])
  <2>1. /\ waiters[c] # <<>> /\ w \in Senders /\ got' = [got EXCEPT ![r] = w]
        /\ result' = Ended({r, w}, "ok")
        /\ waiters' = [waiters EXCEPT ![c] = Tail(waiters[c])]
        /\ receiveState' = [receiveState EXCEPT ![c] =
                              IF Len(waiters[c]) = 1 THEN Drained(c) ELSE @]
        /\ UNCHANGED <<sendState, buffer, Contents, undefined>>
    BY <1>4, SameContents DEF TakeFromWaiter
  <2>2. w \in Ops /\ In(waiters, c, w)
    BY <1>2, <2>1, HeadIn
  <2>3. /\ waiters' \in [Channels -> Seq(Ops)] /\ waiters'[c] = Tail(waiters[c])
        /\ Only(c, waiters', waiters)
    BY <1>2, <2>1 DEF Only
  <2>4. Parted(waiters', waiters, c, w) /\ Once(waiters') /\ Nowhere(waiters', w)
    <3>1. waiters[c] # <<>> /\ waiters \in [Channels -> Seq(Ops)] /\ Once(waiters)
      BY <1>2, <2>1
    <3>2. QED
      BY <2>3, <3>1, Tailed
  <2>5. /\ result' \in [Ops -> Results]
        /\ \A o \in Ops : result'[o] = IF o \in {r, w} THEN "ok" ELSE result[o]
    BY <1>2, <2>1, EndedFacts
  <2> HIDE DEF w
  <2>6. result[w] = "waiting" /\ Nowhere(Contents, w) /\ Nowhere(Contents', w)
    BY <2>1, <2>2 DEF Inv, Sorted, Nowhere
  <2>7. \A q \in Receivers : got[q] # w
    BY <2>1, <2>6, Kinds DEF Inv, Received
  <2>8. TypeOK'
    BY <1>1, <1>2, <2>1, <2>3, <2>5 DEF TypeOK
  <2>9. ASSUME NEW d \in Channels, NEW o \in Ops
        PROVE  /\ In(Contents', d, o) => In(Contents, d, o) /\ result'[o] = "ok"
               /\ In(waiters', d, o) => In(waiters, d, o) /\ result'[o] = result[o]
    <3>1. In(waiters', d, o) => In(waiters, d, o) /\ o # w /\ o # r
      BY <1>1, <2>4 DEF Parted, Nowhere, Inv, Sorted
    <3>2. In(Contents', d, o) => In(Contents, d, o) /\ result[o] = "ok"
      BY <2>1 DEF Inv, Sorted
    <3>3. QED
      BY <2>5, <3>1, <3>2
  <2>10. \A o \in Ops : result[o] \in {"ok", "copying"} => result'[o] = result[o]
    BY <1>1, <2>5, <2>6
  <2>11. result'[w] = "ok"
    BY <2>2, <2>5
  <2>12. Once(Contents')
    BY <1>2, <2>1
  <2>13. QED
    BY <1>1, <2>1, <2>4, <2>6, <2>7, <2>8, <2>9, <2>10, <2>11, <2>12, TakeKeeps
<1>5. ASSUME TakeFromNobody(c)
      PROVE  Inv'
  <2>1. UNCHANGED <<chanVars, opVars>> /\ undefined' = TRUE
    BY <1>5 DEF TakeFromNobody, Undefined
  <2>2. TypeOK'
    BY <1>1, <1>2, <2>1 DEF TypeOK, chanVars, opVars
  <2>3. Contents' = Contents
    BY <2>1, SameContents DEF chanVars
  <2>4. QED
    BY <1>1, <2>1, <2>2, <2>3 DEF Inv, Sorted, Received, chanVars, opVars
<1>6. QED
  BY <1>3, <1>4, <1>5 DEF TryReceive

\* S ends, and only what is in neither S nor anywhere else goes on waiting.
LEMMA CancelKeeps ==
  ASSUME Inv, TypeOK', Once(Contents'), Once(waiters'), Once(copies'), NEW S,
         UNCHANGED got,
         \A o \in S : \E d \in Channels : In(waiters, d, o),
         \A o \in Ops : o \notin S => result'[o] = result[o],
         \A d \in Channels, o \in Ops :
           /\ In(Contents', d, o) => \E e \in Channels : In(Contents, e, o)
           /\ In(waiters', d, o) => In(waiters, d, o) /\ o \notin S
           /\ In(copies', d, o) => In(copies, d, o)
  PROVE  Inv'
<1>1. \A o \in Ops : o \in S => result[o] = "waiting"
  BY DEF Inv, Sorted
<1>2. \A o \in Ops : result[o] = "ok" => result'[o] = "ok"
  BY <1>1
<1>3. \A d \in Channels, o \in Ops :
        /\ In(waiters', d, o) =>
             result'[o] = result[o] /\ \E e \in Channels : In(waiters, e, o)
        /\ In(copies', d, o) =>
             result'[o] = result[o] /\ \E e \in Channels : In(copies, e, o)
  BY <1>1 DEF Inv, Sorted
<1>4. QED
  BY <1>2, <1>3, FewerKeep

LEMMA AfterCancelType ==
  ASSUME NEW c \in Channels, NEW S, NEW left \in Seq(Ops), TypeOK,
         CancelWaiters(c, S, left)
  PROVE  /\ receiveState' \in [Channels -> States]
         /\ sendState' \in [Channels -> States]
         /\ result' \in [Ops -> Results]
         /\ waiters' \in [Channels -> Seq(Ops)] /\ waiters'[c] = left
         /\ Only(c, waiters', waiters)
         /\ \A o \in Ops : o \notin S => result'[o] = result[o]
<1>1. \A x \in States : AfterCancel(c, left, x) \in States
  BY DEF AfterCancel, States
<1>2. \A o \in Ops : CancelResult(c, o) \in Results
  BY DEF CancelResult, Results
<1>3. QED
  BY <1>1, <1>2 DEF CancelWaiters, TypeOK, Only

LEMMA CancelAllKeeps ==
  ASSUME Inv, NEW c \in Channels, CancelAll(c), resetting' \subseteq Channels,
         UNCHANGED <<capacity, buffer, Contents, copies, got, undefined, down>>
  PROVE  Inv'
<1> DEFINE S == ToSet(waiters[c])
<1>1. /\ TypeOK /\ Once(Contents) /\ Once(copies) /\ <<>> \in Seq(Ops)
      /\ waiters \in [Channels -> Seq(Ops)] /\ Once(waiters)
  BY DEF Inv, Sorted, TypeOK
<1>2. CancelWaiters(c, S, <<>>)
  BY DEF CancelAll
<1>3. \A o : o \in S <=> In(waiters, c, o)
  BY <1>1, ToSetIn
<1> HIDE DEF S
<1>4. /\ waiters' \in [Channels -> Seq(Ops)] /\ waiters'[c] = <<>>
      /\ Only(c, waiters', waiters)
      /\ \A o \in Ops : o \notin S => result'[o] = result[o]
      /\ TypeOK'
  <2>1. /\ receiveState' \in [Channels -> States]
        /\ sendState' \in [Channels -> States]
        /\ result' \in [Ops -> Results]
        /\ waiters' \in [Channels -> Seq(Ops)] /\ waiters'[c] = <<>>
        /\ Only(c, waiters', waiters)
        /\ \A o \in Ops : o \notin S => result'[o] = result[o]
    BY <1>1, <1>2, AfterCancelType
  <2>2. QED
    BY <1>1, <2>1 DEF TypeOK
<1>5. Left(waiters', waiters, c) /\ Once(waiters')
  BY <1>1, <1>4, Emptied
<1>6. \A d \in Channels, o \in Ops :
        /\ In(waiters', d, o) => In(waiters, d, o) /\ o \notin S
        /\ In(Contents', d, o) => \E e \in Channels : In(Contents, e, o)
        /\ In(copies', d, o) => In(copies, d, o)
  <2>1. ASSUME NEW d \in Channels, NEW o, In(waiters', d, o)
        PROVE  In(waiters, d, o) /\ o \notin S
    <3>1. d # c /\ In(waiters, d, o)
      BY <1>5, <2>1 DEF Left
    <3>2. ~In(waiters, c, o)
      BY <1>1, <3>1, OnePlace DEF In
    <3>3. QED
      BY <1>3, <3>1, <3>2
  <2>2. QED
    BY <2>1
<1>7. Once(Contents') /\ Once(copies')
  BY <1>1
<1>8. QED
  BY <1>3, <1>4, <1>5, <1>6, <1>7, CancelKeeps

LEMMA CancelByKeyKeeps ==
  ASSUME Inv, NEW c \in Channels, NEW o \in Ops, CancelByKey(c, o),
         UNCHANGED <<capacity, moving>>
  PROVE  Inv'
<1>1. /\ TypeOK /\ Once(Contents) /\ Once(copies)
      /\ waiters \in [Channels -> Seq(Ops)] /\ Once(waiters)
      /\ UNCHANGED <<capacity, buffer, Contents, copies, resetting, got, undefined,
                     down>>
  BY SameContents DEF Inv, Sorted, TypeOK, CancelByKey
<1>2. PICK i \in 1 .. Len(waiters[c]) :
        /\ waiters[c][i] = o
        /\ CancelWaiters(c, {o}, RemoveAt(waiters[c], i))
  <2>1. DOMAIN waiters[c] = 1 .. Len(waiters[c])
    BY <1>1
  <2>2. QED
    BY <2>1 DEF CancelByKey
<1>3. PICK p : p = [waiters EXCEPT ![c] = RemoveAt(waiters[c], i)]
  OBVIOUS
<1>4. p[c] \in Seq(Ops) /\ p[c] = RemoveAt(waiters[c], i)
  <2>1. RemoveAt(waiters[c], i) \in Seq(Ops)
    BY <1>1, <1>2 DEF RemoveAt
  <2>2. QED
    BY <1>1, <1>3, <2>1
<1>5. /\ receiveState' \in [Channels -> States]
      /\ sendState' \in [Channels -> States]
      /\ result' \in [Ops -> Results]
      /\ waiters' \in [Channels -> Seq(Ops)]
      /\ waiters'[c] = RemoveAt(waiters[c], i)
      /\ Only(c, waiters', waiters)
      /\ \A x \in Ops : x \notin {o} => result'[x] = result[x]
  BY <1>1, <1>2, <1>4, AfterCancelType
<1>6. TypeOK'
  BY <1>1, <1>5 DEF TypeOK
<1>7. Parted(waiters', waiters, c, o) /\ Once(waiters') /\ Nowhere(waiters', o)
  BY <1>1, <1>2, <1>5, Removed
<1>8. In(waiters, c, o)
  BY <1>2 DEF In
<1>9. \A d \in Channels, x \in Ops :
        /\ In(waiters', d, x) => In(waiters, d, x) /\ x \notin {o}
        /\ In(Contents', d, x) => \E e \in Channels : In(Contents, e, x)
        /\ In(copies', d, x) => In(copies, d, x)
  BY <1>1, <1>7 DEF Parted, Nowhere
<1>10. Once(Contents') /\ Once(copies') /\ got' = got
  BY <1>1
<1>11. \A x \in {o} : \E d \in Channels : In(waiters, d, x)
  BY <1>8
<1>12. QED
  BY <1>5, <1>6, <1>7, <1>9, <1>10, <1>11, CancelKeeps

LEMMA CloseKeeps ==
  ASSUME Inv, NEW c \in Channels, Close(c), UNCHANGED <<capacity, moving>>
  PROVE  Inv'
<1> DEFINE S == IF TellsOfClose(c) THEN ToSet(waiters[c]) ELSE {}
<1>1. /\ TypeOK /\ Once(Contents) /\ Once(copies) /\ <<>> \in Seq(Ops)
      /\ waiters \in [Channels -> Seq(Ops)] /\ Once(waiters)
      /\ UNCHANGED <<capacity, buffer, Contents, copies, resetting, got, undefined,
                     down>>
  BY SameContents DEF Inv, Sorted, TypeOK, Close
<1>2. \A o : o \in S <=> TellsOfClose(c) /\ In(waiters, c, o)
  BY <1>1, ToSetIn
<1>3. /\ \A o \in Ops : o \notin S => result'[o] = result[o]
      /\ result' \in [Ops -> Results]
  BY <1>1 DEF Close, TypeOK, Results
<1>4. waiters' = [waiters EXCEPT ![c] = IF TellsOfClose(c) THEN <<>> ELSE waiters[c]]
  BY DEF Close
<1> HIDE DEF S
<1>5. TypeOK'
  <2>1. /\ receiveState' \in [Channels -> States]
        /\ sendState' \in [Channels -> States]
    BY <1>1 DEF Close, TypeOK, States
  <2>2. waiters' \in [Channels -> Seq(Ops)]
    BY <1>1, <1>4
  <2>3. QED
    BY <1>1, <1>3, <2>1, <2>2 DEF TypeOK
<1>6. /\ Once(waiters')
      /\ \A d \in Channels : \A o :
           In(waiters', d, o) => In(waiters, d, o) /\ o \notin S
  <2>1. CASE TellsOfClose(c)
    <3>1. /\ waiters' \in [Channels -> Seq(Ops)] /\ waiters'[c] = <<>>
          /\ Only(c, waiters', waiters)
      BY <1>1, <1>4, <2>1 DEF Only
    <3>2. Left(waiters', waiters, c) /\ Once(waiters')
      BY <1>1, <3>1, Emptied
    <3>3. ASSUME NEW d \in Channels, NEW o, In(waiters', d, o)
          PROVE  In(waiters, d, o) /\ o \notin S
      <4>1. d # c /\ In(waiters, d, o)
        BY <3>2, <3>3 DEF Left
      <4>2. ~In(waiters, c, o)
        BY <1>1, <4>1, OnePlace DEF In
      <4>3. QED
        BY <1>2, <4>1, <4>2
    <3>4. QED
      BY <3>2, <3>3
  <2>2. CASE ~TellsOfClose(c)
    <3>1. waiters' = waiters
      BY <1>1, <1>4, <2>2
    <3>2. QED
      BY <1>1, <1>2, <2>2, <3>1
  <2>3. QED
    BY <2>1, <2>2
<1>7. \A d \in Channels, o \in Ops :
        /\ In(waiters', d, o) => In(waiters, d, o) /\ o \notin S
        /\ In(Contents', d, o) => \E e \in Channels : In(Contents, e, o)
        /\ In(copies', d, o) => In(copies, d, o)
  BY <1>1, <1>6
<1>8. Once(Contents') /\ Once(copies') /\ got' = got
  BY <1>1
<1>9. QED
  BY <1>2, <1>3, <1>5, <1>6, <1>7, <1>8, CancelKeeps

LEMMA InMove ==
  ASSUME Alone, NEW c
  PROVE  /\ c \in Moved <=> \E m \in moving : c \in {m[1], m[2]}
         /\ c \notin Moved => ~Copied(c)
<1>1. c \in Moved <=> \E m \in moving : c \in {m[1], m[2]}
  BY DEF Moved
<1>2. ASSUME NEW d, <<c, d, "clear">> \in moving
      PROVE  c \in Moved
  <2>1. <<c, d, "clear">>[1] = c
    OBVIOUS
  <2>2. QED
    BY <1>1, <1>2, <2>1
<1>3. QED
  BY <1>1, <1>2 DEF Copied

\* Whoever takes the mutex of c, or has it, is not in the middle of a move.
LEMMA UsedAlone ==
  ASSUME Alone, NEW c \in Channels,
         CanLock(c) \/ NextCopy(c) \/ RefuseCopies(c) \/ EndReset(c)
  PROVE  c \notin Moved /\ ~Copied(c)
<1>1. c \notin Moved
  <2>1. CASE CanLock(c)
    BY <2>1, InMove DEF CanLock, Alone
  <2>2. CASE NextCopy(c) \/ RefuseCopies(c) \/ EndReset(c)
    BY <2>2 DEF NextCopy, RefuseCopies, EndReset, Alone
  <2>3. QED
    BY <2>1, <2>2
<1>2. QED
  BY <1>1, InMove

LEMMA BeginMoveKeeps ==
  ASSUME Inv, NEW c \in Channels, NEW d \in Channels, BeginMove(c, d)
  PROVE  Inv'
<1>1. \A e \in Channels : Copied(e)' <=> Copied(e)
  <2>1. \A e, f : <<e, f, "clear">> # <<c, d, "receive">>
    OBVIOUS
  <2>2. QED
    BY <2>1 DEF BeginMove, Copied
<1>2. UNCHANGED <<capacity, buffer, Contents, copies, got, undefined, down>>
  BY <1>1 DEF BeginMove, Contents
<1>3. CancelAll(d) /\ resetting' \subseteq Channels
  BY DEF BeginMove, Inv, TypeOK
<1>4. QED
  BY <1>2, <1>3, CancelAllKeeps

\* The states of both channels do not tell where a message is.
LEMMA MoveStatesKeep ==
  ASSUME Inv, NEW c \in Channels, NEW d \in Channels,
         MoveReceiveState(c, d) \/ MoveSendState(c, d)
  PROVE  Inv'
<1>1. PICK old \in {"receive", "send"}, new \in {"send", "copy"} :
        /\ moving' = (moving \ {<<c, d, old>>}) \cup {<<c, d, new>>}
        /\ UNCHANGED <<waiters, copies, resetting, opVars, undefined, down, buffer>>
  <2>1. CASE MoveReceiveState(c, d)
    <3>1. /\ moving' = (moving \ {<<c, d, "receive">>}) \cup {<<c, d, "send">>}
          /\ UNCHANGED <<waiters, copies, resetting, opVars, undefined, down, buffer>>
      BY <2>1 DEF MoveReceiveState, Moves
    <3>2. QED
      BY <3>1
  <2>2. CASE MoveSendState(c, d)
    <3>1. /\ moving' = (moving \ {<<c, d, "send">>}) \cup {<<c, d, "copy">>}
          /\ UNCHANGED <<waiters, copies, resetting, opVars, undefined, down, buffer>>
      BY <2>2 DEF MoveSendState, Moves
    <3>2. QED
      BY <3>1
  <2>3. QED
    BY <2>1, <2>2
<1>2. \A e, f : /\ <<e, f, "clear">> # <<c, d, old>>
                /\ <<e, f, "clear">> # <<c, d, new>>
  OBVIOUS
<1>3. Contents' = Contents
  <2>1. \A e \in Channels : Copied(e)' <=> Copied(e)
    BY <1>1, <1>2 DEF Copied
  <2>2. QED
    BY <1>1, <2>1 DEF Contents
<1>4. TypeOK'
  <2>1. TypeOK
    BY DEF Inv
  <2>2. CASE MoveReceiveState(c, d)
    BY <1>1, <2>1, <2>2 DEF MoveReceiveState, TypeOK, States, opVars
  <2>3. CASE MoveSendState(c, d)
    BY <1>1, <2>1, <2>3 DEF MoveSendState, TypeOK, States, Idle, opVars
  <2>4. QED
    BY <2>2, <2>3
<1>5. QED
  BY <1>1, <1>3, <1>4 DEF Inv, Sorted, Received, opVars

LEMMA CopyBufferKeeps ==
  ASSUME Inv, Alone, NEW c \in Channels, NEW d \in Channels, CopyBuffer(c, d)
  PROVE  Inv'
<1>1. /\ <<c, d, "copy">> \in moving
      /\ moving' = (moving \ {<<c, d, "copy">>}) \cup {<<c, d, "clear">>}
      /\ buffer' = [buffer EXCEPT ![d] = buffer[c]]
      /\ UNCHANGED <<capacity, receiveState, sendState, waiters, copies, resetting,
                     result, got, undefined, down>>
  BY DEF CopyBuffer, Moves, opVars
<1>2. /\ c # d
      /\ \A e, f : <<e, f, "clear">> \in moving => e # c /\ e # d
  <2>1. c # d
    <3>1. <<c, d, "copy">>[1] = c /\ <<c, d, "copy">>[2] = d
      OBVIOUS
    <3>2. QED
      BY <1>1, <3>1 DEF Alone
  <2>2. ASSUME NEW e, NEW f, <<e, f, "clear">> \in moving
        PROVE  e # c /\ e # d
    <3>1. /\ <<e, f, "clear">> # <<c, d, "copy">> /\ <<e, f, "clear">>[1] = e
          /\ <<c, d, "copy">>[1] = c /\ <<c, d, "copy">>[2] = d
      OBVIOUS
    <3>2. QED
      BY <1>1, <2>2, <3>1 DEF Alone
  <2>3. QED
    BY <2>1, <2>2
<1>3. /\ ~Copied(c) /\ ~Copied(d) /\ Copied(c)' /\ ~Copied(d)'
      /\ \A e \in Channels : e # c => (Copied(e)' <=> Copied(e))
  BY <1>1, <1>2 DEF Copied
<1>4. TypeOK /\ buffer' \in [Channels -> Seq(Senders)]
  BY <1>1 DEF Inv, TypeOK
<1>5. TypeOK'
  BY <1>1, <1>4 DEF TypeOK
<1>6. /\ Contents'[d] = Contents[c] /\ Contents'[c] = <<>>
      /\ \A e \in Channels : e # c /\ e # d => Contents'[e] = Contents[e]
  BY <1>1, <1>2, <1>3, <1>4 DEF Contents, TypeOK
<1>7. /\ Contents \in [Channels -> Seq(Senders)]
      /\ Contents' \in [Channels -> Seq(Senders)]
  <2>1. (TypeOK => Contents \in [Channels -> Seq(Senders)])'
    BY ContentsType, PTL
  <2>2. QED
    BY <1>4, <1>5, <2>1, ContentsType
<1>8. Once(Contents') /\ Within(Contents', Contents)
  BY <1>2, <1>6, <1>7, HandedOn DEF Inv, Sorted
<1>9. \A e \in Channels, o \in Ops :
        In(Contents', e, o) => \E f \in Channels : In(Contents, f, o)
  BY <1>8 DEF Within
<1>10. QED
  BY <1>1, <1>5, <1>8, <1>9, FewerKeep DEF Inv, Sorted

LEMMA ClearBufferKeeps ==
  ASSUME Inv, NEW c \in Channels, NEW d \in Channels, ClearBuffer(c, d)
  PROVE  Inv'
<1>1. /\ <<c, d, "clear">> \in moving
      /\ moving' = moving \ {<<c, d, "clear">>}
      /\ buffer' = [buffer EXCEPT ![c] = <<>>]
      /\ UNCHANGED <<capacity, receiveState, sendState, waiters, copies, resetting,
                     result, got, undefined, down>>
  BY DEF ClearBuffer, Moves, opVars
<1>2. Copied(c) /\ \A e \in Channels : e # c => (Copied(e)' <=> Copied(e))
  BY <1>1 DEF Copied
<1>3. TypeOK /\ <<>> \in Seq(Senders)
  BY DEF Inv
<1>4. Contents' = Contents
  BY <1>1, <1>2, <1>3 DEF Contents, TypeOK
<1>5. TypeOK'
  BY <1>1, <1>3 DEF TypeOK
<1>6. QED
  BY <1>1, <1>4, <1>5 DEF Inv, Sorted, Received

LEMMA ShutdownKeeps ==
  ASSUME Inv, Shutdown, UNCHANGED <<capacity, moving>>
  PROVE  Inv'
<1> DEFINE S == UNION {ToSet(waiters[c]) : c \in Channels}
<1>1. /\ TypeOK /\ Once(Contents) /\ Once(copies) /\ <<>> \in Seq(Ops)
      /\ waiters \in [Channels -> Seq(Ops)] /\ "destroyed" \in Results
      /\ UNCHANGED <<receiveState, sendState, buffer, Contents, copies, resetting,
                     got, undefined>>
      /\ down' = TRUE /\ waiters' = [c \in Channels |-> <<>>]
      /\ result' = Ended(S, "destroyed")
  BY SameContents DEF Inv, Sorted, TypeOK, Shutdown, Results
<1>2. \A c \in Channels : \A x \in ToSet(waiters[c]) : In(waiters, c, x)
  BY <1>1, ToSetIn
<1>3. \A o \in S : \E c \in Channels : In(waiters, c, o)
  BY <1>2
<1> HIDE DEF S
<1>4. /\ \A o \in Ops : o \notin S => result'[o] = result[o]
      /\ result' \in [Ops -> Results]
  BY <1>1, EndedFacts
<1>5. TypeOK'
  BY <1>1, <1>4 DEF TypeOK
<1>6. Once(waiters') /\ \A c \in Channels : \A o : ~In(waiters', c, o)
  BY <1>1 DEF Once, In
<1>7. \A d \in Channels, o \in Ops :
        /\ In(waiters', d, o) => In(waiters, d, o) /\ o \notin S
        /\ In(Contents', d, o) => \E e \in Channels : In(Contents, e, o)
        /\ In(copies', d, o) => In(copies, d, o)
  BY <1>1, <1>6
<1>8. Once(Contents') /\ Once(copies') /\ got' = got
  BY <1>1
<1>9. QED
  BY <1>3, <1>4, <1>5, <1>6, <1>7, <1>8, CancelKeeps

LEMMA RefuseCopiesKeeps ==
  ASSUME Inv, NEW c \in Channels, RefuseCopies(c), UNCHANGED <<capacity, moving>>
  PROVE  Inv'
<1> DEFINE S == ToSet(copies[c])
<1>1. /\ TypeOK /\ Once(Contents) /\ Once(waiters) /\ <<>> \in Seq(Senders)
      /\ copies \in [Channels -> Seq(Senders)] /\ Once(copies) /\ "new" \in Results
      /\ UNCHANGED <<receiveState, sendState, buffer, Contents, waiters, resetting,
                     got, undefined, down>>
      /\ copies' = [copies EXCEPT ![c] = <<>>] /\ result' = Ended(S, "new")
  BY SameContents DEF Inv, Sorted, TypeOK, RefuseCopies, Results, chanVars
<1>2. \A o : o \in S <=> In(copies, c, o)
  BY <1>1, ToSetIn
<1> HIDE DEF S
<1>3. /\ \A o \in Ops : result'[o] = IF o \in S THEN "new" ELSE result[o]
      /\ result' \in [Ops -> Results]
  BY <1>1, EndedFacts
<1>4. /\ copies' \in [Channels -> Seq(Senders)] /\ copies'[c] = <<>>
      /\ Only(c, copies', copies)
  BY <1>1 DEF Only
<1>5. Left(copies', copies, c) /\ Once(copies')
  BY <1>1, <1>4, Emptied
<1>6. TypeOK'
  BY <1>1, <1>3, <1>4 DEF TypeOK
<1>7. \A o \in Ops : o \in S => result[o] = "copying"
  BY <1>2 DEF Inv, Sorted
<1>8. ASSUME NEW d \in Channels, NEW o, In(copies', d, o)
      PROVE  In(copies, d, o) /\ o \notin S
  <2>1. d # c /\ In(copies, d, o)
    BY <1>5, <1>8 DEF Left
  <2>2. ~In(copies, c, o)
    BY <1>1, <2>1, OnePlace DEF In
  <2>3. QED
    BY <1>2, <2>1, <2>2
<1>9. \A d \in Channels, o \in Ops :
        /\ In(Contents', d, o) => \E e \in Channels : In(Contents, e, o)
        /\ In(waiters', d, o) =>
             result'[o] = result[o] /\ \E e \in Channels : In(waiters, e, o)
        /\ In(copies', d, o) =>
             result'[o] = result[o] /\ \E e \in Channels : In(copies, e, o)
  <2>1. \A d \in Channels, o \in Ops : In(waiters, d, o) => o \notin S
    BY <1>7 DEF Inv, Sorted
  <2>2. QED
    BY <1>1, <1>3, <1>8, <2>1
<1>10. \A o \in Ops : result[o] = "ok" => result'[o] = "ok"
  BY <1>3, <1>7
<1>11. Once(Contents') /\ Once(waiters') /\ got' = got
  BY <1>1
<1>12. QED
  BY <1>5, <1>6, <1>9, <1>10, <1>11, FewerKeep

LEMMA EndResetKeeps ==
  ASSUME Inv, NEW c \in Channels, EndReset(c), UNCHANGED <<capacity, moving>>,
         ~Copied(c)
  PROVE  Inv'
<1>1. /\ TypeOK /\ Once(waiters) /\ Once(copies) /\ <<>> \in Seq(Senders)
      /\ Contents \in [Channels -> Seq(Senders)] /\ Once(Contents)
      /\ UNCHANGED <<waiters, copies, result, got, undefined, down>>
      /\ buffer' = [buffer EXCEPT ![c] = <<>>] /\ resetting' = resetting \ {c}
  BY ContentsType DEF Inv, Sorted, TypeOK, EndReset, opVars
<1>2. /\ Contents' \in [Channels -> Seq(Senders)] /\ Contents'[c] = <<>>
      /\ Only(c, Contents', Contents) /\ buffer' \in [Channels -> Seq(Senders)]
  BY <1>1, OneContents
<1>3. Left(Contents', Contents, c) /\ Once(Contents')
  BY <1>1, <1>2, Emptied
<1>4. TypeOK'
  <2>1. /\ receiveState' \in [Channels -> States]
        /\ sendState' \in [Channels -> States]
    BY <1>1 DEF EndReset, TypeOK, States, Idle
  <2>2. QED
    BY <1>1, <1>2, <2>1 DEF TypeOK
<1>5. \A d \in Channels, o \in Ops :
        /\ In(Contents', d, o) => \E e \in Channels : In(Contents, e, o)
        /\ In(waiters', d, o) =>
             result'[o] = result[o] /\ \E e \in Channels : In(waiters, e, o)
        /\ In(copies', d, o) =>
             result'[o] = result[o] /\ \E e \in Channels : In(copies, e, o)
  BY <1>1, <1>3 DEF Left
<1>6. Once(waiters') /\ Once(copies') /\ got' = got /\ result' = result
  BY <1>1
<1>7. QED
  BY <1>3, <1>4, <1>5, <1>6, FewerKeep

\* SendRefused and ReceiveRefused.
LEMMA RefusedKeeps ==
  ASSUME Inv, NEW c \in Channels, NEW o \in Ops, result[o] = "new",
         result' = Ended({o}, "closed"),
         UNCHANGED <<capacity, chanVars, copies, resetting, moving, got, undefined,
                     down>>
  PROVE  Inv'
<1>1. /\ \A x \in Ops : result'[x] = IF x \in {o} THEN "closed" ELSE result[x]
      /\ result' \in [Ops -> Results]
  <2>1. TypeOK /\ "closed" \in Results
    BY DEF Inv, Results
  <2>2. QED
    BY <2>1, EndedFacts
<1>2. TypeOK'
  BY <1>1 DEF Inv, TypeOK, chanVars
<1>3. \A x \in Ops : result[x] # "new" => result'[x] = result[x]
  BY <1>1
<1>4. Contents' = Contents /\ waiters' = waiters /\ copies' = copies
  BY SameContents DEF chanVars
<1>5. Once(Contents') /\ Once(waiters') /\ Once(copies')
  BY <1>4 DEF Inv, Sorted
<1>6. \A d \in Channels, x \in Ops :
        /\ In(waiters', d, x) => result'[x] = result[x]
        /\ In(copies', d, x) => result'[x] = result[x]
  BY <1>3, <1>4 DEF Inv, Sorted
<1>7. QED
  BY <1>2, <1>3, <1>4, <1>5, <1>6, FewerKeep

LEMMA NextInv == Inv /\ Alone /\ [Next]_vars => Inv'
<1> SUFFICES ASSUME Inv, Alone, [Next]_vars
             PROVE  Inv'
  OBVIOUS
<1>1. ASSUME NEW c \in Channels, NEW s \in Senders, UNCHANGED <<capacity, moving>>,
             TrySend(c, s) \/ SendBlocks(c, s) \/ SendRefused(c, s)
      PROVE  Inv'
  <2>1. CASE SendRefused(c, s)
    BY <1>1, <2>1, RefusedKeeps, Kinds DEF SendRefused, New
  <2>2. CASE TrySend(c, s)
    BY <1>1, <2>2, TrySendKeeps, UsedAlone DEF TrySend
  <2>3. QED
    BY <1>1, <2>1, <2>2, BlocksKeep
<1>2. ASSUME NEW c \in Channels, UNCHANGED <<capacity, moving>>,
             \/ \E batch \in Batches : TrySendN(c, batch)
             \/ NextCopy(c) \/ RefuseCopies(c)
      PROVE  Inv'
  BY <1>2, TrySendNKeeps, NextCopyKeeps, RefuseCopiesKeeps, UsedAlone
<1>3. ASSUME NEW c \in Channels, NEW r \in Receivers, UNCHANGED <<capacity, moving>>,
             TryReceive(c, r) \/ ReceiveBlocks(c, r) \/ ReceiveRefused(c, r)
      PROVE  Inv'
  <2>1. CASE ReceiveRefused(c, r)
    BY <1>3, <2>1, RefusedKeeps, Kinds DEF ReceiveRefused, New
  <2>2. CASE TryReceive(c, r)
    BY <1>3, <2>2, TryReceiveKeeps, UsedAlone DEF TryReceive
  <2>3. QED
    BY <1>3, <2>1, <2>2, BlocksKeep
<1>4. ASSUME NEW c \in Channels, UNCHANGED <<capacity, moving>>,
             Cancel(c) \/ Close(c) \/ BeginReset(c) \/ EndReset(c)
      PROVE  Inv'
  <2>1. ASSUME Cancel(c) \/ BeginReset(c)
        PROVE  Inv'
    <3>1. /\ resetting' \subseteq Channels /\ CancelAll(c)
          /\ UNCHANGED <<capacity, buffer, copies, got, undefined, down>>
      BY <1>4, <2>1 DEF Cancel, BeginReset, Inv, TypeOK
    <3>2. Contents' = Contents
      BY <1>4, <3>1, SameContents
    <3>3. QED
      BY <3>1, <3>2, CancelAllKeeps
  <2>2. QED
    BY <1>4, <2>1, CloseKeeps, EndResetKeeps, UsedAlone
<1>5. ASSUME NEW c \in Channels, NEW o \in Ops, UNCHANGED <<capacity, moving>>,
             CancelByKey(c, o)
      PROVE  Inv'
  BY <1>5, CancelByKeyKeeps
<1>6. ASSUME Shutdown, UNCHANGED <<capacity, moving>>
      PROVE  Inv'
  BY <1>6, ShutdownKeeps
<1>7. ASSUME NEW c \in Channels, NEW d \in Channels, Move(c, d)
      PROVE  Inv'
  BY <1>7, BeginMoveKeeps, MoveStatesKeep, CopyBufferKeeps, ClearBufferKeeps DEF Move
<1>8. CASE UNCHANGED vars
  <2>1. Contents' = Contents
    BY <1>8, SameContents DEF vars
  <2>2. QED
    BY <1>8, <2>1 DEF vars, Inv, TypeOK, Sorted, Received
<1>9. QED
  BY <1>1, <1>2, <1>3, <1>4, <1>5, <1>6, <1>7, <1>8 DEF Next

\* Nobody else begins to use what is moved.
LEMMA OthersAlone ==
  ASSUME Alone, UNCHANGED moving,
         \A c \in Moved : /\ c \in resetting' => c \in resetting
                          /\ copies[c] = <<>> => copies'[c] = <<>>
  PROVE  Alone'
BY DEF Alone, Moved

LEMMA CallsAlone ==
  ASSUME Inv, Alone, UNCHANGED moving, NEW c \in Channels, c \notin Moved,
         Only(c, copies', copies), resetting' \subseteq resetting \cup {c}
  PROVE  Alone'
<1>1. \A d \in Moved : d \in Channels /\ d # c
  BY InMove DEF Alone
<1>2. QED
  BY <1>1, OthersAlone DEF Only

LEMMA BeginMoveAlone ==
  ASSUME MovedAlone, Inv, Alone, NEW c \in Channels, NEW d \in Channels,
         BeginMove(c, d)
  PROVE  Alone'
<1> DEFINE m == <<c, d, "receive">>
<1>1. /\ moving' = moving \cup {m} /\ UNCHANGED <<copies, resetting>>
      /\ m[1] = c /\ m[2] = d /\ c # d
      /\ m \in Channels \X Channels \X {"receive", "send", "copy", "clear"}
  BY DEF BeginMove
<1>2. ~MovesRace
  <2>1. capacity[c] \in DOMAIN Uses /\ "move" \in Uses[capacity[c]]
    BY DEF BeginMove, Makes, Inv, TypeOK
  <2>2. QED
    BY <2>1 DEF MovedAlone
<1>3. /\ \A e \in {c, d} : e \notin resetting /\ copies[e] = <<>>
      /\ {c, d} \cap Moved = {}
  BY <1>2 DEF BeginMove, CanLock
<1> HIDE DEF m
<1>4. \A n \in moving : {n[1], n[2]} \cap {c, d} = {}
  BY <1>3, InMove
<1>5. Moved' = Moved \cup {c, d}
  BY <1>1 DEF Moved
<1>6. QED
  BY <1>1, <1>2, <1>3, <1>4, <1>5 DEF Alone

LEMMA MovesAlone ==
  ASSUME Alone, NEW c \in Channels, NEW d \in Channels, NEW step,
         NEW next \in SUBSET {"send", "copy", "clear"}, Moves(c, d, step, next),
         \A x, y \in next : x = y
  PROVE  Alone'
<1> DEFINE m == <<c, d, step>>
           added == {<<c, d, n>> : n \in next}
<1>1. /\ m \in moving /\ moving' = (moving \ {m}) \cup added
      /\ UNCHANGED <<copies, resetting>> /\ m[1] = c /\ m[2] = d
  BY DEF Moves
<1>2. \A n \in added : /\ n[1] = c /\ n[2] = d
                       /\ n \in Channels \X Channels \X {"send", "copy", "clear"}
  OBVIOUS
<1>3. \A x, y \in added : x = y
  OBVIOUS
<1> HIDE DEF m, added
<1>4. c # d /\ \A n \in moving \ {m} : {n[1], n[2]} \cap {c, d} = {}
  BY <1>1 DEF Alone
<1>5. Moved' \subseteq Moved
  BY <1>1, <1>2 DEF Moved
<1>6. moving' \subseteq Channels \X Channels \X {"receive", "send", "copy", "clear"}
  BY <1>1, <1>2 DEF Alone
<1>7. \A x \in moving' : x[1] # x[2]
  BY <1>1, <1>2, <1>4 DEF Alone
<1>8. \A x, y \in moving' : x = y \/ {x[1], x[2]} \cap {y[1], y[2]} = {}
  BY <1>1, <1>2, <1>3, <1>4 DEF Alone
<1>9. QED
  BY <1>1, <1>5, <1>6, <1>7, <1>8 DEF Alone

LEMMA NextAlone == MovedAlone /\ Inv /\ Alone /\ [Next]_vars => Alone'
<1> SUFFICES ASSUME MovedAlone, Inv, Alone, [Next]_vars
             PROVE  Alone'
  OBVIOUS
<1>1. ASSUME UNCHANGED <<copies, resetting, moving>>
      PROVE  Alone'
  BY <1>1, OthersAlone
<1>2. ASSUME NEW c \in Channels, UNCHANGED moving,
             \/ \E batch \in Batches : TrySendN(c, batch)
             \/ NextCopy(c) \/ RefuseCopies(c) \/ BeginReset(c) \/ EndReset(c)
      PROVE  Alone'
  <2>1. c \notin Moved
    BY <1>2, UsedAlone DEF TrySendN, BeginReset
  <2>2. Only(c, copies', copies) /\ resetting' \subseteq resetting \cup {c}
    BY <1>2 DEF TrySendN, NextCopy, RefuseCopies, BeginReset, EndReset, Only, Inv,
                TypeOK
  <2>3. QED
    BY <1>2, <2>1, <2>2, CallsAlone
<1>3. ASSUME NEW c \in Channels, UNCHANGED moving,
             \/ \E s \in Senders :
                  TrySend(c, s) \/ SendBlocks(c, s) \/ SendRefused(c, s)
             \/ \E r \in Receivers :
                  TryReceive(c, r) \/ ReceiveBlocks(c, r) \/ ReceiveRefused(c, r)
             \/ Cancel(c) \/ Close(c) \/ \E o \in Ops : CancelByKey(c, o)
      PROVE  Alone'
  BY <1>1, <1>3 DEF TrySend, SendBlocks, SendRefused, TryReceive, ReceiveBlocks,
                    ReceiveRefused, Cancel, Close, CancelByKey
<1>4. ASSUME Shutdown, UNCHANGED moving
      PROVE  Alone'
  BY <1>1, <1>4 DEF Shutdown
<1>5. ASSUME NEW c \in Channels, NEW d \in Channels, Move(c, d)
      PROVE  Alone'
  <2>1. CASE BeginMove(c, d)
    BY <2>1, BeginMoveAlone
  <2>2. CASE MoveReceiveState(c, d)
    BY <2>2, MovesAlone DEF MoveReceiveState
  <2>3. CASE MoveSendState(c, d)
    BY <2>3, MovesAlone DEF MoveSendState
  <2>4. CASE CopyBuffer(c, d)
    BY <2>4, MovesAlone DEF CopyBuffer
  <2>5. CASE ClearBuffer(c, d)
    BY <2>5, MovesAlone DEF ClearBuffer
  <2>6. QED
    BY <1>5, <2>1, <2>2, <2>3, <2>4, <2>5 DEF Move
<1>6. CASE UNCHANGED vars
  BY <1>1, <1>6 DEF vars
<1>7. QED
  BY <1>2, <1>3, <1>4, <1>5, <1>6 DEF Next

\* The queues hold what the results say, and what was received is nowhere else.
THEOREM SpecInv == MovedAlone => (Spec => []Inv)
<1> SUFFICES ASSUME MovedAlone
             PROVE  Spec => []Inv
  OBVIOUS
<1>1. Init => Alone
  BY DEF Init, Alone, Moved
<1>2. Inv /\ Alone /\ [Next]_vars => Alone'
  BY NextAlone
<1>3. QED
  BY <1>1, <1>2, InitInv, NextInv, PTL DEF Spec

LEMMA PlaceOf ==
  ASSUME NEW name, NEW queue, NEW s, NEW p \in PlacesIn(name, queue, s),
         \A c \in Channels : DOMAIN queue[c] = 1 .. Len(queue[c])
  PROVE  \E c \in Channels : \E i \in 1 .. Len(queue[c]) :
           p = <<name, c, i>> /\ queue[c][i] = s
<1>1. PICK c \in Channels :
        p \in {<<name, c, i>> : i \in {j \in DOMAIN queue[c] : queue[c][j] = s}}
  BY DEF PlacesIn
<1>2. QED
  BY <1>1

LEMMA InvNotDuplicated == Inv => MessageNotDuplicated
<1> SUFFICES ASSUME Inv, NEW s \in Senders, NEW p \in Places(s), NEW q \in Places(s)
             PROVE  p = q
  BY DEF MessageNotDuplicated
<1> DEFINE InBuffer(x) == \E c \in Channels : \E i \in 1 .. Len(Contents[c]) :
                            x = <<"buffer", c, i>> /\ Contents[c][i] = s
           InWaiters(x) == \E c \in Channels : \E i \in 1 .. Len(waiters[c]) :
                             x = <<"waiters", c, i>> /\ waiters[c][i] = s
           IsGot(x) == \E r \in Receivers : x = <<"got", r, 1>> /\ got[r] = s
<1>1. ASSUME NEW x \in Places(s)
      PROVE  InBuffer(x) \/ InWaiters(x) \/ IsGot(x)
  <2>1. /\ \A c \in Channels : DOMAIN Contents[c] = 1 .. Len(Contents[c])
        /\ \A c \in Channels : DOMAIN waiters[c] = 1 .. Len(waiters[c])
    BY DEF Inv, TypeOK
  <2>2. CASE x \in PlacesIn("buffer", Contents, s)
    BY <2>1, <2>2, PlaceOf
  <2>3. CASE x \in PlacesIn("waiters", waiters, s)
    BY <2>1, <2>3, PlaceOf
  <2>4. QED
    BY <1>1, <2>2, <2>3 DEF Places
<1>2. s \in Ops /\ s # NoMessage
  BY Kinds
<1>3. \A x : InBuffer(x) => result[s] = "ok" /\ \A y : ~IsGot(y)
  BY <1>2 DEF Inv, Sorted, Received, In
<1>4. \A x : InWaiters(x) => result[s] = "waiting"
  BY <1>2 DEF Inv, Sorted, In
<1>5. \A x : IsGot(x) => result[s] = "ok"
  BY <1>2 DEF Inv, Received
<1>6. InBuffer(p) /\ InBuffer(q) => p = q
  BY OnePlace DEF Inv, Sorted
<1>7. InWaiters(p) /\ InWaiters(q) => p = q
  BY OnePlace DEF Inv, Sorted
<1>8. IsGot(p) /\ IsGot(q) => p = q
  BY <1>2 DEF Inv, Received
<1>9. QED
  <2> HIDE DEF InBuffer, InWaiters, IsGot
  <2>1. (InBuffer(p) \/ InWaiters(p) \/ IsGot(p))
        /\ (InBuffer(q) \/ InWaiters(q) \/ IsGot(q))
    BY <1>1
  <2>2. QED
    BY <1>3, <1>4, <1>5, <1>6, <1>7, <1>8, <2>1

\* No message is received twice, nor received and kept, whatever the program
\* calls, if it moves no channel that another thread uses meanwhile: channel_service
\* moves it from a sender to the buffer or a receiver.
THEOREM MessageNotDuplicatedAlways == MovedAlone => (Spec => []MessageNotDuplicated)
BY SpecInv, InvNotDuplicated, PTL

----------------------------------------------------------------------------
(* The inductive invariant behind StatesTellWaiters *)

\* No channel is moved, and none is reset while others may use it.
Settled ==
  \A n \in DOMAIN Uses :
    "move" \notin Uses[n] /\ ("reset" \in Uses[n] => ~Concurrent)

Unmoved == moving = {}

LEMMA NoMove ==
  ASSUME Settled, TypeOK, Unmoved, NEW c \in Channels, NEW d \in Channels,
         Move(c, d)
  PROVE  FALSE
<1>1. CASE BeginMove(c, d)
  BY <1>1 DEF BeginMove, Makes, Settled, TypeOK
<1>2. CASE ~BeginMove(c, d)
  BY <1>2 DEF Move, MoveReceiveState, MoveSendState, CopyBuffer, ClearBuffer, Moves,
              Unmoved
<1>3. QED
  BY <1>1, <1>2

LEMMA SettledInv == Settled => (Spec => [](Inv /\ Unmoved))
<1> SUFFICES ASSUME Settled
             PROVE  Spec => [](Inv /\ Unmoved)
  OBVIOUS
<1>1. MovedAlone
  BY DEF Settled, MovedAlone
<1>2. Init => Unmoved
  BY DEF Init, Unmoved
<1>3. Inv /\ Unmoved /\ [Next]_vars => Unmoved'
  <2> SUFFICES ASSUME Inv, Unmoved, [Next]_vars
               PROVE  Unmoved'
    OBVIOUS
  <2>1. moving' = moving \/ \E c, d \in Channels : Move(c, d)
    BY DEF Next, vars
  <2>2. QED
    BY <2>1, NoMove DEF Inv, Unmoved
<1>4. Spec => []Inv
  BY <1>1, SpecInv
<1>5. QED
  BY <1>2, <1>3, <1>4, PTL DEF Spec

\* What the states of the two ends say of what waits and of what is stored.
Matched(c) ==
  /\ <<receiveState[c], sendState[c]>> \in
       {<<"block", "block">>, <<"block", "buffer">>, <<"block", "waiter">>,
        <<"buffer", "buffer">>, <<"buffer", "block">>, <<"waiter", "block">>,
        <<"closed", "closed">>}
  /\ "waiter" \in {receiveState[c], sendState[c]} => waiters[c] # <<>>
  /\ sendState[c] = "buffer" => waiters[c] = <<>>
  /\ receiveState[c] = "block" /\ sendState[c] = "block" => waiters[c] = <<>>
  /\ \A o \in Ops : In(waiters, c, o) =>
       o \in IF sendState[c] = "waiter" THEN Receivers ELSE Senders
  /\ receiveState[c] = "buffer" <=> buffer[c] # <<>> /\ sendState[c] # "closed"
  /\ c \in resetting => waiters[c] = <<>>

StatesInv ==
  /\ ~undefined
  /\ resetting # {} => ~Concurrent
  /\ \A c \in Channels : down \/ c \in resetting => copies[c] = <<>>
  /\ ~down => \A c \in Channels : Matched(c)

\* Only c changes.
Local(c) ==
  /\ Only(c, receiveState', receiveState) /\ Only(c, sendState', sendState)
  /\ Only(c, waiters', waiters) /\ Only(c, buffer', buffer)
  /\ Only(c, copies', copies)
  /\ resetting' \subseteq resetting \cup {c}

LEMMA OneMatched ==
  ASSUME StatesInv, ~down, NEW c \in Channels, Local(c), Matched(c)', ~undefined',
         resetting' # {} => ~Concurrent, c \in resetting' => copies'[c] = <<>>,
         down' = down
  PROVE  StatesInv'
<1>1. ASSUME NEW d \in Channels, d # c
      PROVE  Matched(d)' /\ (d \in resetting' => copies'[d] = <<>>)
  <2>1. /\ receiveState'[d] = receiveState[d] /\ sendState'[d] = sendState[d]
        /\ waiters'[d] = waiters[d] /\ buffer'[d] = buffer[d]
        /\ copies'[d] = copies[d] /\ (d \in resetting' => d \in resetting)
    BY <1>1 DEF Local, Only
  <2>2. \A o : In(waiters', d, o) <=> In(waiters, d, o)
    BY <2>1 DEF In
  <2>3. Matched(d)
    BY DEF StatesInv
  <2>4. QED
    BY <2>1, <2>2, <2>3 DEF Matched, StatesInv
<1>2. QED
  BY <1>1 DEF StatesInv

\* The queue of c without its first, and whether anything is left of it.
LEMMA TailLeft ==
  ASSUME Inv, NEW c \in Channels, waiters[c] # <<>>,
         waiters' = [waiters EXCEPT ![c] = Tail(waiters[c])]
  PROVE  /\ Only(c, waiters', waiters)
         /\ waiters'[c] = <<>> <=> Len(waiters[c]) = 1
         /\ \A o : In(waiters', c, o) => In(waiters, c, o)
<1>1. /\ waiters \in [Channels -> Seq(Ops)] /\ waiters' \in [Channels -> Seq(Ops)]
      /\ waiters'[c] = Tail(waiters[c]) /\ Only(c, waiters', waiters)
  BY DEF Inv, TypeOK, Only
<1>2. Len(waiters'[c]) = Len(waiters[c]) - 1
  BY <1>1, Tailed
<1>3. Parted(waiters', waiters, c, Head(waiters[c]))
  BY <1>1, Tailed
<1>4. waiters'[c] = <<>> <=> Len(waiters'[c]) = 0
  <2>1. waiters'[c] \in Seq(Ops)
    BY <1>1
  <2>2. QED
    BY <2>1, ByLength
<1>5. Len(waiters[c]) \in Nat
  BY <1>1
<1>6. waiters'[c] = <<>> <=> Len(waiters[c]) = 1
  BY ONLY <1>2, <1>4, <1>5
<1>7. QED
  BY <1>1, <1>3, <1>6 DEF Parted

LEMMA PutMatched ==
  ASSUME Inv, NEW c \in Channels, NEW s \in Senders, Put(c, s),
         Matched(c), c \notin resetting, ~undefined, resetting' = resetting
  PROVE  /\ Matched(c)' /\ ~undefined'
         /\ Only(c, receiveState', receiveState) /\ Only(c, sendState', sendState)
         /\ Only(c, waiters', waiters) /\ Only(c, buffer', buffer)
<1>1. /\ receiveState \in [Channels -> States] /\ sendState \in [Channels -> States]
      /\ buffer \in [Channels -> Seq(Senders)]
      /\ waiters \in [Channels -> Seq(Ops)] /\ Once(waiters)
  BY DEF Inv, TypeOK, Sorted
<1>2. CASE PutInBuffer(c, s)
  <2>1. /\ buffer'[c] = Append(buffer[c], s) /\ waiters' = waiters
        /\ receiveState'[c] = "buffer" /\ sendState'[c] \in {"block", "buffer"}
        /\ undefined' = undefined /\ sendState[c] = "buffer"
        /\ Only(c, receiveState', receiveState) /\ Only(c, sendState', sendState)
        /\ Only(c, waiters', waiters) /\ Only(c, buffer', buffer)
    BY <1>1, <1>2 DEF PutInBuffer, Only
  <2>2. buffer'[c] # <<>>
    <3>1. buffer' \in [Channels -> Seq(Senders)]
      BY <1>2, <1>1 DEF PutInBuffer
    <3>2. QED
      BY <1>1, <2>1, <3>1, Appended
  <2>3. waiters[c] = <<>> /\ \A o : ~In(waiters, c, o)
    BY <2>1 DEF Matched, In
  <2>4. QED
    BY <2>1, <2>2, <2>3 DEF Matched
<1>3. CASE PutToWaiter(c, s)
  <2>1. /\ waiters' = [waiters EXCEPT ![c] = Tail(waiters[c])] /\ waiters[c] # <<>>
        /\ receiveState' = receiveState /\ buffer' = buffer
        /\ sendState[c] = "waiter" /\ sendState'[c] = NextSendState(c)
        /\ undefined' = undefined
        /\ Only(c, receiveState', receiveState) /\ Only(c, sendState', sendState)
        /\ Only(c, buffer', buffer)
    BY <1>1, <1>3 DEF PutToWaiter, Only
  <2>2. /\ Only(c, waiters', waiters)
        /\ waiters'[c] = <<>> <=> Len(waiters[c]) = 1
        /\ \A o : In(waiters', c, o) => In(waiters, c, o)
    BY <2>1, TailLeft
  <2>3. receiveState[c] = "block" /\ buffer[c] = <<>>
    BY <2>1 DEF Matched
  <2>4. \A o \in Ops : In(waiters', c, o) => o \in Receivers
    BY <2>1, <2>2 DEF Matched
  <2>5. CASE Len(waiters[c]) = 1
    <3>1. sendState'[c] \in {"block", "buffer"}
      BY <2>1, <2>5 DEF NextSendState, Idle
    <3>2. \A o : ~In(waiters', c, o)
      BY <2>2, <2>5 DEF In
    <3>3. QED
      BY <2>1, <2>2, <2>3, <2>5, <3>1, <3>2 DEF Matched
  <2>6. CASE Len(waiters[c]) # 1
    <3>1. sendState'[c] = "waiter"
      BY <2>1, <2>6 DEF NextSendState
    <3>2. QED
      BY <2>1, <2>2, <2>3, <2>4, <2>6, <3>1 DEF Matched
  <2>7. QED
    BY <2>5, <2>6
<1>4. CASE PutToNobody(c)
  BY <1>4 DEF PutToNobody, Matched
<1>5. QED
  BY <1>2, <1>3, <1>4 DEF Put

LEMMA Allowed ==
  ASSUME Settled, TypeOK, StatesInv, NEW c \in Channels, CanLock(c)
  PROVE  c \notin resetting /\ ~down /\ ~undefined /\ copies[c] = <<>>
BY DEF CanLock, StatesInv

LEMMA SendMatched ==
  ASSUME Settled, Inv, StatesInv, NEW c \in Channels, NEW s \in Senders,
         TrySend(c, s) \/ SendBlocks(c, s) \/ SendRefused(c, s)
  PROVE  StatesInv'
<1>1. /\ c \notin resetting /\ ~down /\ ~undefined /\ copies[c] = <<>>
      /\ Matched(c)
  <2>1. CanLock(c) /\ TypeOK
    BY DEF TrySend, SendBlocks, SendRefused, Inv
  <2>2. QED
    BY <2>1, Allowed DEF StatesInv
<1>2. /\ receiveState \in [Channels -> States] /\ sendState \in [Channels -> States]
      /\ buffer \in [Channels -> Seq(Senders)] /\ s \in Ops
      /\ waiters \in [Channels -> Seq(Ops)] /\ Once(waiters)
  BY Kinds DEF Inv, TypeOK, Sorted
<1>3. /\ copies' = copies /\ resetting' = resetting /\ down' = down
      /\ Only(c, copies', copies)
  BY DEF TrySend, SendBlocks, SendRefused, Only
<1>4. /\ Matched(c)' /\ ~undefined'
      /\ Only(c, receiveState', receiveState) /\ Only(c, sendState', sendState)
      /\ Only(c, waiters', waiters) /\ Only(c, buffer', buffer)
  <2>1. CASE TrySend(c, s)
    <3>1. Put(c, s)
      BY <2>1 DEF TrySend
    <3>2. QED
      BY <1>1, <1>3, <3>1, PutMatched
  <2>2. CASE SendBlocks(c, s)
    <3>1. /\ sendState[c] = "block" /\ sendState' = sendState /\ buffer' = buffer
          /\ waiters'[c] = Append(waiters[c], s)
          /\ waiters' \in [Channels -> Seq(Ops)]
          /\ receiveState'[c] = IF receiveState[c] = "block" THEN "waiter"
                                                             ELSE receiveState[c]
          /\ undefined' = undefined
          /\ Only(c, receiveState', receiveState) /\ Only(c, sendState', sendState)
          /\ Only(c, waiters', waiters) /\ Only(c, buffer', buffer)
      BY <1>2, <2>2 DEF SendBlocks, Only
    <3>2. waiters'[c] # <<>> /\ Joined(waiters', waiters, c, s)
      BY <1>2, <3>1, Appended
    <3>3. \A o \in Ops : In(waiters', c, o) => o \in Senders
      BY <1>1, <3>1, <3>2 DEF Matched, Joined
    <3>4. QED
      BY <1>1, <1>3, <3>1, <3>2, <3>3 DEF Matched
  <2>3. CASE SendRefused(c, s)
    BY <1>1, <1>3, <2>3 DEF SendRefused, chanVars, Matched, Only
  <2>4. QED
    BY <2>1, <2>2, <2>3
<1>5. Local(c)
  BY <1>3, <1>4 DEF Local
<1>6. QED
  BY <1>1, <1>3, <1>4, <1>5, OneMatched DEF StatesInv

LEMMA CopyMatched ==
  ASSUME Settled, Inv, StatesInv, NEW c \in Channels,
         NextCopy(c) \/ RefuseCopies(c)
  PROVE  StatesInv'
<1>1. /\ c \notin resetting /\ ~down /\ ~undefined /\ Matched(c)
      /\ copies[c] # <<>> /\ copies \in [Channels -> Seq(Senders)]
  BY DEF NextCopy, RefuseCopies, StatesInv, Inv, TypeOK
<1>2. resetting' = resetting /\ down' = down /\ Only(c, copies', copies)
  BY <1>1 DEF NextCopy, RefuseCopies, Only
<1>3. /\ Matched(c)' /\ ~undefined'
      /\ Only(c, receiveState', receiveState) /\ Only(c, sendState', sendState)
      /\ Only(c, waiters', waiters) /\ Only(c, buffer', buffer)
  <2>1. CASE NextCopy(c)
    <3>1. Put(c, Head(copies[c])) /\ Head(copies[c]) \in Senders
      BY <1>1, <2>1, HeadIn DEF NextCopy
    <3>2. QED
      BY <1>1, <1>2, <3>1, PutMatched
  <2>2. CASE RefuseCopies(c)
    BY <1>1, <1>2, <2>2 DEF RefuseCopies, chanVars, Matched, Only
  <2>3. QED
    BY <2>1, <2>2
<1>4. Local(c)
  BY <1>2, <1>3 DEF Local
<1>5. QED
  BY <1>1, <1>2, <1>3, <1>4, OneMatched DEF StatesInv

LEMMA TrySendNMatched ==
  ASSUME Settled, Inv, StatesInv, NEW c \in Channels, NEW b, TrySendN(c, b)
  PROVE  StatesInv'
<1>1. /\ c \notin resetting /\ ~down /\ ~undefined /\ Matched(c)
  <2>1. CanLock(c) /\ TypeOK
    BY DEF TrySendN, Inv
  <2>2. QED
    BY <2>1, Allowed DEF StatesInv
<1>2. /\ UNCHANGED <<receiveState, sendState, buffer, waiters, resetting, undefined,
                     down>>
      /\ Only(c, copies', copies)
  BY DEF TrySendN, chanVars, Only, Inv, TypeOK
<1>3. Matched(c)' /\ Local(c)
  BY <1>1, <1>2 DEF Matched, Local, Only
<1>4. QED
  BY <1>1, <1>2, <1>3, OneMatched DEF StatesInv

LEMMA ReceiveMatched ==
  ASSUME Settled, Inv, StatesInv, NEW c \in Channels, NEW r \in Receivers,
         TryReceive(c, r) \/ ReceiveBlocks(c, r) \/ ReceiveRefused(c, r)
  PROVE  StatesInv'
<1>1. /\ c \notin resetting /\ ~down /\ ~undefined /\ copies[c] = <<>>
      /\ Matched(c)
  <2>1. CanLock(c) /\ TypeOK
    BY DEF TryReceive, ReceiveBlocks, ReceiveRefused, Inv
  <2>2. QED
    BY <2>1, Allowed DEF StatesInv
<1>2. /\ receiveState \in [Channels -> States] /\ sendState \in [Channels -> States]
      /\ buffer \in [Channels -> Seq(Senders)] /\ r \in Ops
      /\ waiters \in [Channels -> Seq(Ops)]
  BY Kinds DEF Inv, TypeOK, Sorted
<1>3. /\ copies' = copies /\ resetting' = resetting /\ down' = down
      /\ Only(c, copies', copies)
  BY DEF TryReceive, ReceiveBlocks, ReceiveRefused, Only
<1>4. waiters[c] # <<>> /\ sendState[c] # "waiter" => Head(waiters[c]) \in Senders
  <2>1. waiters[c] # <<>> => In(waiters, c, Head(waiters[c]))
                             /\ Head(waiters[c]) \in Ops
    BY <1>2, HeadIn
  <2>2. QED
    BY <1>1, <2>1 DEF Matched
<1>5. /\ Matched(c)' /\ ~undefined'
      /\ Only(c, receiveState', receiveState) /\ Only(c, sendState', sendState)
      /\ Only(c, waiters', waiters) /\ Only(c, buffer', buffer)
  <2>1. CASE TakeFromBuffer(c, r)
    <3>1. /\ receiveState[c] = "buffer" /\ buffer[c] # <<>>
          /\ buffer'[c] = AfterTake(c) /\ Only(c, buffer', buffer)
          /\ undefined' = undefined /\ sendState[c] \in {"block", "buffer"}
      BY <1>1, <1>2, <2>1 DEF TakeFromBuffer, Only, Matched
    <3>2. CASE waiters[c] # <<>>
      <4>1. /\ receiveState' = receiveState /\ sendState' = sendState
            /\ waiters' = [waiters EXCEPT ![c] = Tail(waiters[c])]
            /\ sendState[c] = "block"
        BY <1>1, <2>1, <3>1, <3>2 DEF TakeFromBuffer, Matched
      <4>2. buffer'[c] # <<>>
        <5>1. Tail(buffer[c]) \in Seq(Senders) /\ Head(waiters[c]) \in Senders
          BY <1>2, <1>4, <3>1, <3>2, <4>1
        <5>2. QED
          BY <3>1, <3>2, <5>1 DEF AfterTake
      <4>3. /\ Only(c, waiters', waiters)
            /\ \A o : In(waiters', c, o) => In(waiters, c, o)
        BY <3>2, <4>1, TailLeft
      <4>4. QED
        BY <1>1, <1>3, <3>1, <4>1, <4>2, <4>3 DEF Matched, Only
    <3>3. CASE waiters[c] = <<>>
      <4>1. /\ receiveState'[c] = IF Len(buffer[c]) = 1 THEN "block" ELSE "buffer"
            /\ sendState'[c] = "buffer" /\ waiters' = waiters
            /\ buffer'[c] = Tail(buffer[c])
            /\ Only(c, receiveState', receiveState) /\ Only(c, sendState', sendState)
        BY <1>2, <2>1, <3>1, <3>3 DEF TakeFromBuffer, Only, Drained, AfterTake
      <4>2. buffer'[c] = <<>> <=> Len(buffer[c]) = 1
        <5>1. buffer[c] \in Seq(Senders) /\ Tail(buffer[c]) \in Seq(Senders)
              /\ Len(Tail(buffer[c])) = Len(buffer[c]) - 1
          BY <1>2, <3>1
        <5>2. Tail(buffer[c]) = <<>> <=> Len(Tail(buffer[c])) = 0
          BY <5>1, ByLength
        <5>3. Len(buffer[c]) \in Nat
          BY <5>1
        <5>4. QED
          BY ONLY <4>1, <5>1, <5>2, <5>3
      <4>3. \A o : ~In(waiters', c, o)
        BY <3>3, <4>1 DEF In
      <4>4. QED
        BY <1>1, <1>3, <3>1, <3>3, <4>1, <4>2, <4>3 DEF Matched, Only
    <3>4. QED
      BY <3>2, <3>3
  <2>2. CASE TakeFromWaiter(c, r)
    <3>1. /\ receiveState[c] = "waiter" /\ waiters[c] # <<>>
          /\ waiters' = [waiters EXCEPT ![c] = Tail(waiters[c])]
          /\ sendState' = sendState /\ sendState[c] = "block"
          /\ receiveState'[c] = IF Len(waiters[c]) = 1 THEN "block" ELSE "waiter"
          /\ Only(c, receiveState', receiveState) /\ Only(c, sendState', sendState)
          /\ buffer' = buffer /\ undefined' = undefined /\ Only(c, buffer', buffer)
      BY <1>1, <1>2, <2>2 DEF TakeFromWaiter, Only, Drained, Matched
    <3>2. /\ Only(c, waiters', waiters)
          /\ waiters'[c] = <<>> <=> Len(waiters[c]) = 1
          /\ \A o : In(waiters', c, o) => In(waiters, c, o)
      BY <3>1, TailLeft
    <3>3. QED
      BY <1>1, <1>3, <3>1, <3>2 DEF Matched
  <2>3. CASE TakeFromNobody(c)
    <3>1. receiveState[c] = "waiter" \/ receiveState[c] = "buffer" =>
            sendState[c] # "waiter"
      BY <1>1 DEF Matched
    <3>2. QED
      BY <1>1, <1>4, <2>3, <3>1 DEF TakeFromNobody, Matched
  <2>4. CASE ReceiveBlocks(c, r)
    <3>1. /\ receiveState[c] = "block" /\ receiveState' = receiveState
          /\ buffer' = buffer
          /\ waiters'[c] = Append(waiters[c], r)
          /\ waiters' \in [Channels -> Seq(Ops)]
          /\ sendState'[c] = IF sendState[c] # "closed" THEN "waiter"
                                                        ELSE sendState[c]
          /\ undefined' = undefined
          /\ Only(c, receiveState', receiveState) /\ Only(c, sendState', sendState)
          /\ Only(c, waiters', waiters) /\ Only(c, buffer', buffer)
      BY <1>2, <2>4 DEF ReceiveBlocks, Only
    <3>2. waiters'[c] # <<>> /\ Joined(waiters', waiters, c, r)
      BY <1>2, <3>1, Appended
    <3>3. \A o \in Ops : In(waiters, c, o) => o \in Receivers
      BY <1>1, <3>1 DEF Matched, In
    <3>4. \A o \in Ops : In(waiters', c, o) => o \in Receivers
      BY <3>2, <3>3 DEF Joined
    <3>5. QED
      BY <1>1, <1>3, <3>1, <3>2, <3>4 DEF Matched
  <2>5. CASE ReceiveRefused(c, r)
    BY <1>1, <1>3, <2>5 DEF ReceiveRefused, chanVars, Matched, Only
  <2>6. QED
    BY <2>1, <2>2, <2>3, <2>4, <2>5 DEF TryReceive
<1>6. Local(c)
  BY <1>3, <1>5 DEF Local
<1>7. QED
  BY <1>1, <1>3, <1>5, <1>6, OneMatched DEF StatesInv

\* Some of those that wait on c are cancelled.
LEMMA CancelledMatched ==
  ASSUME Inv, StatesInv, NEW c \in Channels, NEW S, NEW left \in Seq(Ops),
         CancelWaiters(c, S, left), c \notin resetting, ~down, copies[c] = <<>>,
         UNCHANGED <<buffer, copies, undefined, down>>,
         resetting' \subseteq resetting \cup {c},
         resetting' # {} => ~Concurrent,
         \A o \in Ops : In(waiters', c, o) => In(waiters, c, o),
         waiters[c] = <<>> => left = <<>>, c \in resetting' => left = <<>>
  PROVE  StatesInv'
<1>1. Matched(c)
  BY DEF StatesInv
<1>2. /\ waiters'[c] = left
      /\ receiveState'[c] = AfterCancel(c, left, receiveState[c])
      /\ sendState'[c] = AfterCancel(c, left, sendState[c])
      /\ Only(c, receiveState', receiveState) /\ Only(c, sendState', sendState)
      /\ Only(c, waiters', waiters) /\ Only(c, buffer', buffer)
      /\ Only(c, copies', copies)
  BY DEF CancelWaiters, Inv, TypeOK, Only
<1>3. CASE left = <<>>
  <2>1. \A o : ~In(waiters', c, o)
    BY <1>2, <1>3 DEF In
  <2>2. Matched(c)'
    BY <1>1, <1>2, <1>3, <2>1 DEF Matched, AfterCancel
  <2>3. QED
    BY <1>2, <2>2, OneMatched DEF Local, StatesInv
<1>4. CASE left # <<>>
  <2>1. /\ receiveState'[c] = receiveState[c] /\ sendState'[c] = sendState[c]
        /\ waiters[c] # <<>>
    BY <1>2, <1>4 DEF AfterCancel
  <2>2. Matched(c)'
    BY <1>1, <1>2, <1>4, <2>1 DEF Matched
  <2>3. QED
    BY <1>2, <2>2, OneMatched DEF Local, StatesInv
<1>5. QED
  BY <1>3, <1>4

LEMMA CancelMatched ==
  ASSUME Settled, Inv, StatesInv, NEW c \in Channels,
         Cancel(c) \/ BeginReset(c) \/ \E o \in Ops : CancelByKey(c, o)
  PROVE  StatesInv'
<1>1. /\ c \notin resetting /\ ~down /\ ~undefined /\ copies[c] = <<>>
      /\ Matched(c)
  <2>1. CanLock(c) /\ TypeOK
    BY DEF Cancel, BeginReset, CancelByKey, Inv
  <2>2. QED
    BY <2>1, Allowed DEF StatesInv
<1>2. /\ UNCHANGED <<buffer, copies, undefined, down>>
      /\ waiters \in [Channels -> Seq(Ops)] /\ <<>> \in Seq(Ops)
  <2>1. CASE Cancel(c)
    BY <2>1 DEF Cancel, Inv, TypeOK
  <2>2. CASE BeginReset(c)
    BY <2>2 DEF BeginReset, Inv, TypeOK
  <2>3. CASE \E o \in Ops : CancelByKey(c, o)
    BY <2>3 DEF CancelByKey, Inv, TypeOK
  <2>4. QED
    BY <2>1, <2>2, <2>3
<1>3. /\ resetting' \subseteq resetting \cup {c}
      /\ resetting' # {} => ~Concurrent
  <2>1. BeginReset(c) => ~Concurrent
    BY DEF BeginReset, Makes, Settled, Inv, TypeOK
  <2>2. BeginReset(c) => resetting' = resetting \cup {c}
    BY DEF BeginReset
  <2>3. ~BeginReset(c) => resetting' = resetting
    BY DEF Cancel, CancelByKey
  <2>4. QED
    BY <2>1, <2>2, <2>3 DEF StatesInv
<1>4. CASE CancelAll(c)
  <2>1. CancelWaiters(c, ToSet(waiters[c]), <<>>)
    BY <1>4 DEF CancelAll
  <2>2. waiters'[c] = <<>>
    BY <1>2, <2>1 DEF CancelWaiters
  <2>3. \A o \in Ops : In(waiters', c, o) => In(waiters, c, o)
    BY <2>2 DEF In
  <2>4. QED
    BY <1>1, <1>2, <1>3, <2>1, <2>3, CancelledMatched
<1>5. ASSUME NEW o \in Ops, CancelByKey(c, o)
      PROVE  StatesInv'
  <2>1. PICK i \in 1 .. Len(waiters[c]) :
          CancelWaiters(c, {o}, RemoveAt(waiters[c], i))
    <3>1. DOMAIN waiters[c] = 1 .. Len(waiters[c])
      BY <1>2
    <3>2. QED
      BY <1>5, <3>1 DEF CancelByKey
  <2>2. RemoveAt(waiters[c], i) \in Seq(Ops)
    BY <1>2, <2>1 DEF RemoveAt
  <2>3. /\ waiters' \in [Channels -> Seq(Ops)]
        /\ waiters'[c] = RemoveAt(waiters[c], i) /\ Only(c, waiters', waiters)
    BY <1>2, <2>1, <2>2 DEF CancelWaiters, Only
  <2>4. Parted(waiters', waiters, c, waiters[c][i])
    BY <1>2, <2>3, Removed
  <2>5. waiters[c] # <<>> /\ c \notin resetting'
    <3>1. Len(waiters[c]) # 0
      BY <1>2
    <3>2. QED
      BY <1>1, <1>2, <1>5, <3>1 DEF CancelByKey
  <2>6. \A x \in Ops : In(waiters', c, x) => In(waiters, c, x)
    BY <2>4 DEF Parted
  <2>7. QED
    BY <1>1, <1>2, <1>3, <2>1, <2>2, <2>5, <2>6, CancelledMatched
<1>6. QED
  BY <1>4, <1>5 DEF Cancel, BeginReset

LEMMA CloseMatched ==
  ASSUME Settled, Inv, StatesInv, NEW c \in Channels, Close(c)
  PROVE  StatesInv'
<1>1. /\ c \notin resetting /\ ~down /\ ~undefined /\ copies[c] = <<>>
      /\ Matched(c)
  <2>1. CanLock(c) /\ TypeOK
    BY DEF Close, Inv
  <2>2. QED
    BY <2>1, Allowed DEF StatesInv
<1>2. /\ receiveState'[c] = "closed" /\ sendState'[c] = "closed"
      /\ waiters'[c] = IF receiveState[c] = "block" THEN <<>> ELSE waiters[c]
      /\ Only(c, receiveState', receiveState) /\ Only(c, sendState', sendState)
      /\ Only(c, waiters', waiters) /\ Only(c, buffer', buffer)
      /\ Only(c, copies', copies)
      /\ UNCHANGED <<buffer, copies, resetting, undefined, down>>
  BY DEF Close, TellsOfClose, Inv, TypeOK, Only
<1>3. \A o \in Ops : In(waiters', c, o) => o \in Senders
  BY <1>1, <1>2 DEF Matched, In
<1>4. Matched(c)'
  BY <1>1, <1>2, <1>3 DEF Matched
<1>5. QED
  BY <1>1, <1>2, <1>4, OneMatched DEF Local, StatesInv

LEMMA EndResetMatched ==
  ASSUME Settled, Inv, StatesInv, NEW c \in Channels, EndReset(c)
  PROVE  StatesInv'
<1>1. /\ c \in resetting /\ ~down /\ ~undefined /\ copies[c] = <<>> /\ Matched(c)
  BY DEF EndReset, StatesInv
<1>2. /\ receiveState'[c] = "block" /\ sendState'[c] \in {"block", "buffer"}
      /\ waiters'[c] = <<>> /\ buffer'[c] = <<>>
      /\ Only(c, receiveState', receiveState) /\ Only(c, sendState', sendState)
      /\ Only(c, waiters', waiters) /\ Only(c, buffer', buffer)
      /\ Only(c, copies', copies) /\ c \notin resetting'
      /\ resetting' = resetting \ {c}
      /\ UNCHANGED <<waiters, copies, undefined, down>>
  BY <1>1 DEF EndReset, Idle, Inv, TypeOK, Only, Matched
<1>3. \A o : ~In(waiters', c, o)
  BY <1>2 DEF In
<1>4. Matched(c)'
  BY <1>2, <1>3 DEF Matched
<1>5. QED
  BY <1>1, <1>2, <1>4, OneMatched DEF Local, StatesInv

LEMMA NextMatched ==
  Settled /\ Inv /\ Unmoved /\ StatesInv /\ [Next]_vars => StatesInv'
<1> SUFFICES ASSUME Settled, Inv, Unmoved, StatesInv, [Next]_vars
             PROVE  StatesInv'
  OBVIOUS
<1>1. ASSUME Shutdown
      PROVE  StatesInv'
  BY <1>1 DEF Shutdown, StatesInv
<1>2. ASSUME NEW c \in Channels, NEW d \in Channels, Move(c, d)
      PROVE  FALSE
  BY <1>2, NoMove DEF Inv
<1>3. CASE UNCHANGED vars
  BY <1>3 DEF vars, StatesInv, Matched, In
<1>4. QED
  BY <1>1, <1>2, <1>3, SendMatched, TrySendNMatched, CopyMatched, ReceiveMatched,
     CancelMatched, CloseMatched, EndResetMatched DEF Next

LEMMA InitMatched == Init => StatesInv
<1> SUFFICES ASSUME Init
             PROVE  StatesInv
  OBVIOUS
<1>1. \A c \in Channels : /\ receiveState[c] = "block" /\ waiters[c] = <<>>
                          /\ sendState[c] \in {"block", "buffer"}
                          /\ buffer[c] = <<>>
  BY DEF Init, Idle
<1>2. \A c \in Channels : \A o : ~In(waiters, c, o)
  BY <1>1 DEF In
<1>3. QED
  BY <1>1, <1>2 DEF Init, StatesInv, Matched

LEMMA InvTells == Inv /\ StatesInv => StatesTellWaiters
<1> SUFFICES ASSUME Inv, StatesInv, ~down, NEW c \in Channels
             PROVE  /\ receiveState[c] = "waiter" => waiters[c] # <<>>
                    /\ receiveState[c] \in {"waiter", "buffer"} =>
                         Waiting(c) \subseteq Senders
                    /\ sendState[c] = "waiter" =>
                         waiters[c] # <<>> /\ Waiting(c) \subseteq Receivers
                    /\ sendState[c] \in {"block", "closed"} =>
                         Waiting(c) \subseteq Senders
                    /\ receiveState[c] = "buffer" <=>
                         buffer[c] # <<>> /\ sendState[c] # "closed"
  BY DEF StatesTellWaiters
<1>1. \A o \in Waiting(c) : o \in Ops /\ In(waiters, c, o)
  <2>1. waiters \in [Channels -> Seq(Ops)]
    BY DEF Inv, TypeOK
  <2>2. \A o \in Waiting(c) : In(waiters, c, o)
    BY <2>1, ToSetIn DEF Waiting
  <2>3. QED
    BY <2>1, <2>2 DEF In
<1>2. Matched(c)
  BY DEF StatesInv
<1>3. QED
  BY <1>1, <1>2 DEF Matched

LEMMA SpecMatched == Settled => (Spec => []StatesInv)
<1> SUFFICES ASSUME Settled
             PROVE  Spec => []StatesInv
  OBVIOUS
<1>1. Inv /\ Unmoved /\ StatesInv /\ [Next]_vars => StatesInv'
  BY NextMatched
<1>2. Spec => [](Inv /\ Unmoved)
  BY SettledInv
<1>3. QED
  BY <1>1, <1>2, InitMatched, PTL DEF Spec

\* If no channel is moved, and only channels whose mutex does nothing are reset,
\* the two states of a channel tell what waits on it and whether it stores
\* something, whatever else is called: every cast of channel_service is right.
THEOREM StatesTellWaitersAlways == Settled => (Spec => []StatesTellWaiters)
<1> SUFFICES ASSUME Settled
             PROVE  Spec => []StatesTellWaiters
  OBVIOUS
<1>1. Spec => []StatesInv
  BY SpecMatched
<1>2. Spec => [](Inv /\ Unmoved)
  BY SettledInv
<1>3. QED
  BY <1>1, <1>2, InvTells, PTL

----------------------------------------------------------------------------
(* A channel whose uses make it a mailbox *)

\* Channels with a buffer are not cancelled, and those that are closed are
\* neither cancelled nor reset.
MailboxLike ==
  /\ Settled
  /\ \A n \in DOMAIN Uses :
       /\ {"cancel", "cancel_by_key"} \cap Uses[n] # {} => n = 0
       /\ "close" \in Uses[n] =>
            {"cancel", "cancel_by_key", "reset"} \cap Uses[n] = {}

\* Whether senders block tells how full the buffer is.
RoomAt(c) ==
  /\ c \notin resetting =>
       /\ sendState[c] = "buffer" => Len(buffer[c]) < capacity[c]
       /\ sendState[c] = "block" => Len(buffer[c]) = capacity[c]
  /\ sendState[c] = "closed" => Makes(c, "close")

Room == ~down => \A c \in Channels : RoomAt(c)

Calls(c) ==
  \/ \E s \in Senders : TrySend(c, s) \/ SendBlocks(c, s) \/ SendRefused(c, s)
  \/ \E batch \in Batches : TrySendN(c, batch)
  \/ NextCopy(c) \/ RefuseCopies(c)
  \/ \E r \in Receivers :
       TryReceive(c, r) \/ ReceiveBlocks(c, r) \/ ReceiveRefused(c, r)
  \/ Cancel(c) \/ Close(c) \/ BeginReset(c)
  \/ \E o \in Ops : CancelByKey(c, o)

ActsOn(c) == Calls(c) \/ EndReset(c)

LEMMA NextActs ==
  ASSUME Settled, TypeOK, Unmoved, Next
  PROVE  /\ capacity' = capacity
         /\ Shutdown \/ \E c \in Channels : ActsOn(c)
<1>1. ASSUME NEW c \in Channels, NEW d \in Channels, Move(c, d)
      PROVE  FALSE
  BY <1>1, NoMove
<1>2. QED
  BY <1>1 DEF Next, ActsOn, Calls

LEMMA PutLocally ==
  ASSUME TypeOK, NEW c \in Channels, NEW s, Put(c, s)
  PROVE  /\ Only(c, receiveState', receiveState) /\ Only(c, sendState', sendState)
         /\ Only(c, waiters', waiters) /\ Only(c, buffer', buffer)
<1>1. CASE PutInBuffer(c, s)
  BY <1>1 DEF PutInBuffer, Only, TypeOK
<1>2. CASE PutToWaiter(c, s)
  BY <1>2 DEF PutToWaiter, Only, TypeOK
<1>3. CASE PutToNobody(c)
  BY <1>3 DEF PutToNobody, Undefined, chanVars, Only
<1>4. QED
  BY <1>1, <1>2, <1>3 DEF Put

LEMMA CancelLocally ==
  ASSUME TypeOK, NEW c \in Channels, NEW S, NEW left, CancelWaiters(c, S, left)
  PROVE  /\ Only(c, receiveState', receiveState) /\ Only(c, sendState', sendState)
         /\ Only(c, waiters', waiters)
BY DEF CancelWaiters, Only, TypeOK

\* An action on a channel leaves the others alone.
LEMMA ActsLocally ==
  ASSUME TypeOK, NEW c \in Channels, ActsOn(c)
  PROVE  Local(c) /\ resetting \subseteq resetting' \cup {c} /\ down' = down
<1>1. ASSUME NEW s \in Senders,
             TrySend(c, s) \/ SendBlocks(c, s) \/ SendRefused(c, s)
      PROVE  Local(c) /\ resetting' = resetting /\ down' = down
  <2>1. CASE TrySend(c, s)
    BY <2>1, PutLocally DEF TrySend, Local, Only
  <2>2. CASE SendBlocks(c, s)
    BY <2>2 DEF SendBlocks, Local, Only, TypeOK
  <2>3. CASE SendRefused(c, s)
    BY <2>3 DEF SendRefused, chanVars, Local, Only
  <2>4. QED
    BY <1>1, <2>1, <2>2, <2>3
<1>2. ASSUME NEW batch \in Batches, TrySendN(c, batch)
      PROVE  Local(c) /\ resetting' = resetting /\ down' = down
  BY <1>2 DEF TrySendN, chanVars, Local, Only, TypeOK
<1>3. ASSUME NextCopy(c) \/ RefuseCopies(c)
      PROVE  Local(c) /\ resetting' = resetting /\ down' = down
  <2>1. Only(c, copies', copies) /\ resetting' = resetting /\ down' = down
    BY <1>3 DEF NextCopy, RefuseCopies, Only, TypeOK
  <2>2. CASE NextCopy(c)
    BY <2>1, <2>2, PutLocally DEF NextCopy, Local
  <2>3. CASE RefuseCopies(c)
    BY <2>1, <2>3 DEF RefuseCopies, chanVars, Local, Only
  <2>4. QED
    BY <1>3, <2>2, <2>3, <2>1
<1>4. ASSUME NEW r \in Receivers,
             TryReceive(c, r) \/ ReceiveBlocks(c, r) \/ ReceiveRefused(c, r)
      PROVE  Local(c) /\ resetting' = resetting /\ down' = down
  <2>1. /\ Only(c, copies', copies) /\ resetting' = resetting /\ down' = down
    BY <1>4 DEF TryReceive, ReceiveBlocks, ReceiveRefused, Only
  <2>2. CASE TakeFromBuffer(c, r)
    BY <2>1, <2>2 DEF TakeFromBuffer, Local, Only, TypeOK
  <2>3. CASE TakeFromWaiter(c, r)
    BY <2>1, <2>3 DEF TakeFromWaiter, Local, Only, TypeOK
  <2>4. CASE TakeFromNobody(c)
    BY <2>1, <2>4 DEF TakeFromNobody, Undefined, chanVars, Local, Only
  <2>5. CASE ReceiveBlocks(c, r)
    BY <2>1, <2>5 DEF ReceiveBlocks, Local, Only, TypeOK
  <2>6. CASE ReceiveRefused(c, r)
    BY <2>1, <2>6 DEF ReceiveRefused, chanVars, Local, Only
  <2>7. QED
    BY <1>4, <2>2, <2>3, <2>4, <2>5, <2>6 DEF TryReceive
<1>5. ASSUME Cancel(c) \/ BeginReset(c) \/ \E o \in Ops : CancelByKey(c, o)
      PROVE  /\ Local(c) /\ resetting \subseteq resetting' \cup {c}
             /\ down' = down
  <2>1. /\ Only(c, receiveState', receiveState) /\ Only(c, sendState', sendState)
        /\ Only(c, waiters', waiters)
    BY <1>5, CancelLocally DEF Cancel, BeginReset, CancelByKey, CancelAll
  <2>2. /\ buffer' = buffer /\ copies' = copies /\ down' = down
        /\ resetting' = resetting \/ resetting' = resetting \cup {c}
    BY <1>5 DEF Cancel, BeginReset, CancelByKey
  <2>3. QED
    BY <2>1, <2>2 DEF Local, Only
<1>6. ASSUME Close(c)
      PROVE  Local(c) /\ resetting' = resetting /\ down' = down
  BY <1>6 DEF Close, Local, Only, TypeOK
<1>7. ASSUME EndReset(c)
      PROVE  /\ Local(c) /\ resetting \subseteq resetting' \cup {c}
             /\ down' = down
  BY <1>7 DEF EndReset, Local, Only, TypeOK
<1>8. QED
  BY <1>1, <1>2, <1>3, <1>4, <1>5, <1>6, <1>7 DEF ActsOn, Calls

\* An action on c of a service that is not shut down, outside of a reset().
LEMMA ActsSettled ==
  ASSUME Settled, Inv, StatesInv, NEW c \in Channels, ActsOn(c)
  PROVE  ~down /\ ~down' /\ Matched(c) /\ (Calls(c) => c \notin resetting)
<1>1. Calls(c) => CanLock(c) \/ NextCopy(c) \/ RefuseCopies(c)
  BY DEF Calls, TrySend, SendBlocks, SendRefused, TrySendN, TryReceive,
         ReceiveBlocks, ReceiveRefused, Cancel, Close, BeginReset, CancelByKey
<1>2. ~down /\ (Calls(c) => c \notin resetting)
  BY <1>1, Allowed DEF NextCopy, RefuseCopies, EndReset, StatesInv, Inv, ActsOn
<1>3. down' = down
  BY ActsLocally DEF Inv
<1>4. QED
  BY <1>2, <1>3 DEF StatesInv

LEMMA NextRoom ==
  MailboxLike /\ Inv /\ Unmoved /\ StatesInv /\ Room /\ [Next]_vars => Room'
<1> SUFFICES ASSUME MailboxLike, Inv, Unmoved, StatesInv, Room, [Next]_vars
             PROVE  Room'
  OBVIOUS
<1>1. Settled /\ TypeOK
  BY DEF MailboxLike, Inv
<1>2. CASE UNCHANGED vars
  BY <1>2 DEF vars, Room, RoomAt, Makes
<1>3. CASE Shutdown
  BY <1>3 DEF Shutdown, Room
<1>4. ASSUME NEW c \in Channels, ActsOn(c), capacity' = capacity
      PROVE  Room'
  <2>1. /\ ~down /\ ~down' /\ Matched(c) /\ (Calls(c) => c \notin resetting)
        /\ Local(c) /\ resetting \subseteq resetting' \cup {c} /\ RoomAt(c)
    BY <1>1, <1>4, ActsSettled, ActsLocally DEF Room
  <2>2. ASSUME NEW d \in Channels, d # c
        PROVE  RoomAt(d)'
    <3>1. sendState'[d] = sendState[d] /\ buffer'[d] = buffer[d]
          /\ (d \notin resetting' => d \notin resetting)
      BY <2>1, <2>2 DEF Local, Only
    <3>2. RoomAt(d)
      BY <2>1 DEF Room
    <3>3. QED
      BY <1>4, <3>1, <3>2 DEF RoomAt, Makes
  <2>3. /\ capacity[c] \in Nat /\ buffer[c] \in Seq(Senders)
        /\ Len(buffer[c]) \in Nat /\ capacity[c] \in DOMAIN Uses
        /\ capacity' = capacity /\ waiters[c] \in Seq(Ops)
        /\ sendState \in [Channels -> States]
        /\ buffer \in [Channels -> Seq(Senders)]
    BY <1>1, <1>4, ChannelAssumption DEF TypeOK
  <2>4. ASSUME NEW s \in Senders, Put(c, s), c \notin resetting
        PROVE  RoomAt(c)'
    <3>1. CASE PutInBuffer(c, s)
      <4>1. /\ sendState[c] = "buffer" /\ buffer'[c] = Append(buffer[c], s)
            /\ sendState'[c] = IF Len(buffer[c]) + 1 = capacity[c] THEN "block"
                                                                   ELSE "buffer"
        BY <2>3, <3>1 DEF PutInBuffer, Full
      <4>2. Len(buffer'[c]) = Len(buffer[c]) + 1
        BY <2>3, <4>1
      <4>3. Len(buffer[c]) < capacity[c]
        BY <2>1, <2>4, <4>1 DEF RoomAt
      <4>4. Len(buffer[c]) + 1 < capacity[c] \/ Len(buffer[c]) + 1 = capacity[c]
        BY <2>3, <4>3
      <4>5. QED
        BY <2>3, <4>1, <4>2, <4>4 DEF RoomAt
    <3>2. CASE PutToWaiter(c, s)
      <4>1. /\ buffer' = buffer /\ buffer[c] = <<>>
            /\ sendState'[c] \in {"waiter", Idle(c)}
        BY <2>1, <2>3, <3>2 DEF PutToWaiter, NextSendState, Matched
      <4>2. Len(buffer'[c]) = 0
        BY <4>1
      <4>3. QED
        BY <2>3, <4>1, <4>2 DEF RoomAt, Idle
    <3>3. CASE PutToNobody(c)
      BY <2>1, <3>3 DEF PutToNobody, Matched
    <3>4. QED
      BY <2>4, <3>1, <3>2, <3>3 DEF Put
  <2>5. ASSUME sendState'[c] = sendState[c], buffer'[c] = buffer[c],
               c \notin resetting
        PROVE  RoomAt(c)'
    BY <1>4, <2>1, <2>3, <2>5 DEF RoomAt, Makes
  <2>6. ASSUME NEW r \in Receivers, TakeFromBuffer(c, r), c \notin resetting
        PROVE  RoomAt(c)'
    <3>1. /\ buffer[c] # <<>> /\ buffer'[c] = AfterTake(c)
          /\ sendState[c] \in {"buffer", "block"}
      BY <2>1, <2>3, <2>6 DEF TakeFromBuffer, Matched
    <3>2. /\ Tail(buffer[c]) \in Seq(Senders) /\ Len(buffer[c]) # 0
          /\ Len(Tail(buffer[c])) = Len(buffer[c]) - 1
      BY <2>3, <3>1
    <3>3. CASE waiters[c] # <<>>
      <4>1. sendState' = sendState /\ Head(waiters[c]) \in Senders
        BY <2>6, <3>3 DEF TakeFromBuffer
      <4>2. Len(buffer'[c]) = Len(buffer[c])
        <5>1. buffer'[c] = Append(Tail(buffer[c]), Head(waiters[c]))
          BY <3>1, <3>3 DEF AfterTake
        <5>2. Len(buffer'[c]) = Len(Tail(buffer[c])) + 1
          BY <3>2, <4>1, <5>1
        <5>3. QED
          BY <2>3, <3>2, <5>2
      <4>3. QED
        BY <2>1, <2>3, <2>6, <3>1, <4>1, <4>2 DEF RoomAt
    <3>4. CASE waiters[c] = <<>>
      <4>1. sendState'[c] = "buffer" /\ buffer'[c] = Tail(buffer[c])
        BY <2>3, <2>6, <3>1, <3>4 DEF TakeFromBuffer, AfterTake
      <4>2. Len(buffer[c]) < capacity[c] \/ Len(buffer[c]) = capacity[c]
        BY <2>1, <2>6, <3>1 DEF RoomAt
      <4>3. Len(buffer[c]) - 1 < capacity[c]
        BY <2>3, <4>2
      <4>4. QED
        BY <2>3, <3>2, <4>1, <4>3 DEF RoomAt
    <3>5. QED
      BY <3>3, <3>4
  <2>7. ASSUME NEW S, NEW left, CancelWaiters(c, S, left), buffer' = buffer,
               Cancel(c) \/ BeginReset(c) \/ \E o \in Ops : CancelByKey(c, o)
        PROVE  RoomAt(c)'
    <3>1. /\ sendState'[c] = AfterCancel(c, left, sendState[c])
          /\ c \notin resetting
      BY <2>1, <2>3, <2>7 DEF CancelWaiters, Calls
    <3>2. CASE sendState'[c] = sendState[c]
      BY <2>5, <2>7, <3>1, <3>2
    <3>3. CASE sendState'[c] # sendState[c]
      <4>1. sendState[c] = "waiter" /\ sendState'[c] = "block"
        BY <3>1, <3>3 DEF AfterCancel
      <4>2. buffer[c] = <<>> /\ Len(buffer'[c]) = 0
        BY <2>1, <2>7, <4>1 DEF Matched
      <4>3. CASE BeginReset(c)
        BY <4>1, <4>3 DEF RoomAt, BeginReset
      <4>4. CASE ~BeginReset(c)
        <5>1. {"cancel", "cancel_by_key"} \cap Uses[capacity[c]] # {}
          BY <2>7, <4>4 DEF Cancel, CancelByKey, Makes
        <5>2. capacity[c] = 0
          BY <2>3, <5>1 DEF MailboxLike
        <5>3. QED
          BY <2>3, <4>1, <4>2, <5>2 DEF RoomAt
      <4>5. QED
        BY <4>3, <4>4
    <3>4. QED
      BY <3>2, <3>3
  <2>8. ASSUME Calls(c)
        PROVE  RoomAt(c)'
    <3>1. c \notin resetting
      BY <2>1, <2>8
    <3>2. ASSUME NEW s \in Senders,
                 TrySend(c, s) \/ SendBlocks(c, s) \/ SendRefused(c, s)
          PROVE  RoomAt(c)'
      BY <2>4, <2>5, <3>1, <3>2
      DEF TrySend, SendBlocks, SendRefused, chanVars
    <3>3. ASSUME NEW batch \in Batches, TrySendN(c, batch)
          PROVE  RoomAt(c)'
      BY <2>5, <3>1, <3>3 DEF TrySendN, chanVars
    <3>4. CASE NextCopy(c)
      <4>1. copies[c] # <<>> /\ copies \in [Channels -> Seq(Senders)]
            /\ Put(c, Head(copies[c]))
        BY <1>1, <3>4 DEF NextCopy, TypeOK
      <4>2. Head(copies[c]) \in Senders
        BY <4>1, HeadIn
      <4>3. QED
        BY <2>4, <3>1, <4>1, <4>2
    <3>5. CASE RefuseCopies(c)
      BY <2>5, <3>1, <3>5 DEF RefuseCopies, chanVars
    <3>6. ASSUME NEW r \in Receivers, TryReceive(c, r)
          PROVE  RoomAt(c)'
      <4>1. CASE TakeFromWaiter(c, r) \/ TakeFromNobody(c)
        BY <2>5, <3>1, <4>1 DEF TakeFromWaiter, TakeFromNobody, Undefined, chanVars
      <4>2. QED
        BY <2>6, <3>1, <3>6, <4>1 DEF TryReceive
    <3>7. ASSUME NEW r \in Receivers, ReceiveBlocks(c, r)
          PROVE  RoomAt(c)'
      <4>1. CASE sendState[c] = "closed"
        BY <2>3, <2>5, <3>1, <3>7, <4>1 DEF ReceiveBlocks
      <4>2. CASE sendState[c] # "closed"
        <5>1. sendState'[c] = "waiter"
          BY <2>3, <3>7, <4>2 DEF ReceiveBlocks
        <5>2. QED
          BY <5>1 DEF RoomAt
      <4>3. QED
        BY <4>1, <4>2
    <3>8. ASSUME NEW r \in Receivers, ReceiveRefused(c, r)
          PROVE  RoomAt(c)'
      BY <2>5, <3>1, <3>8 DEF ReceiveRefused, chanVars
    <3>9. CASE Cancel(c) \/ BeginReset(c)
      BY <2>7, <3>9 DEF Cancel, BeginReset, CancelAll
    <3>10. ASSUME NEW o \in Ops, CancelByKey(c, o)
           PROVE  RoomAt(c)'
      BY <2>7, <3>10 DEF CancelByKey
    <3>11. CASE Close(c)
      <4>1. sendState'[c] = "closed" /\ Makes(c, "close")
        BY <2>3, <3>11 DEF Close
      <4>2. QED
        BY <1>4, <4>1 DEF RoomAt, Makes
    <3>12. QED
      BY <2>8, <3>2, <3>3, <3>4, <3>5, <3>6, <3>7, <3>8, <3>9, <3>10, <3>11 DEF Calls
  <2>9. ASSUME EndReset(c)
        PROVE  RoomAt(c)'
    <3>1. buffer'[c] = <<>> /\ sendState'[c] = Idle(c)
      BY <2>3, <2>9 DEF EndReset
    <3>2. Len(buffer'[c]) = 0
      BY <3>1
    <3>3. QED
      BY <2>3, <3>1, <3>2 DEF RoomAt, Idle
  <2>10. QED
    BY <1>4, <2>2, <2>8, <2>9 DEF Room, ActsOn
<1>5. QED
  BY <1>1, <1>2, <1>3, <1>4, NextActs

LEMMA InitRoom == Init => Room
<1> SUFFICES ASSUME Init, NEW c \in Channels
             PROVE  RoomAt(c)
  BY DEF Room
<1>1. sendState[c] = Idle(c) /\ Len(buffer[c]) = 0 /\ capacity[c] \in Nat
  BY ChannelAssumption DEF Init
<1>2. QED
  BY <1>1 DEF RoomAt, Idle

----------------------------------------------------------------------------
(* A channel is a mailbox *)

LEMMA MinOfTwo ==
  ASSUME NEW x \in Int, NEW y \in Int
  PROVE  M!Min({x, y}) = IF x <= y THEN x ELSE y
<1> DEFINE z == IF x <= y THEN x ELSE y
<1>1. z \in {x, y} /\ \A w \in {x, y} : z <= w
  OBVIOUS
<1>2. \A v \in {x, y} : (\A w \in {x, y} : v <= w) => v = z
  OBVIOUS
<1>3. QED
  BY <1>1, <1>2 DEF M!Min

\* A message leaves b, and the first of w takes its place.
LEMMA RoomTaken ==
  ASSUME NEW S, NEW b \in Seq(S), NEW w \in Seq(S), b # <<>>, w # <<>>
  PROVE  /\ b \o w # <<>> /\ Head(b \o w) = Head(b)
         /\ SubSeq(Tail(b \o w), 1, M!Min({Len(Tail(b \o w)), Len(b)})) =
              Append(Tail(b), Head(w))
<1> DEFINE all == Tail(b \o w)
<1>1. /\ Len(b) \in Nat \ {0} /\ Len(w) \in Nat \ {0} /\ Head(w) \in S
      /\ Head(w) = w[1] /\ Head(b) = b[1]
  OBVIOUS
<1>2. /\ b \o w \in Seq(S) /\ Len(b \o w) = Len(b) + Len(w)
      /\ \A i \in 1 .. (Len(b) + Len(w)) :
           (b \o w)[i] = IF i <= Len(b) THEN b[i] ELSE w[i - Len(b)]
  BY ConcatProperties
<1>3. b \o w # <<>> /\ Head(b \o w) = Head(b)
  <2>1. Len(b \o w) # 0
    BY <1>1, <1>2
  <2>2. b \o w # <<>> /\ Head(b \o w) = (b \o w)[1]
    BY <1>2, <2>1
  <2>3. 1 \in 1 .. (Len(b) + Len(w)) /\ 1 <= Len(b)
    BY <1>1
  <2>4. QED
    BY <1>1, <1>2, <2>2, <2>3
<1>4. /\ all \in Seq(S) /\ Len(all) = Len(b) + Len(w) - 1
      /\ \A i \in 1 .. (Len(b) + Len(w) - 1) : all[i] = (b \o w)[i + 1]
  BY <1>2, <1>3, HeadTailProperties
<1>5. /\ Tail(b) \in Seq(S) /\ Len(Tail(b)) = Len(b) - 1
      /\ \A i \in 1 .. (Len(b) - 1) : Tail(b)[i] = b[i + 1]
  BY HeadTailProperties
<1> HIDE DEF all
<1>6. M!Min({Len(all), Len(b)}) = Len(b)
  <2>1. Len(all) \in Int /\ Len(b) \in Int /\ Len(b) <= Len(all)
    BY <1>1, <1>4
  <2>2. M!Min({Len(all), Len(b)}) = IF Len(all) <= Len(b) THEN Len(all) ELSE Len(b)
    BY <2>1, MinOfTwo
  <2>3. QED
    BY <2>1, <2>2
<1>7. /\ SubSeq(all, 1, Len(b)) \in Seq(S) /\ Len(SubSeq(all, 1, Len(b))) = Len(b)
      /\ \A i \in 1 .. Len(b) : SubSeq(all, 1, Len(b))[i] = all[i]
  <2>1. \A i \in 1 .. Len(b) : all[i] \in S
    <3>1. \A i \in 1 .. Len(b) : i \in 1 .. Len(all)
      BY <1>1, <1>4
    <3>2. QED
      BY <1>4, <3>1
  <2>2. 1 \in Int /\ Len(b) \in Int /\ 1 <= Len(b) /\ Len(b) - 1 + 1 = Len(b)
        /\ \A i \in 1 .. Len(b) : 1 + i - 1 = i
    BY <1>1
  <2>3. /\ SubSeq(all, 1, Len(b)) \in Seq(S)
        /\ Len(SubSeq(all, 1, Len(b))) =
             IF 1 <= Len(b) THEN Len(b) - 1 + 1 ELSE 0
        /\ \A i \in 1 .. (Len(b) - 1 + 1) :
             SubSeq(all, 1, Len(b))[i] = all[1 + i - 1]
    BY <2>1, <2>2, SubSeqProperties
  <2>4. QED
    BY <2>2, <2>3
<1>8. /\ Append(Tail(b), Head(w)) \in Seq(S)
      /\ Len(Append(Tail(b), Head(w))) = Len(b)
      /\ \A i \in 1 .. (Len(b) - 1) : Append(Tail(b), Head(w))[i] = b[i + 1]
      /\ Append(Tail(b), Head(w))[Len(b)] = w[1]
  <2>1. /\ Append(Tail(b), Head(w)) \in Seq(S)
        /\ Len(Append(Tail(b), Head(w))) = Len(Tail(b)) + 1
        /\ \A i \in 1 .. Len(Tail(b)) : Append(Tail(b), Head(w))[i] = Tail(b)[i]
        /\ Append(Tail(b), Head(w))[Len(Tail(b)) + 1] = Head(w)
    BY <1>1, <1>5, AppendProperties
  <2>2. Len(b) - 1 + 1 = Len(b)
    BY <1>1
  <2>3. QED
    BY <1>1, <1>5, <2>1, <2>2
<1>9. ASSUME NEW i \in 1 .. Len(b)
      PROVE  all[i] = Append(Tail(b), Head(w))[i]
  <2>1. i \in 1 .. (Len(b) + Len(w) - 1) /\ i + 1 \in 1 .. (Len(b) + Len(w))
    BY <1>1
  <2>2. all[i] = IF i + 1 <= Len(b) THEN b[i + 1] ELSE w[i + 1 - Len(b)]
    BY <1>2, <1>4, <2>1
  <2>3. CASE i < Len(b)
    <3>1. i \in 1 .. (Len(b) - 1) /\ i + 1 <= Len(b)
      BY <1>1, <2>3
    <3>2. QED
      BY <1>8, <2>2, <3>1
  <2>4. CASE ~(i < Len(b))
    <3>1. i = Len(b) /\ ~(i + 1 <= Len(b)) /\ i + 1 - Len(b) = 1
      BY <1>1, <2>4
    <3>2. QED
      BY <1>8, <2>2, <3>1
  <2>5. QED
    BY <2>3, <2>4
<1>10. SubSeq(all, 1, Len(b)) = Append(Tail(b), Head(w))
  <2> DEFINE s == SubSeq(all, 1, Len(b))
             t == Append(Tail(b), Head(w))
  <2>1. /\ s \in Seq(S) /\ t \in Seq(S) /\ Len(s) = Len(t)
        /\ \A i \in 1 .. Len(s) : s[i] = t[i]
    BY <1>7, <1>8, <1>9
  <2> HIDE DEF s, t
  <2>2. s = t
    BY <2>1, SeqEqual
  <2>3. QED
    BY <2>2 DEF s, t
<1>11. QED
  BY <1>3, <1>6, <1>10 DEF all

\* What is left when nothing takes the place, and when there is none.
LEMMA RoomKept ==
  ASSUME NEW S, NEW b \in Seq(S), b # <<>>, NEW n \in Nat, Len(b) <= n
  PROVE  SubSeq(Tail(b), 1, M!Min({Len(Tail(b)), n})) = Tail(b)
<1> DEFINE t == Tail(b)
<1>1. t \in Seq(S) /\ Len(t) = Len(b) - 1 /\ Len(b) \in Nat \ {0}
  BY HeadTailProperties
<1> HIDE DEF t
<1>2. Len(t) \in Int /\ n \in Int /\ Len(t) <= n
  BY <1>1
<1>3. M!Min({Len(t), n}) = IF Len(t) <= n THEN Len(t) ELSE n
  BY <1>2, MinOfTwo
<1>4. SubSeq(t, 1, Len(t)) = t
  BY <1>1
<1>5. QED
  BY <1>2, <1>3, <1>4 DEF t

LEMMA NoRoom ==
  ASSUME NEW S, NEW s \in Seq(S)
  PROVE  SubSeq(s, 1, M!Min({Len(s), 0})) = <<>>
<1>1. M!Min({Len(s), 0}) = 0
  <2>1. Len(s) \in Int /\ 0 \in Int /\ 0 <= Len(s)
    OBVIOUS
  <2>2. M!Min({Len(s), 0}) = IF Len(s) <= 0 THEN Len(s) ELSE 0
    BY <2>1, MinOfTwo
  <2>3. QED
    BY <2>1, <2>2
<1>2. SubSeq(s, 1, 0) = <<>>
  OBVIOUS
<1>3. QED
  BY <1>1, <1>2

AbstractStep == [M!Next]_(M!vars)

\* The mailbox that a channel shows.
View ==
  \A c \in Channels :
    /\ c \in Open <=> sendState[c] # "closed"
    /\ Stored[c] = IF sendState[c] = "closed" THEN <<>> ELSE buffer[c]
    /\ OfKind(Senders)[c] = IF sendState[c] = "waiter" THEN <<>> ELSE waiters[c]
    /\ OfKind(Receivers)[c] = IF sendState[c] = "waiter" THEN waiters[c] ELSE <<>>

LEMMA InvView == Inv /\ StatesInv /\ ~down => View
<1> SUFFICES ASSUME Inv, StatesInv, ~down, NEW c \in Channels
             PROVE  /\ c \in Open <=> sendState[c] # "closed"
                    /\ Stored[c] = IF sendState[c] = "closed" THEN <<>> ELSE buffer[c]
                    /\ OfKind(Senders)[c] =
                         IF sendState[c] = "waiter" THEN <<>> ELSE waiters[c]
                    /\ OfKind(Receivers)[c] =
                         IF sendState[c] = "waiter" THEN waiters[c] ELSE <<>>
  BY DEF View
<1>1. Matched(c) /\ waiters \in [Channels -> Seq(Ops)]
  BY DEF StatesInv, Inv, TypeOK
<1>2. \A o : o \in Waiting(c) <=> In(waiters, c, o)
  BY <1>1, ToSetIn DEF Waiting
<1>3. \A o \in Waiting(c) :
        o \in IF sendState[c] = "waiter" THEN Receivers ELSE Senders
  <2>1. \A o : In(waiters, c, o) => o \in Ops
    BY <1>1 DEF In
  <2>2. QED
    BY <1>1, <1>2, <2>1 DEF Matched
<1>4. waiters[c] # <<>> => \E o : o \in Waiting(c)
  BY <1>1, <1>2, HeadIn
<1>5. /\ c \in Open <=> sendState[c] # "closed"
      /\ Stored[c] = IF sendState[c] = "closed" THEN <<>> ELSE buffer[c]
  BY DEF Open, Stored, IsOpen
<1>6. \A S : OfKind(S)[c] = IF Waiting(c) \subseteq S THEN waiters[c] ELSE <<>>
  BY DEF OfKind
<1>7. CASE sendState[c] = "waiter"
  <2>1. Waiting(c) \subseteq Receivers
    BY <1>3, <1>7
  <2>2. waiters[c] # <<>> => ~(Waiting(c) \subseteq Senders)
    BY <1>4, <2>1, Kinds
  <2>3. QED
    BY <1>5, <1>6, <1>7, <2>1, <2>2
<1>8. CASE sendState[c] # "waiter"
  <2>1. Waiting(c) \subseteq Senders
    BY <1>3, <1>8
  <2>2. waiters[c] # <<>> => ~(Waiting(c) \subseteq Receivers)
    BY <1>4, <2>1, Kinds
  <2>3. QED
    BY <1>5, <1>6, <1>8, <2>1, <2>2
<1>9. QED
  BY <1>7, <1>8

LEMMA InvViewNext == (Inv /\ StatesInv /\ ~down => View)'
BY InvView, PTL

\* A step that changes only c changes only c in the view.
ViewOnly(c) ==
  /\ Open' = IF sendState'[c] = "closed" THEN Open \ {c} ELSE Open \cup {c}
  /\ Stored' = [Stored EXCEPT ![c] = Stored'[c]]
  /\ OfKind(Senders)' = [OfKind(Senders) EXCEPT ![c] = OfKind(Senders)'[c]]
  /\ OfKind(Receivers)' = [OfKind(Receivers) EXCEPT ![c] = OfKind(Receivers)'[c]]

LEMMA Altered ==
  ASSUME NEW f, f = [d \in Channels |-> f[d]], NEW g, g = [d \in Channels |-> g[d]],
         NEW c \in Channels, Only(c, g, f)
  PROVE  g = [f EXCEPT ![c] = g[c]]
BY DEF Only

LEMMA LocalView ==
  ASSUME View, View', NEW c \in Channels, Local(c)
  PROVE  ViewOnly(c)
<1>1. \A d \in Channels : d # c =>
        /\ sendState'[d] = sendState[d]
        /\ waiters'[d] = waiters[d] /\ buffer'[d] = buffer[d]
  BY DEF Local, Only
<1>2. Open' = IF sendState'[c] = "closed" THEN Open \ {c} ELSE Open \cup {c}
  <2>1. Open \subseteq Channels /\ Open' \subseteq Channels
    BY DEF Open
  <2>2. \A d \in Channels : d # c => (d \in Open' <=> d \in Open)
    BY <1>1 DEF View
  <2>3. c \in Open' <=> sendState'[c] # "closed"
    BY DEF View
  <2>4. QED
    BY <2>1, <2>2, <2>3
<1>3. Stored' = [Stored EXCEPT ![c] = Stored'[c]]
  <2>1. Only(c, Stored', Stored)
    BY <1>1 DEF View, Only
  <2>2. /\ Stored = [d \in Channels |-> Stored[d]]
        /\ Stored' = [d \in Channels |-> Stored'[d]]
    BY DEF Stored
  <2>3. QED
    BY <2>1, <2>2, Altered
<1>4. OfKind(Senders)' = [OfKind(Senders) EXCEPT ![c] = OfKind(Senders)'[c]]
  <2>1. Only(c, OfKind(Senders)', OfKind(Senders))
    BY <1>1 DEF View, Only
  <2>2. /\ OfKind(Senders) = [d \in Channels |-> OfKind(Senders)[d]]
        /\ OfKind(Senders)' = [d \in Channels |-> OfKind(Senders)'[d]]
    BY DEF OfKind
  <2>3. QED
    BY <2>1, <2>2, Altered
<1>5. OfKind(Receivers)' = [OfKind(Receivers) EXCEPT ![c] = OfKind(Receivers)'[c]]
  <2>1. Only(c, OfKind(Receivers)', OfKind(Receivers))
    BY <1>1 DEF View, Only
  <2>2. /\ OfKind(Receivers) = [d \in Channels |-> OfKind(Receivers)[d]]
        /\ OfKind(Receivers)' = [d \in Channels |-> OfKind(Receivers)'[d]]
    BY DEF OfKind
  <2>3. QED
    BY <2>1, <2>2, Altered
<1>6. QED
  BY <1>2, <1>3, <1>4, <1>5 DEF ViewOnly

\* What does not change at c does not change.
LEMMA SameView ==
  ASSUME NEW c \in Channels, ViewOnly(c), View
  PROVE  /\ (sendState'[c] = "closed" <=> sendState[c] = "closed") => Open' = Open
         /\ Stored'[c] = Stored[c] => Stored' = Stored
         /\ OfKind(Senders)'[c] = OfKind(Senders)[c] =>
              OfKind(Senders)' = OfKind(Senders)
         /\ OfKind(Receivers)'[c] = OfKind(Receivers)[c] =>
              OfKind(Receivers)' = OfKind(Receivers)
<1>1. (sendState'[c] = "closed" <=> sendState[c] = "closed") => Open' = Open
  <2>1. c \in Open <=> sendState[c] # "closed"
    BY DEF View
  <2>2. QED
    BY <2>1 DEF ViewOnly
<1>2. ASSUME Stored'[c] = Stored[c]
      PROVE  Stored' = Stored
  BY <1>2 DEF ViewOnly, Stored
<1>3. \A S : OfKind(S) = [d \in Channels |-> OfKind(S)[d]]
  BY DEF OfKind
<1>4. ASSUME OfKind(Senders)'[c] = OfKind(Senders)[c]
      PROVE  OfKind(Senders)' = OfKind(Senders)
  BY <1>3, <1>4 DEF ViewOnly
<1>5. ASSUME OfKind(Receivers)'[c] = OfKind(Receivers)[c]
      PROVE  OfKind(Receivers)' = OfKind(Receivers)
  BY <1>3, <1>5 DEF ViewOnly
<1>6. QED
  BY <1>1, <1>2, <1>4, <1>5

LEMMA EndedSeen ==
  ASSUME NEW S, NEW h, h # "copying", result' = Ended(S, h)
  PROVE  ResultSeen' = M!Ended(S, h)
<1>1. DOMAIN ResultSeen = Ops
  BY DEF ResultSeen
<1>2. \A o \in Ops : result'[o] = IF o \in S THEN h ELSE result[o]
  BY DEF Ended
<1>3. \A o \in Ops : ResultSeen'[o] = IF o \in S THEN h ELSE ResultSeen[o]
  BY <1>2 DEF ResultSeen
<1>4. ResultSeen' = [o \in Ops |-> ResultSeen'[o]]
  BY DEF ResultSeen
<1>5. QED
  BY <1>1, <1>3, <1>4 DEF M!Ended

LEMMA PutStep ==
  ASSUME Inv, View, View', NEW c \in Channels, ViewOnly(c), Matched(c), RoomAt(c),
         c \notin resetting, NEW s \in Senders, Put(c, s),
         result[s] \in {"new", "copying"}
  PROVE  M!Store(c, s) \/ M!HandOver(c, s)
<1>1. /\ receiveState \in [Channels -> States] /\ sendState \in [Channels -> States]
      /\ buffer \in [Channels -> Seq(Senders)]
      /\ waiters \in [Channels -> Seq(Ops)]
      /\ got \in [Receivers -> Senders \cup {NoMessage}] /\ s \in Ops
  BY Kinds DEF Inv, TypeOK
<1>2. ResultSeen[s] = "new"
  BY <1>1 DEF ResultSeen
<1>3. CASE PutInBuffer(c, s)
  <2>1. /\ sendState[c] = "buffer" /\ buffer'[c] = Append(buffer[c], s)
        /\ sendState'[c] \in {"block", "buffer"}
        /\ result' = Ended({s}, "ok") /\ waiters' = waiters /\ got' = got
    BY <1>1, <1>3 DEF PutInBuffer
  <2>2. /\ c \in Open /\ OfKind(Receivers)[c] = <<>> /\ Stored[c] = buffer[c]
        /\ Stored'[c] = buffer'[c] /\ OfKind(Receivers)'[c] = <<>>
        /\ OfKind(Senders)'[c] = OfKind(Senders)[c]
    BY <2>1 DEF View
  <2>3. Len(Stored[c]) < capacity[c]
    BY <2>1, <2>2 DEF RoomAt
  <2>4. /\ Open' = Open /\ OfKind(Senders)' = OfKind(Senders)
        /\ OfKind(Receivers)' = OfKind(Receivers)
    BY <2>1, <2>2, SameView
  <2>5. ResultSeen' = M!Ended({s}, "ok")
    BY <2>1, EndedSeen
  <2>6. Stored' = [Stored EXCEPT ![c] = Append(Stored[c], s)]
    BY <2>1, <2>2 DEF ViewOnly
  <2>7. M!Store(c, s)
    BY <1>2, <2>1, <2>2, <2>3, <2>4, <2>5, <2>6 DEF M!Store
  <2>8. QED
    BY <2>7
<1>4. CASE PutToWaiter(c, s)
  <2> DEFINE r == Head(waiters[c])
  <2>1. /\ sendState[c] = "waiter" /\ waiters[c] # <<>>
        /\ waiters' = [waiters EXCEPT ![c] = Tail(waiters[c])]
        /\ waiters'[c] = Tail(waiters[c])
        /\ sendState'[c] = NextSendState(c)
        /\ result' = Ended({r, s}, "ok") /\ buffer' = buffer /\ got' = GotBy(r, s)
    BY <1>1, <1>4 DEF PutToWaiter
  <2>2. waiters'[c] = <<>> <=> Len(waiters[c]) = 1
    BY <2>1, TailLeft
  <2>3. /\ sendState'[c] \in {"waiter", "block", "buffer"}
        /\ sendState'[c] = "waiter" <=> waiters'[c] # <<>>
    BY <2>1, <2>2 DEF NextSendState, Idle
  <2>4. r \in Receivers
    <3>1. In(waiters, c, r) /\ r \in Ops
      BY <1>1, <2>1, HeadIn
    <3>2. QED
      BY <2>1, <3>1 DEF Matched
  <2>5. /\ c \in Open /\ OfKind(Receivers)[c] = waiters[c]
        /\ OfKind(Senders)[c] = <<>> /\ Stored'[c] = Stored[c]
        /\ OfKind(Receivers)'[c] = waiters'[c] /\ OfKind(Senders)'[c] = <<>>
    BY <2>1, <2>3 DEF View
  <2>6. Open' = Open /\ OfKind(Senders)' = OfKind(Senders) /\ Stored' = Stored
    BY <2>1, <2>3, <2>5, SameView
  <2>7. ResultSeen' = M!Ended({r, s}, "ok")
    BY <2>1, EndedSeen
  <2>8. got' = [got EXCEPT ![r] = s]
    BY <1>1, <2>1, <2>4 DEF GotBy
  <2>9. OfKind(Receivers)' =
          [OfKind(Receivers) EXCEPT ![c] = Tail(OfKind(Receivers)[c])]
    BY <2>1, <2>5 DEF ViewOnly
  <2>10. r = Head(OfKind(Receivers)[c]) /\ OfKind(Receivers)[c] # <<>>
    BY <2>1, <2>5
  <2> HIDE DEF r
  <2>11. M!HandOver(c, s)
    BY <1>2, <2>5, <2>6, <2>7, <2>8, <2>9, <2>10 DEF M!HandOver
  <2>12. QED
    BY <2>11
<1>5. CASE PutToNobody(c)
  BY <1>5 DEF PutToNobody, Matched
<1>6. QED
  BY <1>3, <1>4, <1>5 DEF Put

LEMMA SendBlocksStep ==
  ASSUME Inv, View, View', NEW c \in Channels, ViewOnly(c), RoomAt(c),
         c \notin resetting, NEW s \in Senders, SendBlocks(c, s)
  PROVE  M!SendWaits(c, s)
<1>1. /\ waiters \in [Channels -> Seq(Ops)] /\ s \in Ops
      /\ sendState[c] = "block" /\ sendState' = sendState /\ buffer' = buffer
      /\ waiters'[c] = Append(waiters[c], s) /\ got' = got
      /\ result[s] = "new" /\ result' = Ended({s}, "waiting")
  BY Kinds DEF SendBlocks, New, Inv, TypeOK
<1>2. ResultSeen[s] = "new"
  BY <1>1 DEF ResultSeen
<1>3. /\ c \in Open /\ OfKind(Receivers)[c] = <<>> /\ Stored[c] = buffer[c]
      /\ OfKind(Senders)[c] = waiters[c] /\ OfKind(Receivers)'[c] = <<>>
      /\ OfKind(Senders)'[c] = waiters'[c] /\ Stored'[c] = Stored[c]
  BY <1>1 DEF View
<1>4. Len(Stored[c]) = capacity[c]
  BY <1>1, <1>3 DEF RoomAt
<1>5. /\ Open' = Open /\ Stored' = Stored
      /\ OfKind(Receivers)' = OfKind(Receivers)
  BY <1>1, <1>3, SameView
<1>6. OfKind(Senders)' = [OfKind(Senders) EXCEPT ![c] = Append(OfKind(Senders)[c], s)]
  BY <1>1, <1>3 DEF ViewOnly
<1>7. ResultSeen' = M!Ended({s}, "waiting")
  BY <1>1, EndedSeen
<1>8. QED
  BY <1>1, <1>2, <1>3, <1>4, <1>5, <1>6, <1>7 DEF M!SendWaits

\* SendRefused and ReceiveRefused.
LEMMA RefusedStep ==
  ASSUME Inv, View, NEW c \in Channels, sendState[c] = "closed",
         NEW o \in Ops, result[o] = "new", result' = Ended({o}, "closed"),
         UNCHANGED <<chanVars, got>>
  PROVE  M!Refuse(c, o)
<1>1. ResultSeen[o] = "new" /\ c \notin Open
  BY DEF ResultSeen, View
<1>2. ResultSeen' = M!Ended({o}, "closed")
  BY EndedSeen
<1>3. /\ Open' = Open /\ Stored' = Stored
      /\ OfKind(Senders)' = OfKind(Senders)
      /\ OfKind(Receivers)' = OfKind(Receivers)
  BY DEF chanVars, Open, IsOpen, Stored, OfKind, Waiting
<1>4. QED
  BY <1>1, <1>2, <1>3 DEF M!Refuse

LEMMA ReceiveBlocksStep ==
  ASSUME Inv, View, View', NEW c \in Channels, ViewOnly(c), Matched(c),
         NEW r \in Receivers, ReceiveBlocks(c, r)
  PROVE  M!ReceiveWaits(c, r)
<1>1. /\ waiters \in [Channels -> Seq(Ops)] /\ r \in Ops
      /\ sendState \in [Channels -> States]
      /\ receiveState[c] = "block" /\ sendState[c] # "closed"
      /\ sendState'[c] = "waiter" /\ buffer' = buffer
      /\ waiters'[c] = Append(waiters[c], r) /\ got' = got
      /\ result[r] = "new" /\ result' = Ended({r}, "waiting")
  BY Kinds DEF ReceiveBlocks, New, Inv, TypeOK, Matched
<1>2. ResultSeen[r] = "new"
  BY <1>1 DEF ResultSeen
<1>3. buffer[c] = <<>> /\ (sendState[c] # "waiter" => waiters[c] = <<>>)
  BY <1>1 DEF Matched
<1>4. /\ c \in Open /\ OfKind(Receivers)[c] = waiters[c]
      /\ OfKind(Senders)[c] = <<>> /\ Stored[c] = <<>>
      /\ OfKind(Receivers)'[c] = waiters'[c] /\ OfKind(Senders)'[c] = <<>>
      /\ Stored'[c] = Stored[c]
  BY <1>1, <1>3 DEF View
<1>5. Open' = Open /\ Stored' = Stored /\ OfKind(Senders)' = OfKind(Senders)
  BY <1>1, <1>4, SameView
<1>6. OfKind(Receivers)' =
        [OfKind(Receivers) EXCEPT ![c] = Append(OfKind(Receivers)[c], r)]
  BY <1>1, <1>4 DEF ViewOnly
<1>7. ResultSeen' = M!Ended({r}, "waiting")
  BY <1>1, EndedSeen
<1>8. QED
  BY <1>1, <1>2, <1>4, <1>5, <1>6, <1>7 DEF M!ReceiveWaits

\* What can be received of c, oldest first.
Offered(c) == Stored[c] \o OfKind(Senders)[c]

\* It is enough to know the states, the message and what is left.
Taken(c, r, m) ==
  /\ sendState'[c] \in {"block", "buffer"}
  /\ Offered(c) # <<>> /\ m = Head(Offered(c)) /\ got' = [got EXCEPT ![r] = m]
  /\ buffer'[c] = SubSeq(Tail(Offered(c)), 1,
                         M!Min({Len(Tail(Offered(c))), capacity[c]}))
  /\ waiters'[c] = IF waiters[c] = <<>> THEN waiters[c] ELSE Tail(waiters[c])
  /\ result' = Ended({r} \cup (IF waiters[c] = <<>> THEN {}
                                                    ELSE {Head(waiters[c])}), "ok")

LEMMA TakenStep ==
  ASSUME Inv, View, View', NEW c \in Channels, ViewOnly(c),
         NEW r \in Receivers, New(r), sendState[c] \in {"block", "buffer"},
         NEW m, Taken(c, r, m)
  PROVE  M!Receive(c, r)
<1>1. ResultSeen[r] = "new"
  BY Kinds DEF ResultSeen, New
<1>2. /\ c \in Open /\ OfKind(Senders)[c] = waiters[c]
      /\ Stored'[c] = buffer'[c] /\ OfKind(Senders)'[c] = waiters'[c]
      /\ OfKind(Receivers)[c] = <<>> /\ OfKind(Receivers)'[c] = <<>>
  BY DEF View, Taken
<1>3. Open' = Open /\ OfKind(Receivers)' = OfKind(Receivers)
  BY <1>2, SameView DEF Taken
<1>4. ResultSeen' = M!Ended({r} \cup (IF OfKind(Senders)[c] = <<>> THEN {}
                                      ELSE {Head(OfKind(Senders)[c])}), "ok")
  BY <1>2, EndedSeen DEF Taken
<1>5. Stored' = [Stored EXCEPT ![c] =
                   SubSeq(Tail(Offered(c)), 1,
                          M!Min({Len(Tail(Offered(c))), capacity[c]}))]
  BY <1>2 DEF ViewOnly, Taken
<1>6. OfKind(Senders)' =
        [OfKind(Senders) EXCEPT ![c] =
           IF OfKind(Senders)[c] = <<>> THEN OfKind(Senders)[c]
                                        ELSE Tail(OfKind(Senders)[c])]
  BY <1>2 DEF ViewOnly, Taken
<1>7. /\ Offered(c) # <<>> /\ got' = [got EXCEPT ![r] = Head(Offered(c))]
  BY DEF Taken
<1>8. QED
  BY <1>1, <1>2, <1>3, <1>4, <1>5, <1>6, <1>7 DEF M!Receive, Offered

LEMMA TakeStep ==
  ASSUME Inv, View, View', NEW c \in Channels, ViewOnly(c), Matched(c), RoomAt(c),
         c \notin resetting, ~undefined, NEW r \in Receivers, New(r),
         TakeFromBuffer(c, r) \/ TakeFromWaiter(c, r)
  PROVE  M!Receive(c, r)
<1>1. /\ receiveState \in [Channels -> States] /\ sendState \in [Channels -> States]
      /\ buffer \in [Channels -> Seq(Senders)]
      /\ waiters \in [Channels -> Seq(Ops)] /\ r \in Ops /\ capacity[c] \in Nat
      /\ Seq(Senders) \subseteq Seq(Ops)
  BY Kinds, ChannelAssumption, SeqMonotonic DEF Inv, TypeOK
<1>2. ResultSeen[r] = "new"
  BY <1>1 DEF ResultSeen, New
<1>3. /\ sendState[c] \in {"block", "buffer"}
      /\ c \in Open /\ Stored[c] = buffer[c]
      /\ OfKind(Senders)[c] = waiters[c] /\ OfKind(Receivers)[c] = <<>>
  <2>1. sendState[c] \in {"block", "buffer"}
    BY DEF TakeFromBuffer, TakeFromWaiter, Matched
  <2>2. QED
    BY <2>1 DEF View
<1>5. Offered(c) = buffer[c] \o waiters[c]
  BY <1>3 DEF Offered
<1>6. CASE TakeFromBuffer(c, r) /\ waiters[c] # <<>>
  <2>1. /\ buffer[c] # <<>> /\ got' = [got EXCEPT ![r] = Head(buffer[c])]
        /\ buffer'[c] = Append(Tail(buffer[c]), Head(waiters[c]))
        /\ waiters'[c] = Tail(waiters[c]) /\ sendState' = sendState
        /\ result' = Ended({r, Head(waiters[c])}, "ok")
    BY <1>1, <1>6 DEF TakeFromBuffer, AfterTake
  <2>2. sendState[c] = "block" /\ Len(buffer[c]) = capacity[c]
    BY <1>3, <1>6 DEF Matched, RoomAt
  <2>3. /\ Offered(c) # <<>> /\ Head(Offered(c)) = Head(buffer[c])
        /\ SubSeq(Tail(Offered(c)), 1, M!Min({Len(Tail(Offered(c))), capacity[c]})) =
             Append(Tail(buffer[c]), Head(waiters[c]))
    <3>1. buffer[c] \in Seq(Ops) /\ waiters[c] \in Seq(Ops)
      BY <1>1
    <3>2. QED
      BY <1>5, <1>6, <2>1, <2>2, <3>1, RoomTaken
  <2>4. {r, Head(waiters[c])} =
          {r} \cup (IF waiters[c] = <<>> THEN {} ELSE {Head(waiters[c])})
    BY <1>6
  <2>5. sendState'[c] \in {"block", "buffer"}
    BY <1>3, <2>1
  <2>6. Taken(c, r, Head(buffer[c]))
    BY <1>6, <2>1, <2>3, <2>4, <2>5 DEF Taken
  <2>7. QED
    BY <1>3, <2>6, TakenStep
<1>7. CASE TakeFromBuffer(c, r) /\ waiters[c] = <<>>
  <2>1. /\ buffer[c] # <<>> /\ got' = [got EXCEPT ![r] = Head(buffer[c])]
        /\ buffer'[c] = Tail(buffer[c]) /\ waiters' = waiters
        /\ sendState'[c] = "buffer" /\ result' = Ended({r}, "ok")
    BY <1>1, <1>3, <1>7 DEF TakeFromBuffer, AfterTake
  <2>2. Len(buffer[c]) <= capacity[c]
    <3>1. Len(buffer[c]) = capacity[c] \/ Len(buffer[c]) < capacity[c]
      BY <1>3 DEF RoomAt
    <3>2. Len(buffer[c]) \in Nat
      BY <1>1
    <3>3. QED
      BY <1>1, <3>1, <3>2
  <2>3. /\ Offered(c) = buffer[c]
        /\ SubSeq(Tail(Offered(c)), 1, M!Min({Len(Tail(Offered(c))), capacity[c]})) =
             Tail(buffer[c])
    <3>1. buffer[c] \in Seq(Senders)
      BY <1>1
    <3>2. Offered(c) = buffer[c]
      BY <1>5, <1>7, <3>1, ConcatEmptySeq
    <3>3. QED
      BY <1>1, <2>1, <2>2, <3>1, <3>2, RoomKept
  <2>4. {r} = {r} \cup (IF waiters[c] = <<>> THEN {} ELSE {Head(waiters[c])})
    BY <1>7
  <2>5. Taken(c, r, Head(buffer[c]))
    BY <1>7, <2>1, <2>3, <2>4 DEF Taken
  <2>6. QED
    BY <1>3, <2>5, TakenStep
<1>8. CASE TakeFromWaiter(c, r)
  <2>1. /\ waiters[c] # <<>> /\ got' = [got EXCEPT ![r] = Head(waiters[c])]
        /\ waiters'[c] = Tail(waiters[c]) /\ sendState' = sendState
        /\ buffer' = buffer /\ result' = Ended({r, Head(waiters[c])}, "ok")
        /\ receiveState[c] = "waiter"
    BY <1>1, <1>8 DEF TakeFromWaiter
  <2>2. buffer[c] = <<>> /\ sendState[c] = "block"
    BY <2>1 DEF Matched
  <2>3. capacity[c] = 0
    BY <2>2 DEF RoomAt
  <2>4. /\ Offered(c) = waiters[c]
        /\ SubSeq(Tail(Offered(c)), 1, M!Min({Len(Tail(Offered(c))), capacity[c]})) = <<>>
    <3>1. waiters[c] \in Seq(Ops) /\ Tail(waiters[c]) \in Seq(Ops)
      BY <1>1, <2>1
    <3>2. Offered(c) = waiters[c]
      BY <1>5, <2>2, <3>1, ConcatEmptySeq
    <3>3. QED
      BY <2>3, <3>1, <3>2, NoRoom
  <2>5. {r, Head(waiters[c])} =
          {r} \cup (IF waiters[c] = <<>> THEN {} ELSE {Head(waiters[c])})
    BY <2>1
  <2>6. sendState'[c] \in {"block", "buffer"}
    BY <1>3, <2>1
  <2>7. Taken(c, r, Head(waiters[c]))
    BY <2>1, <2>2, <2>4, <2>5, <2>6 DEF Taken
  <2>8. QED
    BY <1>3, <2>7, TakenStep
<1>9. QED
  BY <1>6, <1>7, <1>8

LEMMA SameSets == (\A s : M!ToSet(s) = ToSet(s)) /\ ToSet(<<>>) = {}
BY DEF M!ToSet, ToSet

LEMMA CancelAllStep ==
  ASSUME Inv, View, View', NEW c \in Channels, ViewOnly(c), Matched(c),
         CancelAll(c), sendState[c] # "closed", UNCHANGED <<buffer, got>>
  PROVE  M!CancelAll(c)
<1>1. /\ waiters \in [Channels -> Seq(Ops)]
      /\ sendState \in [Channels -> States]
  BY DEF Inv, TypeOK
<1>2. /\ waiters'[c] = <<>> /\ sendState'[c] = AfterCancel(c, <<>>, sendState[c])
      /\ result' = [o \in Ops |-> IF o \in ToSet(waiters[c]) THEN CancelResult(c, o)
                                                             ELSE result[o]]
  BY <1>1 DEF CancelAll, CancelWaiters
<1>3. sendState'[c] # "closed"
  BY <1>2 DEF AfterCancel
<1>4. /\ OfKind(Senders)'[c] = <<>> /\ OfKind(Receivers)'[c] = <<>>
      /\ Stored'[c] = Stored[c]
  BY <1>2, <1>3 DEF View
<1>5. Open' = Open /\ Stored' = Stored
  BY <1>3, <1>4, SameView
<1>6. /\ OfKind(Senders)' = [OfKind(Senders) EXCEPT ![c] = <<>>]
      /\ OfKind(Receivers)' = [OfKind(Receivers) EXCEPT ![c] = <<>>]
  BY <1>4 DEF ViewOnly
<1>7. ToSet(waiters[c]) =
        M!ToSet(OfKind(Senders)[c]) \cup M!ToSet(OfKind(Receivers)[c])
  BY SameSets DEF View
<1>8. \A o \in ToSet(waiters[c]) : o \in Ops => CancelResult(c, o) = "cancelled"
  <2>1. \A o \in ToSet(waiters[c]) : In(waiters, c, o)
    BY <1>1, ToSetIn
  <2>2. \A o : In(waiters, c, o) => waiters[c] # <<>>
    BY DEF In
  <2>3. QED
    BY <2>1, <2>2, Kinds DEF CancelResult, Matched
<1>9. result' = Ended(ToSet(waiters[c]), "cancelled")
  BY <1>2, <1>8 DEF Ended
<1>10. ResultSeen' = M!Ended(ToSet(waiters[c]), "cancelled")
  BY <1>9, EndedSeen
<1>11. QED
  BY <1>5, <1>6, <1>7, <1>10 DEF M!CancelAll

\* One waiting operation is told.
LEMMA CancelByKeyStep ==
  ASSUME Inv, View, View', NEW c \in Channels, ViewOnly(c), Matched(c),
         NEW o \in Ops, CancelByKey(c, o), sendState[c] # "closed"
  PROVE  \/ \E i \in DOMAIN OfKind(Senders)[c] : M!CancelSend(c, i)
         \/ \E i \in DOMAIN OfKind(Receivers)[c] : M!CancelReceive(c, i)
<1>1. /\ waiters \in [Channels -> Seq(Ops)] /\ UNCHANGED <<buffer, got>>
      /\ sendState \in [Channels -> States]
  BY DEF Inv, TypeOK, CancelByKey
<1>2. PICK i \in DOMAIN waiters[c] :
        /\ waiters[c][i] = o
        /\ CancelWaiters(c, {o}, RemoveAt(waiters[c], i))
  BY DEF CancelByKey
<1>3. PICK left : left = RemoveAt(waiters[c], i)
  OBVIOUS
<1>4. /\ waiters'[c] = left /\ sendState'[c] = AfterCancel(c, left, sendState[c])
      /\ result' = [p \in Ops |-> IF p \in {o} THEN CancelResult(c, p)
                                               ELSE result[p]]
  BY <1>1, <1>2, <1>3 DEF CancelWaiters
<1>5. In(waiters, c, o) /\ waiters[c] # <<>>
  <2>1. i \in 1 .. Len(waiters[c])
    BY <1>1, <1>2
  <2>2. In(waiters, c, o)
    BY <1>2, <2>1 DEF In
  <2>3. QED
    BY <2>2 DEF In
<1>6. sendState[c] \in {"waiter", "block"}
  BY <1>5 DEF Matched
<1>7. /\ sendState'[c] # "closed"
      /\ sendState[c] = "block" => sendState'[c] = "block"
      /\ sendState'[c] = "waiter" => sendState[c] = "waiter"
      /\ sendState[c] = "waiter" /\ left # <<>> => sendState'[c] = "waiter"
  BY <1>4, <1>6 DEF AfterCancel
<1>8. Open' = Open /\ Stored' = Stored
  <2>1. Stored'[c] = Stored[c]
    BY <1>1, <1>7 DEF View
  <2>2. QED
    BY <1>7, <2>1, SameView
<1>9. CancelResult(c, o) = "cancelled"
  BY <1>5, <1>6, Kinds DEF CancelResult, Matched
<1>10. result' = Ended({o}, "cancelled")
  BY <1>4, <1>9 DEF Ended
<1>11. ResultSeen' = M!Ended({o}, "cancelled")
  BY <1>10, EndedSeen
<1>12. left = M!RemoveAt(waiters[c], i)
  BY <1>3 DEF RemoveAt, M!RemoveAt
<1>13. CASE sendState[c] = "block"
  <2>1. /\ OfKind(Senders)[c] = waiters[c] /\ OfKind(Senders)'[c] = left
        /\ OfKind(Receivers)[c] = <<>> /\ OfKind(Receivers)'[c] = <<>>
    BY <1>4, <1>7, <1>13 DEF View
  <2>2. OfKind(Senders)' =
          [OfKind(Senders) EXCEPT ![c] = M!RemoveAt(OfKind(Senders)[c], i)]
    BY <1>12, <2>1 DEF ViewOnly
  <2>3. OfKind(Receivers)' = OfKind(Receivers)
    BY <2>1, SameView
  <2>4. {OfKind(Senders)[c][i]} = {o} /\ i \in DOMAIN OfKind(Senders)[c]
    BY <1>2, <2>1
  <2>5. M!CancelSend(c, i)
    BY <1>1, <1>8, <1>11, <2>2, <2>3, <2>4 DEF M!CancelSend
  <2>6. QED
    BY <2>4, <2>5
<1>14. CASE sendState[c] = "waiter"
  <2>1. /\ OfKind(Receivers)[c] = waiters[c] /\ OfKind(Receivers)'[c] = left
        /\ OfKind(Senders)[c] = <<>> /\ OfKind(Senders)'[c] = <<>>
    BY <1>4, <1>7, <1>14 DEF View
  <2>2. OfKind(Receivers)' =
          [OfKind(Receivers) EXCEPT ![c] = M!RemoveAt(OfKind(Receivers)[c], i)]
    BY <1>12, <2>1 DEF ViewOnly
  <2>3. OfKind(Senders)' = OfKind(Senders)
    BY <2>1, SameView
  <2>4. {OfKind(Receivers)[c][i]} = {o} /\ i \in DOMAIN OfKind(Receivers)[c]
    BY <1>2, <2>1
  <2>5. M!CancelReceive(c, i)
    BY <1>1, <1>8, <1>11, <2>2, <2>3, <2>4 DEF M!CancelReceive
  <2>6. QED
    BY <2>4, <2>5
<1>15. QED
  BY <1>6, <1>13, <1>14

LEMMA CloseStep ==
  ASSUME Inv, View, View', NEW c \in Channels, ViewOnly(c), Matched(c), Close(c)
  PROVE  M!Close(c)
<1>1. /\ waiters \in [Channels -> Seq(Ops)] /\ UNCHANGED <<buffer, got>>
      /\ sendState'[c] = "closed"
      /\ waiters'[c] = IF receiveState[c] = "block" THEN <<>> ELSE waiters[c]
  BY DEF Inv, TypeOK, Close, TellsOfClose
<1>2. receiveState[c] = "block" => sendState[c] = "waiter" \/ waiters[c] = <<>>
  BY DEF Matched
<1>3. receiveState[c] # "block" => sendState[c] # "waiter"
  BY DEF Matched
<1>4. /\ OfKind(Senders)'[c] = waiters'[c] /\ OfKind(Receivers)'[c] = <<>>
      /\ Stored'[c] = <<>> /\ Open' = Open \ {c}
  BY <1>1 DEF View, ViewOnly
<1>5. OfKind(Senders)[c] = waiters'[c]
  BY <1>1, <1>2, <1>3 DEF View
<1>6. OfKind(Senders)' = OfKind(Senders)
  BY <1>4, <1>5, SameView
<1>7. /\ Stored' = [Stored EXCEPT ![c] = <<>>]
      /\ OfKind(Receivers)' = [OfKind(Receivers) EXCEPT ![c] = <<>>]
  BY <1>4 DEF ViewOnly
<1>8. result' = Ended(ToSet(OfKind(Receivers)[c]), "closed")
  <2>1. OfKind(Receivers)[c] = IF receiveState[c] = "block" THEN waiters[c]
                                                            ELSE <<>>
    BY <1>2, <1>3 DEF View
  <2>2. \A o \in ToSet(waiters[c]) : receiveState[c] = "block" => o \in Receivers
    <3>1. \A o \in ToSet(waiters[c]) : In(waiters, c, o) /\ o \in Ops
      <4>1. \A o \in ToSet(waiters[c]) : In(waiters, c, o)
        BY <1>1, ToSetIn
      <4>2. \A o : In(waiters, c, o) => o \in Ops
        BY <1>1 DEF In
      <4>3. QED
        BY <4>1, <4>2
    <3>2. \A o : In(waiters, c, o) => waiters[c] # <<>>
      BY DEF In
    <3>3. QED
      BY <1>2, <3>1, <3>2 DEF Matched
  <2>3. \A o \in Ops :
          result'[o] = IF o \in ToSet(OfKind(Receivers)[c]) THEN "closed"
                                                            ELSE result[o]
    <3>1. CASE receiveState[c] = "block"
      BY <2>1, <2>2, <3>1 DEF Close, TellsOfClose
    <3>2. CASE receiveState[c] # "block"
      BY <2>1, <3>2, SameSets DEF Close, TellsOfClose
    <3>3. QED
      BY <3>1, <3>2
  <2>4. result' = [o \in Ops |-> result'[o]]
    BY DEF Close
  <2>5. QED
    BY <2>3, <2>4 DEF Ended
<1>9. ResultSeen' = M!Ended(M!ToSet(OfKind(Receivers)[c]), "closed")
  BY <1>8, EndedSeen, SameSets
<1>10. QED
  BY <1>1, <1>4, <1>6, <1>7, <1>9 DEF M!Close

LEMMA EndResetStep ==
  ASSUME Inv, View, View', NEW c \in Channels, ViewOnly(c), Matched(c), EndReset(c)
  PROVE  M!Clear(c)
<1>1. /\ waiters[c] = <<>> /\ waiters' = waiters /\ buffer'[c] = <<>>
      /\ sendState'[c] \in {"block", "buffer"} /\ got' = got /\ result' = result
  BY DEF Matched, EndReset, Inv, TypeOK, Idle, opVars
<1>2. /\ OfKind(Senders)[c] = <<>> /\ OfKind(Receivers)[c] = <<>>
      /\ OfKind(Senders)'[c] = <<>> /\ OfKind(Receivers)'[c] = <<>>
      /\ Stored'[c] = <<>> /\ Open' = Open \cup {c}
  BY <1>1 DEF View, ViewOnly
<1>3. /\ OfKind(Senders)' = OfKind(Senders)
      /\ OfKind(Receivers)' = OfKind(Receivers)
  BY <1>2, SameView
<1>4. Stored' = [Stored EXCEPT ![c] = <<>>]
  BY <1>2 DEF ViewOnly
<1>5. ResultSeen' = ResultSeen
  BY <1>1 DEF ResultSeen
<1>6. QED
  BY <1>1, <1>2, <1>3, <1>4, <1>5 DEF M!Clear

LEMMA ShutdownStep ==
  ASSUME Inv, View, Shutdown
  PROVE  M!Destroy
<1>1. /\ UNCHANGED <<sendState, buffer, got>> /\ waiters' = [c \in Channels |-> <<>>]
      /\ result' = Ended(UNION {ToSet(waiters[c]) : c \in Channels}, "destroyed")
  BY DEF Shutdown
<1>2. Open' = Open /\ Stored' = Stored
  BY <1>1 DEF Open, IsOpen, Stored
<1>3. /\ OfKind(Senders)' = [c \in Channels |-> <<>>]
      /\ OfKind(Receivers)' = [c \in Channels |-> <<>>]
  BY <1>1 DEF OfKind
<1>4. \A c \in Channels :
        M!ToSet(OfKind(Senders)[c]) \cup M!ToSet(OfKind(Receivers)[c]) =
          ToSet(waiters[c])
  BY SameSets DEF View
<1>5. {M!ToSet(OfKind(Senders)[c]) \cup M!ToSet(OfKind(Receivers)[c]) :
         c \in Channels} = {ToSet(waiters[c]) : c \in Channels}
  BY <1>4
<1>6. ResultSeen' = M!Ended(UNION {ToSet(waiters[c]) : c \in Channels}, "destroyed")
  BY <1>1, EndedSeen
<1>7. QED
  BY <1>1, <1>2, <1>3, <1>5, <1>6 DEF M!Destroy

\* Taking and giving back the mutex of try_send_n is not seen.
LEMMA CopiesUnseen ==
  ASSUME Inv, NEW c \in Channels,
         RefuseCopies(c) \/ \E batch \in Batches : TrySendN(c, batch)
  PROVE  UNCHANGED <<Open, Stored, OfKind(Senders), OfKind(Receivers), ResultSeen, got>>
<1>1. UNCHANGED <<sendState, buffer, waiters, got>>
  BY DEF RefuseCopies, TrySendN, chanVars
<1>2. ResultSeen' = ResultSeen
  <2>1. CASE RefuseCopies(c)
    <3>1. copies \in [Channels -> Seq(Senders)]
          /\ result' = Ended(ToSet(copies[c]), "new")
      BY <2>1 DEF RefuseCopies, Inv, TypeOK
    <3>2. \A o \in ToSet(copies[c]) : o \in Ops => result[o] = "copying"
      BY <3>1, ToSetIn DEF Inv, Sorted
    <3>3. QED
      BY <3>1, <3>2 DEF Ended, ResultSeen
  <2>2. ASSUME NEW batch \in Batches, TrySendN(c, batch)
        PROVE  ResultSeen' = ResultSeen
    <3>1. result' = Ended(ToSet(batch), "copying")
      BY <2>2 DEF TrySendN
    <3>2. \A o \in ToSet(batch) : result[o] = "new"
      BY <2>2 DEF TrySendN, New, ToSet
    <3>3. QED
      BY <3>1, <3>2 DEF Ended, ResultSeen
  <2>3. QED
    BY <2>1, <2>2
<1>3. QED
  BY <1>1, <1>2 DEF Open, IsOpen, Stored, OfKind, Waiting

----------------------------------------------------------------------------
(* ImplementsMailbox *)

\* The actions of a mailbox on one channel.
MailboxActs(c) ==
  \/ \E s \in Senders : M!HandOver(c, s) \/ M!Store(c, s) \/ M!SendWaits(c, s)
  \/ \E r \in Receivers : M!Receive(c, r) \/ M!ReceiveWaits(c, r)
  \/ \E o \in Senders \cup Receivers : M!Refuse(c, o)
  \/ M!CancelAll(c)
  \/ \E i \in DOMAIN OfKind(Senders)[c] : M!CancelSend(c, i)
  \/ \E i \in DOMAIN OfKind(Receivers)[c] : M!CancelReceive(c, i)
  \/ M!Close(c) \/ M!Clear(c)

LEMMA MailboxNext ==
  ASSUME NEW c \in Channels, MailboxActs(c), UNCHANGED capacity
  PROVE  AbstractStep
BY DEF MailboxActs, AbstractStep, M!Next

LEMMA MailboxStutters ==
  ASSUME UNCHANGED capacity,
         UNCHANGED <<Open, Stored, OfKind(Senders), OfKind(Receivers), ResultSeen, got>>
  PROVE  AbstractStep
BY DEF AbstractStep, M!vars

LEMMA CallsStep ==
  ASSUME MailboxLike, Inv, StatesInv, Room, NEW c \in Channels, Calls(c),
         UNCHANGED capacity, View, View', ViewOnly(c), ~down, Matched(c),
         c \notin resetting
  PROVE  AbstractStep
<1>1. RoomAt(c) /\ ~undefined
  BY DEF Room, StatesInv
<1>2. ASSUME NEW s \in Senders,
             TrySend(c, s) \/ SendBlocks(c, s) \/ SendRefused(c, s)
      PROVE  MailboxActs(c)
  <2>1. CASE TrySend(c, s)
    BY <1>1, <2>1, PutStep DEF TrySend, New, MailboxActs
  <2>2. CASE SendBlocks(c, s)
    BY <1>1, <2>2, SendBlocksStep DEF MailboxActs
  <2>3. CASE SendRefused(c, s)
    <3>1. /\ s \in Ops /\ sendState[c] = "closed" /\ result[s] = "new"
          /\ result' = Ended({s}, "closed") /\ UNCHANGED <<chanVars, got>>
      BY <2>3, Kinds DEF SendRefused, New
    <3>2. M!Refuse(c, s)
      BY <3>1, RefusedStep
    <3>3. QED
      BY <3>2 DEF MailboxActs
  <2>4. QED
    BY <1>2, <2>1, <2>2, <2>3
<1>3. CASE RefuseCopies(c) \/ \E batch \in Batches : TrySendN(c, batch)
  BY <1>3, CopiesUnseen, MailboxStutters
<1>4. ASSUME NextCopy(c)
      PROVE  MailboxActs(c)
  <2>1. copies[c] # <<>> /\ copies \in [Channels -> Seq(Senders)]
        /\ Put(c, Head(copies[c]))
    BY <1>4 DEF NextCopy, Inv, TypeOK
  <2>2. Head(copies[c]) \in Senders /\ In(copies, c, Head(copies[c]))
    BY <2>1, HeadIn
  <2>3. result[Head(copies[c])] = "copying"
    BY <2>2, Kinds DEF Inv, Sorted
  <2>4. M!Store(c, Head(copies[c])) \/ M!HandOver(c, Head(copies[c]))
    BY <1>1, <2>1, <2>2, <2>3, PutStep
  <2>5. QED
    BY <2>2, <2>4 DEF MailboxActs
<1>5. ASSUME NEW r \in Receivers,
             TryReceive(c, r) \/ ReceiveBlocks(c, r) \/ ReceiveRefused(c, r)
      PROVE  MailboxActs(c)
  <2>1. CASE TryReceive(c, r)
    <3>1. ~TakeFromNobody(c)
      <4>1. waiters \in [Channels -> Seq(Ops)]
        BY DEF Inv, TypeOK
      <4>2. waiters[c] # <<>> => In(waiters, c, Head(waiters[c]))
                                 /\ Head(waiters[c]) \in Ops
        BY <4>1, HeadIn
      <4>3. QED
        BY <4>2 DEF TakeFromNobody, Matched
    <3>2. TakeFromBuffer(c, r) \/ TakeFromWaiter(c, r)
      BY <2>1, <3>1 DEF TryReceive
    <3>3. New(r)
      BY <2>1 DEF TryReceive
    <3>4. M!Receive(c, r)
      BY <1>1, <3>2, <3>3, TakeStep
    <3>5. QED
      BY <3>4 DEF MailboxActs
  <2>2. CASE ReceiveBlocks(c, r)
    BY <2>2, ReceiveBlocksStep DEF MailboxActs
  <2>3. CASE ReceiveRefused(c, r)
    <3>1. /\ r \in Ops /\ receiveState[c] = "closed" /\ result[r] = "new"
          /\ result' = Ended({r}, "closed") /\ UNCHANGED <<chanVars, got>>
      BY <2>3, Kinds DEF ReceiveRefused, New
    <3>2. sendState[c] = "closed"
      BY <3>1 DEF Matched
    <3>3. M!Refuse(c, r)
      BY <3>1, <3>2, RefusedStep
    <3>4. QED
      BY <3>3 DEF MailboxActs
  <2>4. QED
    BY <1>5, <2>1, <2>2, <2>3
\* What is closed is not cancelled.
<1>6. ASSUME Cancel(c) \/ BeginReset(c) \/ \E o \in Ops : CancelByKey(c, o)
      PROVE  sendState[c] # "closed"
  <2>1. {"cancel", "cancel_by_key", "reset"} \cap Uses[capacity[c]] # {}
    BY <1>6 DEF Cancel, BeginReset, CancelByKey, Makes
  <2>2. capacity[c] \in DOMAIN Uses
    BY DEF Inv, TypeOK
  <2>3. QED
    BY <1>1, <2>1, <2>2 DEF MailboxLike, RoomAt, Makes
<1>7. ASSUME Cancel(c) \/ BeginReset(c)
      PROVE  MailboxActs(c)
  <2>1. CancelAll(c) /\ UNCHANGED <<buffer, got>>
    BY <1>7 DEF Cancel, BeginReset
  <2>2. QED
    BY <1>6, <1>7, <2>1, CancelAllStep DEF MailboxActs
<1>8. ASSUME NEW o \in Ops, CancelByKey(c, o)
      PROVE  MailboxActs(c)
  <2>1. sendState[c] # "closed"
    BY <1>6, <1>8
  <2>2. \/ \E i \in DOMAIN OfKind(Senders)[c] : M!CancelSend(c, i)
        \/ \E i \in DOMAIN OfKind(Receivers)[c] : M!CancelReceive(c, i)
    BY <1>8, <2>1, CancelByKeyStep
  <2>3. QED
    BY <2>2 DEF MailboxActs
<1>9. ASSUME Close(c)
      PROVE  MailboxActs(c)
  BY <1>9, CloseStep DEF MailboxActs
<1>10. QED
  BY <1>2, <1>3, <1>4, <1>5, <1>7, <1>8, <1>9, MailboxNext DEF Calls

LEMMA NextStep ==
  MailboxLike /\ Inv /\ Inv' /\ Unmoved /\ StatesInv /\ StatesInv' /\ Room
    /\ [Next]_vars =>
    AbstractStep
<1> SUFFICES ASSUME MailboxLike, Inv, Inv', Unmoved, StatesInv, StatesInv', Room,
                    [Next]_vars
             PROVE  AbstractStep
  OBVIOUS
<1>1. CASE UNCHANGED vars
  <2>1. UNCHANGED <<capacity, sendState, buffer, waiters, result, got>>
    BY <1>1 DEF vars
  <2>2. UNCHANGED <<Open, Stored, OfKind(Senders), OfKind(Receivers), ResultSeen, got>>
    BY <2>1 DEF Open, IsOpen, Stored, OfKind, Waiting, ResultSeen
  <2>3. QED
    BY <2>1, <2>2, MailboxStutters
<1>2. ASSUME Shutdown, UNCHANGED capacity
      PROVE  AbstractStep
  <2>1. View
    BY <1>2, InvView DEF Shutdown
  <2>2. M!Destroy
    BY <1>2, <2>1, ShutdownStep
  <2>3. QED
    BY <1>2, <2>2 DEF AbstractStep, M!Next
<1>3. ASSUME NEW c \in Channels, ActsOn(c), UNCHANGED capacity
      PROVE  AbstractStep
  <2>1. /\ ~down /\ ~down' /\ Matched(c) /\ (Calls(c) => c \notin resetting)
        /\ Local(c)
    BY <1>3, ActsSettled, ActsLocally DEF MailboxLike, Inv
  <2>2. View /\ View'
    BY <2>1, InvView, InvViewNext
  <2>3. ViewOnly(c)
    BY <2>1, <2>2, LocalView
  <2>4. CASE Calls(c)
    BY <1>3, <2>1, <2>2, <2>3, <2>4, CallsStep
  <2>5. CASE EndReset(c)
    <3>1. M!Clear(c)
      BY <2>1, <2>2, <2>3, <2>5, EndResetStep
    <3>2. QED
      BY <1>3, <3>1, MailboxNext DEF MailboxActs
  <2>6. QED
    BY <1>3, <2>4, <2>5 DEF ActsOn
<1>4. QED
  BY <1>1, <1>2, <1>3, NextActs DEF MailboxLike, Inv

LEMMA InitMailbox == Init => M!Init
<1> SUFFICES ASSUME Init
             PROVE  M!Init
  OBVIOUS
<1>1. capacity \in [Channels -> Nat]
  BY ChannelAssumption DEF Init
<1>2. \A c \in Channels : sendState[c] # "closed" /\ waiters[c] = <<>>
  BY DEF Init, Idle
<1>3. Open = Channels /\ Stored = [c \in Channels |-> <<>>]
  BY <1>2 DEF Init, Open, Stored, IsOpen
<1>4. \A S : OfKind(S) = [c \in Channels |-> <<>>]
  BY <1>2 DEF OfKind
<1>5. ResultSeen = [o \in Senders \cup Receivers |-> "new"]
  BY DEF Init, ResultSeen, Ops
<1>6. QED
  BY <1>1, <1>3, <1>4, <1>5 DEF Init, M!Init

LEMMA SpecRoom == MailboxLike => (Spec => []Room)
<1> SUFFICES ASSUME MailboxLike
             PROVE  Spec => []Room
  OBVIOUS
<1>1. Settled
  BY DEF MailboxLike
<1>2. Spec => []StatesInv
  BY <1>1, SpecMatched
<1>3. Inv /\ Unmoved /\ StatesInv /\ Room /\ [Next]_vars => Room'
  BY NextRoom
<1>4. Spec => [](Inv /\ Unmoved)
  BY <1>1, SettledInv
<1>5. QED
  BY <1>2, <1>3, <1>4, InitRoom, PTL DEF Spec

\* A channel with two states and one queue for both kinds of operation is a
\* bounded mailbox, and no operation is ever taken for one it is not, as long as
\* no channel is moved, those that may be reset have a mutex that does nothing,
\* those with a buffer are not cancelled, and what is closed is neither
\* cancelled nor reset.
THEOREM ChannelImplements == MailboxLike => (Spec => ImplementsMailbox)
<1> SUFFICES ASSUME MailboxLike
             PROVE  Spec => ImplementsMailbox
  OBVIOUS
<1>1. Settled
  BY DEF MailboxLike
<1>2. Spec => []StatesInv
  BY <1>1, SpecMatched
<1>3. Spec => []Room
  BY SpecRoom
<1>4. Inv /\ Inv' /\ Unmoved /\ StatesInv /\ StatesInv' /\ Room /\ [Next]_vars =>
        [M!Next]_(M!vars)
  BY NextStep DEF AbstractStep
<1>5. StatesInv => ~undefined
  BY DEF StatesInv
<1>6. Spec => [](Inv /\ Unmoved)
  BY <1>1, SettledInv
<1>7. QED
  BY <1>2, <1>3, <1>4, <1>5, <1>6, InitMailbox, PTL
  DEF Spec, ImplementsMailbox, M!Spec
=============================================================================
