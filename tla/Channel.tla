------------------------------ MODULE Channel ------------------------------
(***************************************************************************)
(* asio::experimental::basic_channel and basic_concurrent_channel:         *)
(* channel_service (experimental/detail/impl/channel_service.hpp).  A      *)
(* channel keeps a state for each of its ends, a buffer, and one queue of  *)
(* waiting operations, senders or receivers: which of the two is told by   *)
(* the states only, and the operations are cast accordingly.               *)
(*                                                                         *)
(* A message is named by the operation that sends it.  One action is one   *)
(* critical section of the channel's mutex, but for try_send_n, whose loop *)
(* is one action per message with the mutex held, reset, which takes the   *)
(* mutex twice, and a move, which releases it before it has moved          *)
(* anything: its stores are steps of their own, in the order of the        *)
(* source, and the critical sections of other threads come whole between   *)
(* them.  Completion handlers are posted to an executor, and do not run    *)
(* under the mutex: they are left out, and result tells how the operation  *)
(* completed.                                                              *)
(***************************************************************************)
EXTENDS Naturals, Sequences, SequencesExt

CONSTANTS
  Channels,
  Senders, Receivers,  \* the operations; each is started once
  NoMessage,
  MaxBatch,            \* bound on the count given to try_send_n
  Concurrent,          \* whether the mutex is a real one
  MovesRace,           \* whether channels are used by others while moved
  Uses                 \* by capacity of a channel, the calls the program
                       \* makes on it besides sends and receives

AllCalls == {"try_send_n", "cancel", "cancel_by_key", "close", "reset", "move",
             "shutdown"}

ASSUME ChannelAssumption ==
  /\ MaxBatch \in Nat
  /\ Senders \cap Receivers = {}
  /\ NoMessage \notin Senders
  /\ Concurrent \in BOOLEAN
  /\ MovesRace \in BOOLEAN /\ (MovesRace => Concurrent)
  /\ DOMAIN Uses \subseteq Nat
  /\ \A n \in DOMAIN Uses : Uses[n] \subseteq AllCalls

Ops == Senders \cup Receivers

VARIABLES
  capacity,      \* base_implementation_type::max_buffer_size_
  receiveState,  \* base_implementation_type::receive_state_
  sendState,     \* base_implementation_type::send_state_
  buffer,        \* implementation_type::buffer_
  waiters,       \* base_implementation_type::waiters_
  copies,        \* what try_send_n still has to send, with the mutex held
  resetting,     \* channels between the two critical sections of reset()
  moving,        \* moves under way: <<from, to, what they do next>>
  result,        \* how each operation completed
  got,           \* the message each receiver got
  undefined,     \* an operation of the wrong kind, or none, was dereferenced
  down           \* the service is shut down

chanVars == <<receiveState, sendState, buffer, waiters>>
opVars == <<result, got>>
vars == <<capacity, receiveState, sendState, buffer, waiters, copies, resetting,
          moving, result, got, undefined, down>>

\* send_state_ of a channel with nothing in it.
Idle(c) == IF capacity[c] > 0 THEN "buffer" ELSE "block"

Full(c, n) == n = capacity[c]

Init ==
  /\ capacity \in [Channels -> DOMAIN Uses]
  /\ receiveState = [c \in Channels |-> "block"]
  /\ sendState = [c \in Channels |-> Idle(c)]
  /\ buffer = [c \in Channels |-> <<>>]
  /\ waiters = [c \in Channels |-> <<>>]
  /\ copies = [c \in Channels |-> <<>>]
  /\ resetting = {} /\ moving = {}
  /\ result = [o \in Ops |-> "new"]
  /\ got = [r \in Receivers |-> NoMessage]
  /\ undefined = FALSE /\ down = FALSE

\* The channels that a move takes from or gives to.
Moved == UNION {{m[1], m[2]} : m \in moving}

\* The mutex is free.  Without a real mutex nobody comes between the two
\* halves of reset(), nor between the steps of a move, which others see only
\* if the program lets them.
CanLock(c) ==
  /\ ~undefined /\ ~down
  /\ copies[c] = <<>>
  /\ c \in resetting => Concurrent
  /\ c \in Moved => MovesRace

\* The program makes this call on c.
Makes(c, call) == call \in Uses[capacity[c]]

New(o) == result[o] = "new"

Ended(S, how) == [o \in Ops |-> IF o \in S THEN how ELSE result[o]]

\* channel_receive::complete on the operation o, whatever o is: a sender that
\* is taken for a receiver completes as if its message had been sent.
GotBy(o, m) == [r \in Receivers |-> IF r = o THEN m ELSE got[r]]

\* Nothing the standard defines happens from here on.
Undefined ==
  /\ undefined' = TRUE
  /\ UNCHANGED <<chanVars, opVars>>

----------------------------------------------------------------------------
(* Sending *)

\* The case buffer of try_send, try_send_n and start_send_op.
PutInBuffer(c, s) ==
  /\ sendState[c] = "buffer"
  /\ buffer' = [buffer EXCEPT ![c] = Append(@, s)]
  /\ receiveState' = [receiveState EXCEPT ![c] = "buffer"]
  /\ sendState' = [sendState EXCEPT ![c] =
                     IF Full(c, Len(buffer[c]) + 1) THEN "block" ELSE @]
  /\ result' = Ended({s}, "ok")
  /\ UNCHANGED <<waiters, got, undefined>>

\* Seeded bug: the receivers behind the first are forgotten.
NextSendStateAlways(c) == Idle(c)

\* send_state_ after the first receiver is gone.
NextSendState(c) == IF Len(waiters[c]) = 1 THEN Idle(c) ELSE "waiter"

\* The case waiter of the same.
PutToWaiter(c, s) ==
  /\ sendState[c] = "waiter" /\ waiters[c] # <<>>
  /\ LET o == Head(waiters[c])
     IN  /\ result' = Ended({o, s}, "ok")
         /\ got' = GotBy(o, s)
  /\ waiters' = [waiters EXCEPT ![c] = Tail(@)]
  /\ sendState' = [sendState EXCEPT ![c] = NextSendState(c)]
  /\ UNCHANGED <<receiveState, buffer, undefined>>

\* The same, with nobody there.
PutToNobody(c) == sendState[c] = "waiter" /\ waiters[c] = <<>> /\ Undefined

Put(c, s) == PutInBuffer(c, s) \/ PutToWaiter(c, s) \/ PutToNobody(c)

\* try_send, and start_send_op when it does not block.
TrySend(c, s) ==
  /\ CanLock(c) /\ New(s)
  /\ Put(c, s)
  /\ UNCHANGED <<copies, resetting, down>>

\* try_send_n takes the mutex, and each of its messages goes the way of
\* try_send until one is refused.
TrySendN(c, batch) ==
  /\ Makes(c, "try_send_n") /\ CanLock(c)
  /\ \A i \in DOMAIN batch : New(batch[i])
  /\ sendState[c] \in {"buffer", "waiter"}
  /\ copies' = [copies EXCEPT ![c] = batch]
  /\ result' = Ended(ToSet(batch), "copying")
  /\ UNCHANGED <<chanVars, resetting, got, undefined, down>>

NextCopy(c) ==
  /\ ~undefined /\ copies[c] # <<>>
  /\ Put(c, Head(copies[c]))
  /\ copies' = [copies EXCEPT ![c] = Tail(@)]
  /\ UNCHANGED <<resetting, down>>

RefuseCopies(c) ==
  /\ ~undefined /\ copies[c] # <<>>
  /\ sendState[c] \in {"block", "closed"}
  /\ copies' = [copies EXCEPT ![c] = <<>>]
  /\ result' = Ended(ToSet(copies[c]), "new")
  /\ UNCHANGED <<chanVars, resetting, got, undefined, down>>

\* start_send_op, in the cases that do not complete with a message.
SendBlocks(c, s) ==
  /\ CanLock(c) /\ New(s)
  /\ sendState[c] = "block"
  /\ waiters' = [waiters EXCEPT ![c] = Append(@, s)]
  /\ receiveState' = [receiveState EXCEPT ![c] = IF @ = "block" THEN "waiter"
                                                                ELSE @]
  /\ result' = Ended({s}, "waiting")
  /\ UNCHANGED <<sendState, buffer, copies, resetting, got, 
                 undefined, down>>

SendRefused(c, s) ==
  /\ CanLock(c) /\ New(s)
  /\ sendState[c] = "closed"
  /\ result' = Ended({s}, "closed")
  /\ UNCHANGED <<chanVars, copies, resetting, got, undefined, down>>

----------------------------------------------------------------------------
(* Receiving *)

\* receive_state_ when nothing is left to receive.
Drained(c) == IF sendState[c] = "closed" THEN "closed" ELSE "block"

\* The buffer without its first message.
AfterTake(c) ==
  IF waiters[c] # <<>> THEN Append(Tail(buffer[c]), Head(waiters[c]))
                       ELSE Tail(buffer[c])

\* The case buffer of try_receive and start_receive_op: the room in the
\* buffer goes to a sender that waits.
TakeFromBuffer(c, r) ==
  /\ receiveState[c] = "buffer" /\ buffer[c] # <<>>
  /\ got' = [got EXCEPT ![r] = Head(buffer[c])]
  /\ buffer' = [buffer EXCEPT ![c] = AfterTake(c)]
  /\ \/ /\ waiters[c] # <<>> /\ Head(waiters[c]) \in Senders
        /\ waiters' = [waiters EXCEPT ![c] = Tail(@)]
        /\ result' = Ended({r, Head(waiters[c])}, "ok")
        /\ UNCHANGED <<receiveState, sendState>>
     \/ /\ waiters[c] = <<>>
        /\ receiveState' = [receiveState EXCEPT ![c] =
                              IF Len(buffer[c]) = 1 THEN Drained(c) ELSE @]
        /\ sendState' = [sendState EXCEPT ![c] =
                           IF @ = "closed" THEN "closed" ELSE "buffer"]
        /\ result' = Ended({r}, "ok")
        /\ UNCHANGED waiters
  /\ UNCHANGED undefined

\* The case waiter of the same.
TakeFromWaiter(c, r) ==
  /\ receiveState[c] = "waiter"
  /\ waiters[c] # <<>> /\ Head(waiters[c]) \in Senders
  /\ got' = [got EXCEPT ![r] = Head(waiters[c])]
  /\ result' = Ended({r, Head(waiters[c])}, "ok")
  /\ waiters' = [waiters EXCEPT ![c] = Tail(@)]
  /\ receiveState' = [receiveState EXCEPT ![c] =
                        IF Len(waiters[c]) = 1 THEN Drained(c) ELSE @]
  /\ UNCHANGED <<sendState, buffer, undefined>>

\* The payload is read from an operation that is not there or has none.
TakeFromNobody(c) ==
  /\ \/ receiveState[c] = "buffer"
        /\ \/ buffer[c] = <<>>
           \/ waiters[c] # <<>> /\ Head(waiters[c]) \notin Senders
     \/ receiveState[c] = "waiter"
        /\ (waiters[c] # <<>> => Head(waiters[c]) \notin Senders)
  /\ Undefined

\* try_receive, and start_receive_op when it does not block.
TryReceive(c, r) ==
  /\ CanLock(c) /\ New(r)
  /\ TakeFromBuffer(c, r) \/ TakeFromWaiter(c, r) \/ TakeFromNobody(c)
  /\ UNCHANGED <<copies, resetting, down>>

ReceiveBlocks(c, r) ==
  /\ CanLock(c) /\ New(r)
  /\ receiveState[c] = "block"
  /\ waiters' = [waiters EXCEPT ![c] = Append(@, r)]
  /\ sendState' = [sendState EXCEPT ![c] = IF @ # "closed" THEN "waiter" ELSE @]
  /\ result' = Ended({r}, "waiting")
  /\ UNCHANGED <<receiveState, buffer, copies, resetting, got, 
                 undefined, down>>

ReceiveRefused(c, r) ==
  /\ CanLock(c) /\ New(r)
  /\ receiveState[c] = "closed"
  /\ result' = Ended({r}, "closed")
  /\ UNCHANGED <<chanVars, copies, resetting, got, undefined, down>>

----------------------------------------------------------------------------
(* Cancelling, closing, moving *)

\* How a waiting operation completes: it is cast to a sender if the send side
\* blocks, and to a receiver otherwise.  A sender taken for a receiver
\* completes without error; a receiver taken for a sender is destroyed.
CancelResult(c, o) ==
  IF sendState[c] = "block"
    THEN IF o \in Senders THEN "cancelled" ELSE "destroyed"
    ELSE IF o \in Senders THEN "ok" ELSE "cancelled"

\* Seeded bug: the states are left as they were.
StillWaiting(c, left, state) == state

\* A state of c when left are still waiting.
AfterCancel(c, left, state) ==
  IF left = <<>> /\ state = "waiter" THEN "block" ELSE state

\* cancel() and cancel_by_key(): S of those that wait on c, left do not.
CancelWaiters(c, S, left) ==
  /\ waiters' = [waiters EXCEPT ![c] = left]
  /\ receiveState' = [receiveState EXCEPT ![c] = AfterCancel(c, left, @)]
  /\ sendState' = [sendState EXCEPT ![c] = AfterCancel(c, left, @)]
  /\ result' = [o \in Ops |-> IF o \in S THEN CancelResult(c, o)
                                         ELSE result[o]]

CancelAll(c) == CancelWaiters(c, ToSet(waiters[c]), <<>>)

Cancel(c) ==
  /\ Makes(c, "cancel") /\ CanLock(c)
  /\ CancelAll(c)
  /\ UNCHANGED <<buffer, copies, resetting, got, undefined, down>>

\* The key of an operation is its own.
CancelByKey(c, o) ==
  /\ Makes(c, "cancel_by_key") /\ CanLock(c)
  /\ \E i \in DOMAIN waiters[c] :
       /\ waiters[c][i] = o
       /\ CancelWaiters(c, {o}, RemoveAt(waiters[c], i))
  /\ UNCHANGED <<buffer, copies, resetting, got, undefined, down>>

\* close() completes all that wait, as receivers.
TellsOfClose(c) == receiveState[c] = "block"

Close(c) ==
  /\ Makes(c, "close") /\ CanLock(c)
  /\ waiters' = [waiters EXCEPT ![c] =
                   IF TellsOfClose(c) THEN <<>> ELSE @]
  /\ result' = [o \in Ops |->
                  IF TellsOfClose(c) /\ o \in ToSet(waiters[c])
                    THEN IF o \in Receivers THEN "closed" ELSE "ok"
                    ELSE result[o]]
  /\ sendState' = [sendState EXCEPT ![c] = "closed"]
  /\ receiveState' = [receiveState EXCEPT ![c] = "closed"]
  /\ UNCHANGED <<buffer, copies, resetting, got, undefined, down>>

\* reset() cancels, releases the mutex, and takes it again.
BeginReset(c) ==
  /\ Makes(c, "reset") /\ CanLock(c) /\ c \notin resetting
  /\ CancelAll(c)
  /\ resetting' = resetting \cup {c}
  /\ UNCHANGED <<buffer, copies, got, undefined, down>>

EndReset(c) ==
  /\ c \in resetting /\ copies[c] = <<>> /\ ~undefined /\ ~down
  /\ resetting' = resetting \ {c}
  /\ receiveState' = [receiveState EXCEPT ![c] = "block"]
  /\ sendState' = [sendState EXCEPT ![c] = Idle(c)]
  /\ buffer' = [buffer EXCEPT ![c] = <<>>]
  /\ UNCHANGED <<waiters, copies, opVars, undefined, down>>

\* Move assignment, and move construction when d is fresh: d is cancelled and
\* takes over the capacity, the states and the buffer of c, but not its queue.
\* A channel is in one move at a time.  Only cancel() takes a mutex, that of d.
BeginMove(c, d) ==
  /\ Makes(c, "move") /\ Makes(d, "move") /\ c # d
  /\ CanLock(d) /\ {c, d} \cap Moved = {}
  /\ ~MovesRace => CanLock(c) /\ {c, d} \cap resetting = {}
  /\ CancelAll(d)
  /\ moving' = moving \cup {<<c, d, "receive">>}
  /\ UNCHANGED <<capacity, buffer, copies, resetting, got, undefined, down>>

\* The move from c to d goes on from one step to the next.
Moves(c, d, step, next) ==
  /\ <<c, d, step>> \in moving /\ ~undefined /\ ~down
  /\ moving' = (moving \ {<<c, d, step>>}) \cup {<<c, d, n>> : n \in next}
  /\ UNCHANGED <<waiters, copies, resetting, opVars, undefined, down>>

MoveReceiveState(c, d) ==
  /\ Moves(c, d, "receive", {"send"})
  /\ capacity' = [capacity EXCEPT ![d] = capacity[c]]
  /\ receiveState' = [receiveState EXCEPT ![d] = receiveState[c], ![c] = "block"]
  /\ UNCHANGED <<sendState, buffer>>

MoveSendState(c, d) ==
  /\ Moves(c, d, "send", {"copy"})
  /\ sendState' = [sendState EXCEPT ![d] = sendState[c], ![c] = Idle(c)]
  /\ UNCHANGED <<capacity, receiveState, buffer>>

\* buffer_move_from: when messages carry nothing the buffer is their number,
\* copied first and set to zero afterwards.
CopyBuffer(c, d) ==
  /\ Moves(c, d, "copy", {"clear"})
  /\ buffer' = [buffer EXCEPT ![d] = buffer[c]]
  /\ UNCHANGED <<capacity, receiveState, sendState>>

\* Seeded bug: the messages stay with the channel they came from.
ClearNothing(c, d) ==
  /\ Moves(c, d, "clear", {})
  /\ UNCHANGED <<capacity, receiveState, sendState, buffer>>

ClearBuffer(c, d) ==
  /\ Moves(c, d, "clear", {})
  /\ buffer' = [buffer EXCEPT ![c] = <<>>]
  /\ UNCHANGED <<capacity, receiveState, sendState>>

Move(c, d) ==
  \/ BeginMove(c, d)
  \/ MoveReceiveState(c, d) \/ MoveSendState(c, d)
  \/ CopyBuffer(c, d) \/ ClearBuffer(c, d)

\* shutdown() of the service destroys what waits on any channel.
Shutdown ==
  /\ \A c \in Channels : Makes(c, "shutdown")
  /\ ~undefined /\ ~down /\ \A c \in Channels : copies[c] = <<>>
  /\ down' = TRUE
  /\ waiters' = [c \in Channels |-> <<>>]
  /\ result' = Ended(UNION {ToSet(waiters[c]) : c \in Channels}, "destroyed")
  /\ UNCHANGED <<receiveState, sendState, buffer, copies, resetting, got,
                 undefined>>

Batches == {b \in UNION {[1 .. n -> Senders] : n \in 1 .. MaxBatch} :
              IsInjective(b)}

Next ==
  \/ /\ \/ \E c \in Channels :
             \/ \E s \in Senders :
                  TrySend(c, s) \/ SendBlocks(c, s) \/ SendRefused(c, s)
             \/ \E batch \in Batches : TrySendN(c, batch)
             \/ NextCopy(c) \/ RefuseCopies(c)
             \/ \E r \in Receivers :
                  TryReceive(c, r) \/ ReceiveBlocks(c, r) \/ ReceiveRefused(c, r)
             \/ Cancel(c) \/ Close(c) \/ BeginReset(c) \/ EndReset(c)
             \/ \E o \in Ops : CancelByKey(c, o)
        \/ Shutdown
     /\ UNCHANGED <<capacity, moving>>
  \/ \E c, d \in Channels : Move(c, d)

Spec == Init /\ [][Next]_vars

----------------------------------------------------------------------------
(* Properties *)

Waiting(c) == ToSet(waiters[c])

\* The states of the two ends tell which kind of operation waits, if any: the
\* casts in channel_service all go by them.
StatesTellWaiters ==
  ~down => \A c \in Channels :
    /\ receiveState[c] = "waiter" => waiters[c] # <<>>
    /\ receiveState[c] \in {"waiter", "buffer"} => Waiting(c) \subseteq Senders
    /\ sendState[c] = "waiter" =>
         waiters[c] # <<>> /\ Waiting(c) \subseteq Receivers
    /\ sendState[c] \in {"block", "closed"} => Waiting(c) \subseteq Senders
    /\ receiveState[c] = "buffer" <=>
         buffer[c] # <<>> /\ sendState[c] # "closed"

PlacesIn(name, queue, s) ==
  UNION {{<<name, c, i>> : i \in {j \in DOMAIN queue[c] : queue[c][j] = s}}
           : c \in Channels}

\* A move has copied the buffer of c, and not cleared it yet.
Copied(c) == \E d \in Channels : <<c, d, "clear">> \in moving

\* What the buffers hold.
Contents == [c \in Channels |-> IF Copied(c) THEN <<>> ELSE buffer[c]]

\* Where the message of s is: in a buffer, with a sender, with a receiver.
Places(s) ==
  PlacesIn("buffer", Contents, s) \cup PlacesIn("waiters", waiters, s)
    \cup {<<"got", r, 1>> : r \in {q \in Receivers : got[q] = s}}

\* A message is in one place at most: it is never received twice, nor received
\* and kept.  That takes that nobody uses a channel while it is moved.
MessageNotDuplicated ==
  \A s \in Senders : \A p, q \in Places(s) : p = q

\* cancel() completes every waiting send operation with an error.
CancelFailsSenders ==
  [][\A c \in Channels : Cancel(c) =>
       \A s \in Waiting(c) \cap Senders : result'[s] = "cancelled"]_vars

----------------------------------------------------------------------------
(* Refinement *)

IsOpen(c) == sendState[c] # "closed"

Open == {c \in Channels : IsOpen(c)}
Stored == [c \in Channels |-> IF IsOpen(c) THEN buffer[c] ELSE <<>>]
OfKind(S) ==
  [c \in Channels |-> IF Waiting(c) \subseteq S THEN waiters[c] ELSE <<>>]
ResultSeen == [o \in Ops |-> IF result[o] = "copying" THEN "new" ELSE result[o]]

M == INSTANCE Mailbox WITH open <- Open, stored <- Stored,
       sending <- OfKind(Senders), receiving <- OfKind(Receivers),
       result <- ResultSeen

\* The channel, with its two states and one queue, is a bounded mailbox, and no
\* operation is ever taken for one it is not.
ImplementsMailbox == M!Spec /\ []~undefined
============================================================================
