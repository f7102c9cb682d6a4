-------------------------- MODULE SchedulerProofs --------------------------
(***************************************************************************)
(* Type correctness of Scheduler and the mutual exclusion of the reactor,  *)
(* for any threads, operations, modes and hint; that no wakeup is lost,    *)
(* for programs that stay in run() or poll(); that the work is counted     *)
(* right, and that Scheduler implements Executor.                          *)
(*                                                                         *)
(* The inductive invariant IInv adds to TypeOK and TaskInOnePlace what a   *)
(* thread's position says of the rest of its state; WakeInv adds what the  *)
(* wakers decide by, OpsInv where each operation is.                       *)
(***************************************************************************)
EXTENDS Scheduler, FiniteSetTheorems, TLAPS

(* What a thread's position says of the rest of its state. *)

\* A thread at, or on its way back to, a handler has an operation; a thread
\* that is to push has one to push; nested steps return where they can.
PushOK == \A p \in Procs : pc[p] = "push" => arg[p] # NoOp
CallOK ==
  \A p \in Procs : pc[p] \in {"push", "stop"} => ret[p] \in {"out", "exec"}
CleanOK ==
  \A p \in Procs : pc[p] \in {"wpush", "wstop"} => ret[p] \in {"out", "loop"}
InHandler(t) == \/ pc[t] = "exec"
                \/ pc[t] \in {"signal", "push", "stop"} /\ ret[t] = "exec"
HandlerOK == \A t \in Runners : InHandler(t) => cur[t] # NoOp

ControlOK == PushOK /\ CallOK /\ CleanOK /\ HandlerOK

\* After the beginning of shutdown only the own thread moves.
JoinOK == (\E p \in Procs : pc[p] = "join") => shut
ShutOK ==
  /\ JoinOK
  /\ shut => \A q \in Procs \ OwnThread : pc[q] \in {"out", "join", "end"}

IInv == TypeOK /\ ControlOK /\ ShutOK /\ TaskInOnePlace

----------------------------------------------------------------------------
(* The task in a sequence. *)

\* Submitting an operation at the back leaves the task where it is.
LEMMA AppendOp ==
  ASSUME NEW q \in Seq(Ops \cup {TaskOp}), NEW o \in Ops
  PROVE  /\ Append(q, o) \in Seq(Ops \cup {TaskOp})
         /\ Queued(TaskOp, Append(q, o)) <=> Queued(TaskOp, q)
         /\ AtMostOnce(TaskOp, q) => AtMostOnce(TaskOp, Append(q, o))
<1>1. TaskOp # o
  BY SchedulerAssumption DEF SchedulerAssumption
<1>2. QED
  BY <1>1 DEF Queued, AtMostOnce

\* So does a private queue.
LEMMA ConcatOps ==
  ASSUME NEW q \in Seq(Ops \cup {TaskOp}), NEW s \in Seq(Ops)
  PROVE  /\ q \o s \in Seq(Ops \cup {TaskOp})
         /\ Queued(TaskOp, q \o s) <=> Queued(TaskOp, q)
         /\ AtMostOnce(TaskOp, q) => AtMostOnce(TaskOp, q \o s)
<1>1. /\ q \o s \in Seq(Ops \cup {TaskOp})
      /\ Len(q \o s) = Len(q) + Len(s)
      /\ \A i \in 1..Len(q) : (q \o s)[i] = q[i]
      /\ \A i \in 1..Len(q \o s) : i > Len(q) => (q \o s)[i] = s[i - Len(q)]
  OBVIOUS
<1>2. \A i \in 1..Len(q \o s) : i > Len(q) => (q \o s)[i] # TaskOp
  BY <1>1, SchedulerAssumption DEF SchedulerAssumption
<1>3. QED
  BY <1>1, <1>2 DEF Queued, AtMostOnce

\* Taking the front leaves the task when the front is an operation, and
\* leaves none when it was the task.
LEMMA TailOfQueue ==
  ASSUME NEW q \in Seq(Ops \cup {TaskOp}), q # <<>>
  PROVE  /\ Tail(q) \in Seq(Ops \cup {TaskOp})
         /\ Head(q) \in Ops \cup {TaskOp}
         /\ Head(q) # TaskOp => (Queued(TaskOp, Tail(q)) <=> Queued(TaskOp, q))
         /\ AtMostOnce(TaskOp, q) => AtMostOnce(TaskOp, Tail(q))
         /\ Head(q) = TaskOp => Queued(TaskOp, q)
         /\ Head(q) = TaskOp /\ AtMostOnce(TaskOp, q) => ~Queued(TaskOp, Tail(q))
<1>1. /\ Len(q) \in Nat /\ Len(q) > 0
      /\ Len(Tail(q)) = Len(q) - 1
      /\ \A i \in 1..Len(Tail(q)) : Tail(q)[i] = q[i + 1]
      /\ Head(q) = q[1]
      /\ Tail(q) \in Seq(Ops \cup {TaskOp})
      /\ Head(q) \in Ops \cup {TaskOp}
  OBVIOUS
<1>2. \A i \in 1..Len(q) : i = 1 \/ i - 1 \in 1..Len(Tail(q))
  BY <1>1
<1>3. QED
  BY <1>1, <1>2 DEF Queued, AtMostOnce

\* The task goes to the back of a queue without it.
LEMMA AppendTask ==
  ASSUME NEW q \in Seq(Ops \cup {TaskOp}), ~Queued(TaskOp, q)
  PROVE  /\ Append(q, TaskOp) \in Seq(Ops \cup {TaskOp})
         /\ Queued(TaskOp, Append(q, TaskOp))
         /\ AtMostOnce(TaskOp, Append(q, TaskOp))
<1>1. /\ Len(Append(q, TaskOp)) = Len(q) + 1 /\ Len(q) \in Nat
      /\ Append(q, TaskOp) \in Seq(Ops \cup {TaskOp})
      /\ \A i \in 1..Len(q) : Append(q, TaskOp)[i] = q[i]
      /\ Append(q, TaskOp)[Len(q) + 1] = TaskOp
  OBVIOUS
<1>2. \A i \in 1..Len(Append(q, TaskOp)) :
        Append(q, TaskOp)[i] = TaskOp => i = Len(q) + 1
  BY <1>1 DEF Queued
<1>3. QED
  BY <1>1, <1>2 DEF Queued, AtMostOnce

\* What the reactor hands over are operations.
LEMMA ReadySeqsType ==
  ASSUME NEW S \in SUBSET Ops, NEW q \in ReadySeqs(S)
  PROVE  q \in Seq(Ops) /\ ReadyOps(q) \in SUBSET Ops
<1>1. PICK n \in 0..Cardinality(S) : q \in [1..n -> S]
  BY DEF ReadySeqs
<1>2. CASE n \in Nat
  BY <1>1, <1>2 DEF ReadyOps
<1>3. QED
  BY <1>1, <1>2

----------------------------------------------------------------------------
(* The initial state. *)

LEMMA InitIInv == Init => IInv
<1> SUFFICES ASSUME Init PROVE IInv
  OBVIOUS
<1>1. TypeOK
  <2>1. queue \in Seq(Ops \cup {TaskOp}) /\ pq \in [Runners -> Seq(Ops)]
    BY DEF Init
  <2>2. pc \in [Procs -> PCs] /\ outstanding \in Int
    BY DEF Init, PCs
  <2>3. QED
    BY <2>1, <2>2 DEF Init, TypeOK, AllModes
<1>2. ControlOK
  BY SchedulerAssumption DEF Init, ControlOK, PushOK, CallOK, CleanOK,
     HandlerOK, InHandler, SchedulerAssumption, Procs
<1>3. ShutOK
  BY DEF Init, ShutOK, JoinOK
<1>4. TaskInOnePlace
  BY DEF Init, TaskInOnePlace, AtMostOnce, Queued, HasTask, TaskPCs
<1>5. QED
  BY <1>1, <1>2, <1>3, <1>4 DEF IInv

----------------------------------------------------------------------------
(* Updates of functions, and the two ways of giving up the lock. *)

LEMMA Update ==
  ASSUME NEW S, NEW T, NEW f \in [S -> T], NEW x, NEW v, x \in S => v \in T
  PROVE  [f EXCEPT ![x] = v] \in [S -> T]
OBVIOUS

RetPCs == {"out", "exec", "task", "taskpoll", "loop"}

LEMMA UnlockType ==
  ASSUME pc \in [Procs -> PCs], ret \in [Procs -> RetPCs],
         NEW p, NEW next \in RetPCs,
         \/ SignalOneAndUnlock(p, next) \/ UnlockAndGo(p, next)
         \/ \E task \in BOOLEAN : WakeOneThreadAndUnlock(p, next, task)
  PROVE  pc' \in [Procs -> PCs] /\ ret' \in [Procs -> RetPCs]
<1>1. "signal" \in PCs /\ next \in PCs
  BY DEF PCs, RetPCs
<1>2. \/ pc' = [pc EXCEPT ![p] = "signal"] /\ ret' = [ret EXCEPT ![p] = next]
      \/ pc' = [pc EXCEPT ![p] = next] /\ ret' = ret
  BY DEF SignalOneAndUnlock, UnlockAndGo, WakeOneThreadAndUnlock
<1>3. QED
  BY <1>1, <1>2, Update

----------------------------------------------------------------------------
(* Each action preserves types and control. *)

USE DEF Procs, CanLock

LEMMA EnterType ==
  ASSUME TypeOK, ControlOK, NEW t \in Runners, NEW m \in Modes, Enter(t, m)
  PROVE  TypeOK'
<1>1. /\ queue' \in Seq(Ops \cup {TaskOp})
      /\ pq' \in [Runners -> Seq(Ops)]
  BY SchedulerAssumption DEF TypeOK, Enter, SchedulerAssumption, PCs,
     AllModes, vars, sharedVars,
     wakeVars, ctlVars, opVars
<1>2. pc' \in [Procs -> PCs]
  <2>1. pc' = [pc EXCEPT ![t] = "stop"] \/ pc' = [pc EXCEPT ![t] = "loop"]
    BY DEF Enter
  <2>2. QED
    BY <2>1 DEF TypeOK, PCs
<1>3. ret' \in [Procs -> {"out", "exec", "task", "taskpoll", "loop"}]
  BY Update DEF TypeOK, Enter
<1>4. /\ cur' \in [Runners -> Ops \cup {NoOp}]
      /\ arg' \in [Procs -> Ops \cup {NoOp}]
      /\ pw' \in [Runners -> Nat]
      /\ mode' \in [Runners -> AllModes]
  BY SchedulerAssumption DEF TypeOK, Enter, SchedulerAssumption, PCs,
     AllModes, vars, sharedVars,
     wakeVars, ctlVars, opVars
<1>5. /\ armed' \in SUBSET Ops /\ unposted' \in SUBSET Ops
      /\ done' \in SUBSET Ops /\ destroyed' \in SUBSET Ops
      /\ guard' \in SUBSET Posters /\ outstanding' \in Int
  BY SchedulerAssumption DEF TypeOK, Enter, SchedulerAssumption, PCs,
     AllModes, vars, sharedVars,
     wakeVars, ctlVars, opVars
<1>6. /\ stopped' \in BOOLEAN /\ shut' \in BOOLEAN /\ hasTask' \in BOOLEAN
      /\ taskInterrupted' \in BOOLEAN
      /\ eventSet' \in BOOLEAN /\ interrupter' \in BOOLEAN
      /\ owner' \in Runners \cup {NoProc}
  BY SchedulerAssumption DEF TypeOK, Enter, SchedulerAssumption, PCs,
     AllModes, vars, sharedVars,
     wakeVars, ctlVars, opVars
<1>7. QED
  BY <1>1, <1>2, <1>3, <1>4, <1>5, <1>6 DEF TypeOK

LEMMA LeaveStoppedType ==
  ASSUME TypeOK, ControlOK, NEW t \in Runners, LeaveStopped(t)
  PROVE  TypeOK'
BY DEF TypeOK, LeaveStopped, UnlockAndGo, PCs, AllModes, vars, sharedVars,
   wakeVars, ctlVars, opVars

LEMMA FindNothingType ==
  ASSUME TypeOK, ControlOK, NEW t \in Runners, FindNothing(t)
  PROVE  TypeOK'
BY DEF TypeOK, FindNothing, PCs, AllModes, vars, sharedVars,
   wakeVars, ctlVars, opVars

LEMMA WakeUpType ==
  ASSUME TypeOK, ControlOK, NEW t \in Runners, WakeUp(t)
  PROVE  TypeOK'
BY DEF TypeOK, WakeUp, PCs, AllModes, vars, sharedVars,
   wakeVars, ctlVars, opVars

LEMMA ReacquireType ==
  ASSUME TypeOK, ControlOK, NEW t \in Runners, Reacquire(t)
  PROVE  TypeOK'
BY DEF TypeOK, Reacquire, PCs, AllModes, vars, sharedVars,
   wakeVars, ctlVars, opVars

LEMMA SignalType ==
  ASSUME TypeOK, ControlOK, NEW p \in Procs, Signal(p)
  PROVE  TypeOK'
<1>1. /\ queue' \in Seq(Ops \cup {TaskOp})
      /\ pq' \in [Runners -> Seq(Ops)]
  BY DEF TypeOK, Signal, PCs, AllModes, vars, sharedVars,
     wakeVars, ctlVars, opVars
<1>2. pc' \in [Procs -> PCs]
  <2>1. ret[p] \in PCs /\ "woken" \in PCs
    BY DEF TypeOK, PCs
  <2>2. CASE pc' = [pc EXCEPT ![p] = ret[p]]
    BY <2>1, <2>2, Update DEF TypeOK
  <2>3. ASSUME NEW q \in Procs, pc' = [pc EXCEPT ![p] = ret[p], ![q] = "woken"]
        PROVE  pc' \in [Procs -> PCs]
    BY <2>1, <2>3 DEF TypeOK
  <2>4. QED
    BY <2>2, <2>3 DEF Signal
<1>3. ret' \in [Procs -> {"out", "exec", "task", "taskpoll", "loop"}]
  BY DEF TypeOK, Signal, PCs, AllModes, vars, sharedVars,
     wakeVars, ctlVars, opVars
<1>4. /\ cur' \in [Runners -> Ops \cup {NoOp}]
      /\ arg' \in [Procs -> Ops \cup {NoOp}]
      /\ pw' \in [Runners -> Nat]
      /\ mode' \in [Runners -> AllModes]
  BY DEF TypeOK, Signal, PCs, AllModes, vars, sharedVars,
     wakeVars, ctlVars, opVars
<1>5. /\ armed' \in SUBSET Ops /\ unposted' \in SUBSET Ops
      /\ done' \in SUBSET Ops /\ destroyed' \in SUBSET Ops
      /\ guard' \in SUBSET Posters /\ outstanding' \in Int
  BY DEF TypeOK, Signal, PCs, AllModes, vars, sharedVars,
     wakeVars, ctlVars, opVars
<1>6. /\ stopped' \in BOOLEAN /\ shut' \in BOOLEAN /\ hasTask' \in BOOLEAN
      /\ taskInterrupted' \in BOOLEAN
      /\ eventSet' \in BOOLEAN /\ interrupter' \in BOOLEAN
      /\ owner' \in Runners \cup {NoProc}
  BY DEF TypeOK, Signal, PCs, AllModes, vars, sharedVars,
     wakeVars, ctlVars, opVars
<1>7. QED
  BY <1>1, <1>2, <1>3, <1>4, <1>5, <1>6 DEF TypeOK

LEMMA StopType ==
  ASSUME TypeOK, ControlOK, NEW p \in Procs, Stop(p)
  PROVE  TypeOK'
BY DEF TypeOK, Stop, StopAllThreads, InterruptTask, PCs, AllModes, vars,
   sharedVars,
   wakeVars, ctlVars, opVars

LEMMA TakeTaskType ==
  ASSUME TypeOK, ControlOK, NEW t \in Runners, TakeTask(t)
  PROVE  TypeOK'
<1>1. /\ queue' \in Seq(Ops \cup {TaskOp})
      /\ pq' \in [Runners -> Seq(Ops)]
  BY TailOfQueue DEF TypeOK, TakeTask, AtFront, SignalOneAndUnlock,
     UnlockAndGo, PCs, AllModes, vars, sharedVars,
     wakeVars, ctlVars, opVars
<1>2. /\ pc' \in [Procs -> PCs]
      /\ ret' \in [Procs -> {"out", "exec", "task", "taskpoll", "loop"}]
  <2> DEFINE next == IF Tail(queue) # <<>> \/ mode[t] \in PollLike \/ pc[t] = "loop2"
                       THEN "taskpoll" ELSE "task"
  <2>1. SignalOneAndUnlock(t, next) \/ UnlockAndGo(t, next)
    BY DEF TakeTask
  <2>2. next \in RetPCs
    BY DEF RetPCs
  <2> HIDE DEF next
  <2>3. pc' \in [Procs -> PCs] /\ ret' \in [Procs -> RetPCs]
    BY <2>1, <2>2, UnlockType DEF TypeOK, RetPCs
  <2>4. QED
    BY <2>3 DEF RetPCs
<1>3. ret' \in [Procs -> {"out", "exec", "task", "taskpoll", "loop"}]
  BY <1>2
<1>4. /\ cur' \in [Runners -> Ops \cup {NoOp}]
      /\ arg' \in [Procs -> Ops \cup {NoOp}]
      /\ pw' \in [Runners -> Nat]
      /\ mode' \in [Runners -> AllModes]
  BY TailOfQueue DEF TypeOK, TakeTask, AtFront, SignalOneAndUnlock,
     UnlockAndGo, PCs, AllModes, vars, sharedVars,
     wakeVars, ctlVars, opVars
<1>5. /\ armed' \in SUBSET Ops /\ unposted' \in SUBSET Ops
      /\ done' \in SUBSET Ops /\ destroyed' \in SUBSET Ops
      /\ guard' \in SUBSET Posters /\ outstanding' \in Int
  BY TailOfQueue DEF TypeOK, TakeTask, AtFront, SignalOneAndUnlock,
     UnlockAndGo, PCs, AllModes, vars, sharedVars,
     wakeVars, ctlVars, opVars
<1>6. /\ stopped' \in BOOLEAN /\ shut' \in BOOLEAN /\ hasTask' \in BOOLEAN
      /\ taskInterrupted' \in BOOLEAN
      /\ eventSet' \in BOOLEAN /\ interrupter' \in BOOLEAN
      /\ owner' \in Runners \cup {NoProc}
  BY TailOfQueue DEF TypeOK, TakeTask, AtFront, SignalOneAndUnlock,
     UnlockAndGo, PCs, AllModes, vars, sharedVars,
     wakeVars, ctlVars, opVars
<1>7. QED
  BY <1>1, <1>2, <1>3, <1>4, <1>5, <1>6 DEF TypeOK

LEMMA TakeOpType ==
  ASSUME TypeOK, ControlOK, NEW t \in Runners, TakeOp(t)
  PROVE  TypeOK'
<1>1. /\ queue' \in Seq(Ops \cup {TaskOp})
      /\ pq' \in [Runners -> Seq(Ops)]
  BY TailOfQueue, SchedulerAssumption DEF TypeOK, TakeOp, AtFront,
     IsOperation, WakeOneThreadAndUnlock, InterruptTask, UnlockAndGo,
     SchedulerAssumption, PCs, AllModes, vars, sharedVars,
     wakeVars, ctlVars, opVars
<1>2. pc' \in [Procs -> PCs]
  <2>1. \/ UnlockAndGo(t, "exec")
        \/ \E task \in BOOLEAN : WakeOneThreadAndUnlock(t, "exec", task)
    BY DEF TakeOp, TypeOK
  <2>2. QED
    BY <2>1, UnlockType DEF TypeOK, RetPCs
<1>3. ret' \in [Procs -> {"out", "exec", "task", "taskpoll", "loop"}]
  <2>1. \/ UnlockAndGo(t, "exec")
        \/ \E task \in BOOLEAN : WakeOneThreadAndUnlock(t, "exec", task)
    BY DEF TakeOp, TypeOK
  <2>2. QED
    BY <2>1, UnlockType DEF TypeOK, RetPCs
<1>4. /\ cur' \in [Runners -> Ops \cup {NoOp}]
      /\ arg' \in [Procs -> Ops \cup {NoOp}]
      /\ pw' \in [Runners -> Nat]
      /\ mode' \in [Runners -> AllModes]
  BY TailOfQueue, SchedulerAssumption DEF TypeOK, TakeOp, AtFront,
     IsOperation, WakeOneThreadAndUnlock, InterruptTask, UnlockAndGo,
     SchedulerAssumption, PCs, AllModes, vars, sharedVars,
     wakeVars, ctlVars, opVars
<1>5. /\ armed' \in SUBSET Ops /\ unposted' \in SUBSET Ops
      /\ done' \in SUBSET Ops /\ destroyed' \in SUBSET Ops
      /\ guard' \in SUBSET Posters /\ outstanding' \in Int
  BY TailOfQueue, SchedulerAssumption DEF TypeOK, TakeOp, AtFront,
     IsOperation, WakeOneThreadAndUnlock, InterruptTask, UnlockAndGo,
     SchedulerAssumption, PCs, AllModes, vars, sharedVars,
     wakeVars, ctlVars, opVars
<1>6. /\ stopped' \in BOOLEAN /\ shut' \in BOOLEAN /\ hasTask' \in BOOLEAN
      /\ taskInterrupted' \in BOOLEAN
      /\ eventSet' \in BOOLEAN /\ interrupter' \in BOOLEAN
      /\ owner' \in Runners \cup {NoProc}
  BY TailOfQueue, SchedulerAssumption DEF TypeOK, TakeOp, AtFront,
     IsOperation, WakeOneThreadAndUnlock, InterruptTask, UnlockAndGo,
     SchedulerAssumption, PCs, AllModes, vars, sharedVars,
     wakeVars, ctlVars, opVars
<1>7. QED
  BY <1>1, <1>2, <1>3, <1>4, <1>5, <1>6 DEF TypeOK

LEMMA PassTaskOnType ==
  ASSUME TypeOK, ControlOK, NEW t \in Runners, PassTaskOn(t)
  PROVE  TypeOK'
BY DEF TypeOK, PassTaskOn, SignalOneAndUnlock, UnlockAndGo, PCs, AllModes,
   vars, sharedVars,
   wakeVars, ctlVars, opVars

LEMMA TaskReturnType ==
  ASSUME TypeOK, ControlOK, NEW t \in Runners, NEW q, TaskReturn(t, q)
  PROVE  TypeOK'
<1>1. /\ queue' \in Seq(Ops \cup {TaskOp})
      /\ pq' \in [Runners -> Seq(Ops)]
  <2>1. q \in Seq(Ops)
    BY ReadySeqsType DEF TaskReturn, TypeOK
  <2>2. pq[t] \in Seq(Ops)
    BY DEF TypeOK
  <2>3. pq[t] \o q \in Seq(Ops)
    BY <2>1, <2>2
  <2>4. QED
    BY <2>3, Update DEF TaskReturn, TypeOK, sharedVars
<1>2. pc' \in [Procs -> PCs]
  BY ReadySeqsType DEF TypeOK, TaskReturn, StillArmed, PCs, AllModes, vars,
     sharedVars,
     wakeVars, ctlVars, opVars
<1>3. ret' \in [Procs -> {"out", "exec", "task", "taskpoll", "loop"}]
  BY ReadySeqsType DEF TypeOK, TaskReturn, StillArmed, PCs, AllModes, vars,
     sharedVars,
     wakeVars, ctlVars, opVars
<1>4. /\ cur' \in [Runners -> Ops \cup {NoOp}]
      /\ arg' \in [Procs -> Ops \cup {NoOp}]
      /\ pw' \in [Runners -> Nat]
      /\ mode' \in [Runners -> AllModes]
  BY ReadySeqsType DEF TypeOK, TaskReturn, StillArmed, PCs, AllModes, vars,
     sharedVars,
     wakeVars, ctlVars, opVars
<1>5. /\ armed' \in SUBSET Ops /\ unposted' \in SUBSET Ops
      /\ done' \in SUBSET Ops /\ destroyed' \in SUBSET Ops
      /\ guard' \in SUBSET Posters /\ outstanding' \in Int
  BY ReadySeqsType DEF TypeOK, TaskReturn, StillArmed, PCs, AllModes, vars,
     sharedVars,
     wakeVars, ctlVars, opVars
<1>6. /\ stopped' \in BOOLEAN /\ shut' \in BOOLEAN /\ hasTask' \in BOOLEAN
      /\ taskInterrupted' \in BOOLEAN
      /\ eventSet' \in BOOLEAN /\ interrupter' \in BOOLEAN
      /\ owner' \in Runners \cup {NoProc}
  BY ReadySeqsType DEF TypeOK, TaskReturn, StillArmed, PCs, AllModes, vars,
     sharedVars,
     wakeVars, ctlVars, opVars
<1>7. QED
  BY <1>1, <1>2, <1>3, <1>4, <1>5, <1>6 DEF TypeOK

LEMMA TaskCleanupType ==
  ASSUME TypeOK, ControlOK, NEW t \in Runners, TaskCleanup(t)
  PROVE  TypeOK'
BY DEF TypeOK, TaskCleanup, PCs, AllModes, vars, sharedVars,
   wakeVars, ctlVars, opVars

LEMMA CompleteOpType ==
  ASSUME TypeOK, ControlOK, NEW t \in Runners, NEW throws \in BOOLEAN, CompleteOp(t, throws)
  PROVE  TypeOK'
BY DEF TypeOK, ControlOK, HandlerOK, InHandler, CompleteOp, WorkDelta,
   LastWork, PCs, AllModes, vars, sharedVars,
   wakeVars, ctlVars, opVars

LEMMA WorkPushType ==
  ASSUME TypeOK, ControlOK, NEW t \in Runners, WorkPush(t)
  PROVE  TypeOK'
<1>1. /\ queue' \in Seq(Ops \cup {TaskOp})
      /\ pq' \in [Runners -> Seq(Ops)]
  <2>1. pq[t] \in Seq(Ops) /\ <<>> \in Seq(Ops)
    BY DEF TypeOK
  <2>2. queue' \in Seq(Ops \cup {TaskOp})
    BY <2>1, ConcatOps DEF WorkPush, TypeOK
  <2>3. QED
    BY <2>1, <2>2, Update DEF WorkPush, TypeOK
<1>2. pc' \in [Procs -> PCs]
  BY DEF TypeOK, WorkPush, PCs, AllModes, vars, sharedVars,
     wakeVars, ctlVars, opVars
<1>3. ret' \in [Procs -> {"out", "exec", "task", "taskpoll", "loop"}]
  BY DEF TypeOK, WorkPush, PCs, AllModes, vars, sharedVars,
     wakeVars, ctlVars, opVars
<1>4. /\ cur' \in [Runners -> Ops \cup {NoOp}]
      /\ arg' \in [Procs -> Ops \cup {NoOp}]
      /\ pw' \in [Runners -> Nat]
      /\ mode' \in [Runners -> AllModes]
  BY DEF TypeOK, WorkPush, PCs, AllModes, vars, sharedVars,
     wakeVars, ctlVars, opVars
<1>5. /\ armed' \in SUBSET Ops /\ unposted' \in SUBSET Ops
      /\ done' \in SUBSET Ops /\ destroyed' \in SUBSET Ops
      /\ guard' \in SUBSET Posters /\ outstanding' \in Int
  BY DEF TypeOK, WorkPush, PCs, AllModes, vars, sharedVars,
     wakeVars, ctlVars, opVars
<1>6. /\ stopped' \in BOOLEAN /\ shut' \in BOOLEAN /\ hasTask' \in BOOLEAN
      /\ taskInterrupted' \in BOOLEAN
      /\ eventSet' \in BOOLEAN /\ interrupter' \in BOOLEAN
      /\ owner' \in Runners \cup {NoProc}
  BY DEF TypeOK, WorkPush, PCs, AllModes, vars, sharedVars,
     wakeVars, ctlVars, opVars
<1>7. QED
  BY <1>1, <1>2, <1>3, <1>4, <1>5, <1>6 DEF TypeOK

LEMMA PostType ==
  ASSUME TypeOK, ControlOK, NEW p \in Procs, NEW o \in Ops, NEW c \in BOOLEAN, Post(p, o, c)
  PROVE  TypeOK'
<1>1. /\ queue' \in Seq(Ops \cup {TaskOp})
      /\ pq' \in [Runners -> Seq(Ops)]
  <2>1. pq' = pq \/ pq' = [pq EXCEPT ![p] = Append(pq[p], o)]
    BY DEF Post
  <2>2. p \in Runners => Append(pq[p], o) \in Seq(Ops)
    BY DEF TypeOK
  <2>3. pq' \in [Runners -> Seq(Ops)]
    BY <2>1, <2>2 DEF TypeOK
  <2>4. QED
    BY <2>3 DEF Post, TypeOK, sharedVars
<1>2. pc' \in [Procs -> PCs]
  <2>1. pc' = pc \/ pc' = [pc EXCEPT ![p] = "push"]
    BY DEF Post, ctlVars
  <2>2. QED
    BY <2>1 DEF TypeOK, PCs
<1>3. ret' \in [Procs -> {"out", "exec", "task", "taskpoll", "loop"}]
  <2>1. ret' = ret \/ ret' = [ret EXCEPT ![p] = pc[p]]
    BY DEF Post, ctlVars
  <2>2. pc[p] \in {"out", "exec"}
    BY DEF Post, CanCall
  <2>3. QED
    BY <2>1, <2>2 DEF TypeOK
<1>4. /\ cur' \in [Runners -> Ops \cup {NoOp}]
      /\ arg' \in [Procs -> Ops \cup {NoOp}]
      /\ pw' \in [Runners -> Nat]
      /\ mode' \in [Runners -> AllModes]
  <2>1. arg' = arg \/ arg' = [arg EXCEPT ![p] = o]
    BY DEF Post
  <2>2. pw' = pw \/ pw' = [pw EXCEPT ![p] = pw[p] + 1]
    BY DEF Post
  <2>3. p \in Runners => pw[p] + 1 \in Nat
    BY DEF TypeOK
  <2>4. pw' \in [Runners -> Nat]
    BY <2>2, <2>3 DEF TypeOK
  <2>5. arg' \in [Procs -> Ops \cup {NoOp}]
    BY <2>1 DEF TypeOK
  <2>6. QED
    BY <2>4, <2>5 DEF TypeOK, Post, ctlVars
<1>5. /\ armed' \in SUBSET Ops /\ unposted' \in SUBSET Ops
      /\ done' \in SUBSET Ops /\ destroyed' \in SUBSET Ops
      /\ guard' \in SUBSET Posters /\ outstanding' \in Int
  BY SchedulerAssumption DEF TypeOK, Post, CanCall, InScheduler,
     SchedulerAssumption, PCs, AllModes, vars, sharedVars,
     wakeVars, ctlVars, opVars
<1>6. /\ stopped' \in BOOLEAN /\ shut' \in BOOLEAN /\ hasTask' \in BOOLEAN
      /\ taskInterrupted' \in BOOLEAN
      /\ eventSet' \in BOOLEAN /\ interrupter' \in BOOLEAN
      /\ owner' \in Runners \cup {NoProc}
  BY SchedulerAssumption DEF TypeOK, Post, CanCall, InScheduler,
     SchedulerAssumption, PCs, AllModes, vars, sharedVars,
     wakeVars, ctlVars, opVars
<1>7. QED
  BY <1>1, <1>2, <1>3, <1>4, <1>5, <1>6 DEF TypeOK

LEMMA PushType ==
  ASSUME TypeOK, ControlOK, NEW p \in Procs, Push(p)
  PROVE  TypeOK'
<1>1. /\ queue' \in Seq(Ops \cup {TaskOp})
      /\ pq' \in [Runners -> Seq(Ops)]
  BY DEF TypeOK, ControlOK, PushOK, Push, WakeOneThreadAndUnlock,
     InterruptTask, PCs, AllModes, vars, sharedVars,
     wakeVars, ctlVars, opVars
<1>2. pc' \in [Procs -> PCs]
  <2>1. ret[p] \in RetPCs /\ hasTask \in BOOLEAN
    BY DEF TypeOK, RetPCs
  <2>2. QED
    BY <2>1, UnlockType DEF Push, TypeOK, RetPCs
<1>3. ret' \in [Procs -> {"out", "exec", "task", "taskpoll", "loop"}]
  BY DEF TypeOK, ControlOK, PushOK, Push, WakeOneThreadAndUnlock,
     InterruptTask, PCs, AllModes, vars, sharedVars,
     wakeVars, ctlVars, opVars
<1>4. /\ cur' \in [Runners -> Ops \cup {NoOp}]
      /\ arg' \in [Procs -> Ops \cup {NoOp}]
      /\ pw' \in [Runners -> Nat]
      /\ mode' \in [Runners -> AllModes]
  BY DEF TypeOK, ControlOK, PushOK, Push, WakeOneThreadAndUnlock,
     InterruptTask, PCs, AllModes, vars, sharedVars,
     wakeVars, ctlVars, opVars
<1>5. /\ armed' \in SUBSET Ops /\ unposted' \in SUBSET Ops
      /\ done' \in SUBSET Ops /\ destroyed' \in SUBSET Ops
      /\ guard' \in SUBSET Posters /\ outstanding' \in Int
  BY DEF TypeOK, ControlOK, PushOK, Push, WakeOneThreadAndUnlock,
     InterruptTask, PCs, AllModes, vars, sharedVars,
     wakeVars, ctlVars, opVars
<1>6. /\ stopped' \in BOOLEAN /\ shut' \in BOOLEAN /\ hasTask' \in BOOLEAN
      /\ taskInterrupted' \in BOOLEAN
      /\ eventSet' \in BOOLEAN /\ interrupter' \in BOOLEAN
      /\ owner' \in Runners \cup {NoProc}
  BY DEF TypeOK, ControlOK, PushOK, Push, WakeOneThreadAndUnlock,
     InterruptTask, PCs, AllModes, vars, sharedVars,
     wakeVars, ctlVars, opVars
<1>7. QED
  BY <1>1, <1>2, <1>3, <1>4, <1>5, <1>6 DEF TypeOK

LEMMA StartIoType ==
  ASSUME TypeOK, ControlOK, NEW p \in Procs, NEW o \in Ops, StartIo(p, o)
  PROVE  TypeOK'
BY DEF TypeOK, StartIo, CanCall, PCs, AllModes, vars, sharedVars,
   wakeVars, ctlVars, opVars

LEMMA CancelIoType ==
  ASSUME TypeOK, ControlOK, NEW p \in Procs, NEW o \in Ops, CancelIo(p, o)
  PROVE  TypeOK'
<1>1. /\ queue' \in Seq(Ops \cup {TaskOp})
      /\ pq' \in [Runners -> Seq(Ops)]
  <2>1. pq' = pq \/ pq' = [pq EXCEPT ![p] = Append(pq[p], o)]
    BY DEF CancelIo
  <2>2. p \in Runners => Append(pq[p], o) \in Seq(Ops)
    BY DEF TypeOK
  <2>3. pq' \in [Runners -> Seq(Ops)]
    BY <2>1, <2>2 DEF TypeOK
  <2>4. QED
    BY <2>3 DEF CancelIo, TypeOK, sharedVars
<1>2. pc' \in [Procs -> PCs]
  BY SchedulerAssumption DEF TypeOK, CancelIo, CanCall, InScheduler,
     SchedulerAssumption, PCs, AllModes, vars, sharedVars,
     wakeVars, ctlVars, opVars
<1>3. ret' \in [Procs -> {"out", "exec", "task", "taskpoll", "loop"}]
  BY SchedulerAssumption DEF TypeOK, CancelIo, CanCall, InScheduler,
     SchedulerAssumption, PCs, AllModes, vars, sharedVars,
     wakeVars, ctlVars, opVars
<1>4. /\ cur' \in [Runners -> Ops \cup {NoOp}]
      /\ arg' \in [Procs -> Ops \cup {NoOp}]
      /\ pw' \in [Runners -> Nat]
      /\ mode' \in [Runners -> AllModes]
  <2>1. arg' = arg \/ arg' = [arg EXCEPT ![p] = o]
    BY DEF CancelIo
  <2>2. arg' \in [Procs -> Ops \cup {NoOp}]
    BY <2>1 DEF TypeOK
  <2>3. QED
    BY <2>2 DEF TypeOK, CancelIo, ctlVars
<1>5. /\ armed' \in SUBSET Ops /\ unposted' \in SUBSET Ops
      /\ done' \in SUBSET Ops /\ destroyed' \in SUBSET Ops
      /\ guard' \in SUBSET Posters /\ outstanding' \in Int
  BY SchedulerAssumption DEF TypeOK, CancelIo, CanCall, InScheduler,
     SchedulerAssumption, PCs, AllModes, vars, sharedVars,
     wakeVars, ctlVars, opVars
<1>6. /\ stopped' \in BOOLEAN /\ shut' \in BOOLEAN /\ hasTask' \in BOOLEAN
      /\ taskInterrupted' \in BOOLEAN
      /\ eventSet' \in BOOLEAN /\ interrupter' \in BOOLEAN
      /\ owner' \in Runners \cup {NoProc}
  BY SchedulerAssumption DEF TypeOK, CancelIo, CanCall, InScheduler,
     SchedulerAssumption, PCs, AllModes, vars, sharedVars,
     wakeVars, ctlVars, opVars
<1>7. QED
  BY <1>1, <1>2, <1>3, <1>4, <1>5, <1>6 DEF TypeOK

LEMMA InitTaskType ==
  ASSUME TypeOK, ControlOK, NEW p \in Procs, InitTask(p)
  PROVE  TypeOK'
<1>1. /\ queue' \in Seq(Ops \cup {TaskOp})
      /\ pq' \in [Runners -> Seq(Ops)]
  BY DEF TypeOK, InitTask, CanCall, NeedsTask, WakeOneThreadAndUnlock,
     InterruptTask, PCs, AllModes, vars, sharedVars,
     wakeVars, ctlVars, opVars
<1>2. pc' \in [Procs -> PCs]
  <2>1. pc[p] \in RetPCs
    BY DEF InitTask, CanCall, RetPCs
  <2>2. QED
    BY <2>1, UnlockType DEF InitTask, TypeOK, RetPCs
<1>3. ret' \in [Procs -> {"out", "exec", "task", "taskpoll", "loop"}]
  BY DEF TypeOK, InitTask, CanCall, NeedsTask, WakeOneThreadAndUnlock,
     InterruptTask, PCs, AllModes, vars, sharedVars,
     wakeVars, ctlVars, opVars
<1>4. /\ cur' \in [Runners -> Ops \cup {NoOp}]
      /\ arg' \in [Procs -> Ops \cup {NoOp}]
      /\ pw' \in [Runners -> Nat]
      /\ mode' \in [Runners -> AllModes]
  BY DEF TypeOK, InitTask, CanCall, NeedsTask, WakeOneThreadAndUnlock,
     InterruptTask, PCs, AllModes, vars, sharedVars,
     wakeVars, ctlVars, opVars
<1>5. /\ armed' \in SUBSET Ops /\ unposted' \in SUBSET Ops
      /\ done' \in SUBSET Ops /\ destroyed' \in SUBSET Ops
      /\ guard' \in SUBSET Posters /\ outstanding' \in Int
  BY DEF TypeOK, InitTask, CanCall, NeedsTask, WakeOneThreadAndUnlock,
     InterruptTask, PCs, AllModes, vars, sharedVars,
     wakeVars, ctlVars, opVars
<1>6. /\ stopped' \in BOOLEAN /\ shut' \in BOOLEAN /\ hasTask' \in BOOLEAN
      /\ taskInterrupted' \in BOOLEAN
      /\ eventSet' \in BOOLEAN /\ interrupter' \in BOOLEAN
      /\ owner' \in Runners \cup {NoProc}
  BY DEF TypeOK, InitTask, CanCall, NeedsTask, WakeOneThreadAndUnlock,
     InterruptTask, PCs, AllModes, vars, sharedVars,
     wakeVars, ctlVars, opVars
<1>7. QED
  BY <1>1, <1>2, <1>3, <1>4, <1>5, <1>6 DEF TypeOK

LEMMA StopCallType ==
  ASSUME TypeOK, ControlOK, NEW p \in Procs, StopCall(p)
  PROVE  TypeOK'
BY DEF TypeOK, StopCall, CanCall, StopAllThreads, InterruptTask, PCs,
   AllModes, vars, sharedVars,
   wakeVars, ctlVars, opVars

LEMMA RestartType ==
  ASSUME TypeOK, ControlOK, NEW p \in Procs, Restart(p)
  PROVE  TypeOK'
BY DEF TypeOK, Restart, CanCall, PCs, AllModes, vars, sharedVars,
   wakeVars, ctlVars, opVars

LEMMA AcquireGuardType ==
  ASSUME TypeOK, ControlOK, NEW p \in Procs, AcquireGuard(p)
  PROVE  TypeOK'
BY DEF TypeOK, AcquireGuard, CanCall, PCs, AllModes, vars, sharedVars,
   wakeVars, ctlVars, opVars

LEMMA ReleaseGuardType ==
  ASSUME TypeOK, ControlOK, NEW p \in Procs, ReleaseGuard(p)
  PROVE  TypeOK'
<1>1. /\ queue' \in Seq(Ops \cup {TaskOp})
      /\ pq' \in [Runners -> Seq(Ops)]
  BY DEF TypeOK, ReleaseGuard, CanCall, PCs, AllModes, vars, sharedVars,
     wakeVars, ctlVars, opVars
<1>2. pc' \in [Procs -> PCs]
  <2>1. pc' = pc \/ pc' = [pc EXCEPT ![p] = "stop"]
    BY DEF ReleaseGuard
  <2>2. QED
    BY <2>1 DEF TypeOK, PCs
<1>3. ret' \in [Procs -> {"out", "exec", "task", "taskpoll", "loop"}]
  BY DEF TypeOK, ReleaseGuard, CanCall, PCs, AllModes, vars, sharedVars,
     wakeVars, ctlVars, opVars
<1>4. /\ cur' \in [Runners -> Ops \cup {NoOp}]
      /\ arg' \in [Procs -> Ops \cup {NoOp}]
      /\ pw' \in [Runners -> Nat]
      /\ mode' \in [Runners -> AllModes]
  BY DEF TypeOK, ReleaseGuard, CanCall, PCs, AllModes, vars, sharedVars,
     wakeVars, ctlVars, opVars
<1>5. /\ armed' \in SUBSET Ops /\ unposted' \in SUBSET Ops
      /\ done' \in SUBSET Ops /\ destroyed' \in SUBSET Ops
      /\ guard' \in SUBSET Posters /\ outstanding' \in Int
  BY DEF TypeOK, ReleaseGuard, CanCall, PCs, AllModes, vars, sharedVars,
     wakeVars, ctlVars, opVars
<1>6. /\ stopped' \in BOOLEAN /\ shut' \in BOOLEAN /\ hasTask' \in BOOLEAN
      /\ taskInterrupted' \in BOOLEAN
      /\ eventSet' \in BOOLEAN /\ interrupter' \in BOOLEAN
      /\ owner' \in Runners \cup {NoProc}
  BY DEF TypeOK, ReleaseGuard, CanCall, PCs, AllModes, vars, sharedVars,
     wakeVars, ctlVars, opVars
<1>7. QED
  BY <1>1, <1>2, <1>3, <1>4, <1>5, <1>6 DEF TypeOK

LEMMA BeginShutdownType ==
  ASSUME TypeOK, ControlOK, NEW p \in Procs, BeginShutdown(p)
  PROVE  TypeOK'
<1>1. /\ queue' \in Seq(Ops \cup {TaskOp})
      /\ pq' \in [Runners -> Seq(Ops)]
  BY DEF TypeOK, BeginShutdown, CanCall, StopAllThreads, InterruptTask, PCs,
     AllModes, vars, sharedVars,
     wakeVars, ctlVars, opVars
<1>2. pc' \in [Procs -> PCs]
  <2>1. "join" \in PCs /\ "woken" \in PCs
    BY DEF PCs
  <2>2. CASE pc' = [pc EXCEPT ![p] = "join"]
    BY <2>1, <2>2 DEF TypeOK
  <2>3. CASE StopAllThreads(p, "join")
    BY <2>1, <2>3 DEF TypeOK, StopAllThreads
  <2>4. QED
    BY <2>2, <2>3 DEF BeginShutdown
<1>3. ret' \in [Procs -> {"out", "exec", "task", "taskpoll", "loop"}]
  BY DEF TypeOK, BeginShutdown, CanCall, StopAllThreads, InterruptTask, PCs,
     AllModes, vars, sharedVars,
     wakeVars, ctlVars, opVars
<1>4. /\ cur' \in [Runners -> Ops \cup {NoOp}]
      /\ arg' \in [Procs -> Ops \cup {NoOp}]
      /\ pw' \in [Runners -> Nat]
      /\ mode' \in [Runners -> AllModes]
  BY DEF TypeOK, BeginShutdown, CanCall, StopAllThreads, InterruptTask, PCs,
     AllModes, vars, sharedVars,
     wakeVars, ctlVars, opVars
<1>5. /\ armed' \in SUBSET Ops /\ unposted' \in SUBSET Ops
      /\ done' \in SUBSET Ops /\ destroyed' \in SUBSET Ops
      /\ guard' \in SUBSET Posters /\ outstanding' \in Int
  BY DEF TypeOK, BeginShutdown, CanCall, StopAllThreads, InterruptTask, PCs,
     AllModes, vars, sharedVars,
     wakeVars, ctlVars, opVars
<1>6. /\ stopped' \in BOOLEAN /\ shut' \in BOOLEAN /\ hasTask' \in BOOLEAN
      /\ taskInterrupted' \in BOOLEAN
      /\ eventSet' \in BOOLEAN /\ interrupter' \in BOOLEAN
      /\ owner' \in Runners \cup {NoProc}
  BY DEF TypeOK, BeginShutdown, CanCall, StopAllThreads, InterruptTask, PCs,
     AllModes, vars, sharedVars,
     wakeVars, ctlVars, opVars
<1>7. QED
  BY <1>1, <1>2, <1>3, <1>4, <1>5, <1>6 DEF TypeOK

LEMMA FinishShutdownType ==
  ASSUME TypeOK, ControlOK, NEW p \in Procs, FinishShutdown(p)
  PROVE  TypeOK'
<1>1. /\ queue' \in Seq(Ops \cup {TaskOp})
      /\ pq' \in [Runners -> Seq(Ops)]
  BY DEF TypeOK, FinishShutdown, ReadyOps, PCs, AllModes, vars, sharedVars,
     wakeVars, ctlVars, opVars
<1>2. pc' \in [Procs -> PCs]
  BY DEF TypeOK, FinishShutdown, ReadyOps, PCs, AllModes, vars, sharedVars,
     wakeVars, ctlVars, opVars
<1>3. ret' \in [Procs -> {"out", "exec", "task", "taskpoll", "loop"}]
  BY DEF TypeOK, FinishShutdown, ReadyOps, PCs, AllModes, vars, sharedVars,
     wakeVars, ctlVars, opVars
<1>4. /\ cur' \in [Runners -> Ops \cup {NoOp}]
      /\ arg' \in [Procs -> Ops \cup {NoOp}]
      /\ pw' \in [Runners -> Nat]
      /\ mode' \in [Runners -> AllModes]
  BY DEF TypeOK, FinishShutdown, ReadyOps, PCs, AllModes, vars, sharedVars,
     wakeVars, ctlVars, opVars
<1>5. /\ armed' \in SUBSET Ops /\ unposted' \in SUBSET Ops
      /\ done' \in SUBSET Ops /\ destroyed' \in SUBSET Ops
      /\ guard' \in SUBSET Posters /\ outstanding' \in Int
  BY DEF TypeOK, FinishShutdown, ReadyOps, PCs, AllModes, vars, sharedVars,
     wakeVars, ctlVars, opVars
<1>6. /\ stopped' \in BOOLEAN /\ shut' \in BOOLEAN /\ hasTask' \in BOOLEAN
      /\ taskInterrupted' \in BOOLEAN
      /\ eventSet' \in BOOLEAN /\ interrupter' \in BOOLEAN
      /\ owner' \in Runners \cup {NoProc}
  BY DEF TypeOK, FinishShutdown, ReadyOps, PCs, AllModes, vars, sharedVars,
     wakeVars, ctlVars, opVars
<1>7. QED
  BY <1>1, <1>2, <1>3, <1>4, <1>5, <1>6 DEF TypeOK

----------------------------------------------------------------------------
(* Each action preserves the control invariant, ShutOK, and the one place of
   the task. *)

\* An action that moves no task.
LEMMA TaskStays ==
  ASSUME TaskInOnePlace,
         AtMostOnce(TaskOp, queue) => AtMostOnce(TaskOp, queue'),
         Queued(TaskOp, queue') <=> Queued(TaskOp, queue),
         hasTask' = hasTask,
         \A p \in Procs : HasTask(p)' <=> HasTask(p)
  PROVE  TaskInOnePlace'
BY DEF TaskInOnePlace

LEMMA EnterControl ==
  ASSUME IInv, NEW t \in Runners, NEW m \in Modes, Enter(t, m)
  PROVE  ControlOK' /\ ShutOK' /\ TaskInOnePlace'
<1>1. TypeOK /\ ControlOK /\ ShutOK /\ TaskInOnePlace
  BY DEF IInv
<1>2. ControlOK'
  <2>1. /\ pc[t] = "out" /\ cur' = cur /\ arg' = arg
        /\ \/ pc' = [pc EXCEPT ![t] = "stop"] /\ ret' = [ret EXCEPT ![t] = "out"]
           \/ pc' = [pc EXCEPT ![t] = "loop"] /\ ret' = ret
    BY DEF Enter, opVars
  <2>2. PushOK' /\ CallOK' /\ CleanOK'
    BY <1>1, <2>1 DEF TypeOK, ControlOK, PushOK, CallOK, CleanOK
  <2>3. HandlerOK'
    BY <1>1, <2>1 DEF TypeOK, ControlOK, HandlerOK, InHandler
  <2>4. QED
    BY <2>2, <2>3 DEF ControlOK
<1>3. ShutOK'
  BY <1>1, SchedulerAssumption DEF SchedulerAssumption, ShutOK, JoinOK,
     TypeOK, Enter, vars, sharedVars,
     wakeVars, ctlVars, opVars
<1>4. \A r \in Procs : HasTask(r)' <=> HasTask(r)
  BY <1>1 DEF HasTask, TaskPCs, TypeOK, ControlOK, CallOK, CleanOK,
     Enter, vars, sharedVars,
     wakeVars, ctlVars, opVars
<1>5. /\ AtMostOnce(TaskOp, queue) => AtMostOnce(TaskOp, queue')
      /\ Queued(TaskOp, queue') <=> Queued(TaskOp, queue)
      /\ hasTask' = hasTask
  BY <1>1 DEF AtMostOnce, Queued, TypeOK, ControlOK, PushOK, CallOK, CleanOK,
     HandlerOK,
     InHandler, Enter, vars, sharedVars,
     wakeVars, ctlVars, opVars
<1>6. QED
  BY <1>1, <1>2, <1>3, <1>4, <1>5, TaskStays

LEMMA LeaveStoppedControl ==
  ASSUME IInv, NEW t \in Runners, LeaveStopped(t)
  PROVE  ControlOK' /\ ShutOK' /\ TaskInOnePlace'
<1>1. TypeOK /\ ControlOK /\ ShutOK /\ TaskInOnePlace
  BY DEF IInv
<1>2. ControlOK'
  BY <1>1, SchedulerAssumption DEF SchedulerAssumption, TypeOK, ControlOK,
     PushOK, CallOK, CleanOK, HandlerOK,
     InHandler, LeaveStopped, UnlockAndGo, vars, sharedVars,
     wakeVars, ctlVars, opVars
<1>3. ShutOK'
  BY <1>1, SchedulerAssumption DEF SchedulerAssumption, ShutOK, JoinOK,
     TypeOK, LeaveStopped, UnlockAndGo, vars, sharedVars,
     wakeVars, ctlVars, opVars
<1>4. \A r \in Procs : HasTask(r)' <=> HasTask(r)
  BY <1>1 DEF HasTask, TaskPCs, TypeOK, ControlOK, CallOK, CleanOK,
     LeaveStopped, UnlockAndGo, vars, sharedVars,
     wakeVars, ctlVars, opVars
<1>5. /\ AtMostOnce(TaskOp, queue) => AtMostOnce(TaskOp, queue')
      /\ Queued(TaskOp, queue') <=> Queued(TaskOp, queue)
      /\ hasTask' = hasTask
  BY <1>1 DEF AtMostOnce, Queued, TypeOK, ControlOK, PushOK, CallOK, CleanOK,
     HandlerOK,
     InHandler, LeaveStopped, UnlockAndGo, vars, sharedVars,
     wakeVars, ctlVars, opVars
<1>6. QED
  BY <1>1, <1>2, <1>3, <1>4, <1>5, TaskStays

LEMMA FindNothingControl ==
  ASSUME IInv, NEW t \in Runners, FindNothing(t)
  PROVE  ControlOK' /\ ShutOK' /\ TaskInOnePlace'
<1>1. TypeOK /\ ControlOK /\ ShutOK /\ TaskInOnePlace
  BY DEF IInv
<1>2. ControlOK'
  BY <1>1, SchedulerAssumption DEF SchedulerAssumption, TypeOK, ControlOK,
     PushOK, CallOK, CleanOK, HandlerOK,
     InHandler, FindNothing, vars, sharedVars,
     wakeVars, ctlVars, opVars
<1>3. ShutOK'
  BY <1>1, SchedulerAssumption DEF SchedulerAssumption, ShutOK, JoinOK,
     TypeOK, FindNothing, vars, sharedVars,
     wakeVars, ctlVars, opVars
<1>4. \A r \in Procs : HasTask(r)' <=> HasTask(r)
  BY <1>1 DEF HasTask, TaskPCs, TypeOK, ControlOK, CallOK, CleanOK,
     FindNothing, vars, sharedVars,
     wakeVars, ctlVars, opVars
<1>5. /\ AtMostOnce(TaskOp, queue) => AtMostOnce(TaskOp, queue')
      /\ Queued(TaskOp, queue') <=> Queued(TaskOp, queue)
      /\ hasTask' = hasTask
  BY <1>1 DEF AtMostOnce, Queued, TypeOK, ControlOK, PushOK, CallOK, CleanOK,
     HandlerOK,
     InHandler, FindNothing, vars, sharedVars,
     wakeVars, ctlVars, opVars
<1>6. QED
  BY <1>1, <1>2, <1>3, <1>4, <1>5, TaskStays

LEMMA WakeUpControl ==
  ASSUME IInv, NEW t \in Runners, WakeUp(t)
  PROVE  ControlOK' /\ ShutOK' /\ TaskInOnePlace'
<1>1. TypeOK /\ ControlOK /\ ShutOK /\ TaskInOnePlace
  BY DEF IInv
<1>2. ControlOK'
  BY <1>1, SchedulerAssumption DEF SchedulerAssumption, TypeOK, ControlOK,
     PushOK, CallOK, CleanOK, HandlerOK,
     InHandler, WakeUp, vars, sharedVars,
     wakeVars, ctlVars, opVars
<1>3. ShutOK'
  BY <1>1, SchedulerAssumption DEF SchedulerAssumption, ShutOK, JoinOK,
     TypeOK, WakeUp, vars, sharedVars,
     wakeVars, ctlVars, opVars
<1>4. \A r \in Procs : HasTask(r)' <=> HasTask(r)
  BY <1>1 DEF HasTask, TaskPCs, TypeOK, ControlOK, CallOK, CleanOK,
     WakeUp, vars, sharedVars,
     wakeVars, ctlVars, opVars
<1>5. /\ AtMostOnce(TaskOp, queue) => AtMostOnce(TaskOp, queue')
      /\ Queued(TaskOp, queue') <=> Queued(TaskOp, queue)
      /\ hasTask' = hasTask
  BY <1>1 DEF AtMostOnce, Queued, TypeOK, ControlOK, PushOK, CallOK, CleanOK,
     HandlerOK,
     InHandler, WakeUp, vars, sharedVars,
     wakeVars, ctlVars, opVars
<1>6. QED
  BY <1>1, <1>2, <1>3, <1>4, <1>5, TaskStays

LEMMA ReacquireControl ==
  ASSUME IInv, NEW t \in Runners, Reacquire(t)
  PROVE  ControlOK' /\ ShutOK' /\ TaskInOnePlace'
<1>1. TypeOK /\ ControlOK /\ ShutOK /\ TaskInOnePlace
  BY DEF IInv
<1>2. ControlOK'
  BY <1>1, SchedulerAssumption DEF SchedulerAssumption, TypeOK, ControlOK,
     PushOK, CallOK, CleanOK, HandlerOK,
     InHandler, Reacquire, vars, sharedVars,
     wakeVars, ctlVars, opVars
<1>3. ShutOK'
  BY <1>1, SchedulerAssumption DEF SchedulerAssumption, ShutOK, JoinOK,
     TypeOK, Reacquire, vars, sharedVars,
     wakeVars, ctlVars, opVars
<1>4. \A r \in Procs : HasTask(r)' <=> HasTask(r)
  BY <1>1 DEF HasTask, TaskPCs, TypeOK, ControlOK, CallOK, CleanOK,
     Reacquire, vars, sharedVars,
     wakeVars, ctlVars, opVars
<1>5. /\ AtMostOnce(TaskOp, queue) => AtMostOnce(TaskOp, queue')
      /\ Queued(TaskOp, queue') <=> Queued(TaskOp, queue)
      /\ hasTask' = hasTask
  BY <1>1 DEF AtMostOnce, Queued, TypeOK, ControlOK, PushOK, CallOK, CleanOK,
     HandlerOK,
     InHandler, Reacquire, vars, sharedVars,
     wakeVars, ctlVars, opVars
<1>6. QED
  BY <1>1, <1>2, <1>3, <1>4, <1>5, TaskStays

LEMMA SignalControl ==
  ASSUME IInv, NEW p \in Procs, Signal(p)
  PROVE  ControlOK' /\ ShutOK' /\ TaskInOnePlace'
<1>1. TypeOK /\ ControlOK /\ ShutOK /\ TaskInOnePlace
  BY DEF IInv
<1>2. /\ pc[p] = "signal" /\ pc'[p] = ret[p]
      /\ \A r \in Procs \ {p} : \/ pc'[r] = pc[r]
                                \/ pc[r] = "wait" /\ pc'[r] = "woken"
  BY <1>1 DEF TypeOK, Signal
<1>3. /\ ret' = ret /\ cur' = cur /\ arg' = arg /\ shut' = shut
      /\ queue' = queue /\ hasTask' = hasTask
  BY DEF Signal, sharedVars, opVars
<1>4. ret[p] \in RetPCs
  BY <1>1 DEF TypeOK, RetPCs
<1>5. PushOK' /\ CallOK' /\ CleanOK'
  BY <1>1, <1>2, <1>3, <1>4 DEF ControlOK, PushOK, CallOK, CleanOK, RetPCs
<1>6. HandlerOK'
  BY <1>1, <1>2, <1>3, <1>4 DEF ControlOK, HandlerOK, InHandler, RetPCs
<1>7. ShutOK'
  <2>1. JoinOK'
    BY <1>1, <1>2, <1>3, <1>4 DEF ShutOK, JoinOK, RetPCs
  <2>2. ASSUME shut, NEW r \in Procs \ OwnThread
        PROVE  pc'[r] \in {"out", "join", "end"}
    BY <1>1, <1>2, <2>2 DEF ShutOK
  <2>3. QED
    BY <1>3, <2>1, <2>2 DEF ShutOK
<1>8. \A r \in Procs : HasTask(r)' <=> HasTask(r)
  BY <1>1, <1>2, <1>3, <1>4 DEF HasTask, TaskPCs, RetPCs
<1>9. QED
  BY <1>1, <1>3, <1>5, <1>6, <1>7, <1>8, TaskStays DEF ControlOK

LEMMA StopControl ==
  ASSUME IInv, NEW p \in Procs, Stop(p)
  PROVE  ControlOK' /\ ShutOK' /\ TaskInOnePlace'
<1>1. TypeOK /\ ControlOK /\ ShutOK /\ TaskInOnePlace
  BY DEF IInv
<1>2. ControlOK'
  BY <1>1, SchedulerAssumption DEF SchedulerAssumption, TypeOK, ControlOK,
     PushOK, CallOK, CleanOK, HandlerOK,
     InHandler, Stop, StopAllThreads, InterruptTask, vars, sharedVars,
     wakeVars, ctlVars, opVars
<1>3. ShutOK'
  BY <1>1, SchedulerAssumption DEF SchedulerAssumption, ShutOK, JoinOK,
     TypeOK, Stop, StopAllThreads, InterruptTask, vars, sharedVars,
     wakeVars, ctlVars, opVars
<1>4. \A r \in Procs : HasTask(r)' <=> HasTask(r)
  BY <1>1 DEF HasTask, TaskPCs, TypeOK, ControlOK, CallOK, CleanOK,
     Stop, StopAllThreads, InterruptTask, vars, sharedVars,
     wakeVars, ctlVars, opVars
<1>5. /\ AtMostOnce(TaskOp, queue) => AtMostOnce(TaskOp, queue')
      /\ Queued(TaskOp, queue') <=> Queued(TaskOp, queue)
      /\ hasTask' = hasTask
  BY <1>1 DEF AtMostOnce, Queued, TypeOK, ControlOK, PushOK, CallOK, CleanOK,
     HandlerOK,
     InHandler, Stop, StopAllThreads, InterruptTask, vars, sharedVars,
     wakeVars, ctlVars, opVars
<1>6. QED
  BY <1>1, <1>2, <1>3, <1>4, <1>5, TaskStays

LEMMA TakeTaskControl ==
  ASSUME IInv, NEW t \in Runners, TakeTask(t)
  PROVE  ControlOK' /\ ShutOK' /\ TaskInOnePlace'
<1>1. TypeOK /\ ControlOK /\ ShutOK /\ TaskInOnePlace
  BY DEF IInv
<1>2. ControlOK'
  <2>1. /\ pc[t] \in {"loop", "loop2"} /\ arg' = arg /\ cur' = cur
        /\ \E next \in {"task", "taskpoll"} :
             \/ pc' = [pc EXCEPT ![t] = "signal"] /\ ret' = [ret EXCEPT ![t] = next]
             \/ pc' = [pc EXCEPT ![t] = next] /\ ret' = ret
    BY DEF TakeTask, AtFront, SignalOneAndUnlock, UnlockAndGo, opVars
  <2>2. PushOK' /\ CallOK' /\ CleanOK'
    BY <1>1, <2>1 DEF TypeOK, ControlOK, PushOK, CallOK, CleanOK
  <2>3. HandlerOK'
    BY <1>1, <2>1 DEF TypeOK, ControlOK, HandlerOK, InHandler
  <2>4. QED
    BY <2>2, <2>3 DEF ControlOK
<1>3. ShutOK'
  BY <1>1, SchedulerAssumption DEF SchedulerAssumption, ShutOK, JoinOK,
     TypeOK, TakeTask, AtFront, SignalOneAndUnlock, UnlockAndGo, vars,
     sharedVars,
     wakeVars, ctlVars, opVars
<1>4. TaskInOnePlace'
  <2>1. /\ Queued(TaskOp, queue) /\ AtMostOnce(TaskOp, queue)
        /\ ~Queued(TaskOp, queue') /\ AtMostOnce(TaskOp, queue')
        /\ hasTask' = hasTask
    BY <1>1, TailOfQueue DEF TakeTask, AtFront, TypeOK, TaskInOnePlace
  <2>2. \A r \in Procs : ~HasTask(r)
    BY <1>1, <2>1 DEF TaskInOnePlace
  <2>3. \A r \in Procs : HasTask(r)' <=> r = t
    BY <1>1, <2>2 DEF TakeTask, AtFront, SignalOneAndUnlock, UnlockAndGo,
       HasTask, TaskPCs, TypeOK
  <2>4. QED
    BY <1>1, <2>1, <2>3 DEF TaskInOnePlace
<1>5. QED
  BY <1>2, <1>3, <1>4

LEMMA TakeOpControl ==
  ASSUME IInv, NEW t \in Runners, TakeOp(t)
  PROVE  ControlOK' /\ ShutOK' /\ TaskInOnePlace'
<1>1. TypeOK /\ ControlOK /\ ShutOK /\ TaskInOnePlace
  BY DEF IInv
<1>2. ControlOK'
  <2>1. /\ pc[t] \in {"loop", "loop2", "loop3"} /\ arg' = arg
        /\ cur' = [cur EXCEPT ![t] = Head(queue)]
        /\ Head(queue) \in Ops
        /\ \/ pc' = [pc EXCEPT ![t] = "signal"] /\ ret' = [ret EXCEPT ![t] = "exec"]
           \/ pc' = [pc EXCEPT ![t] = "exec"] /\ ret' = ret
    BY <1>1, TailOfQueue DEF TypeOK, TakeOp, AtFront, IsOperation, UnlockAndGo,
       WakeOneThreadAndUnlock
  <2>2. PushOK' /\ CallOK' /\ CleanOK'
    BY <1>1, <2>1 DEF TypeOK, ControlOK, PushOK, CallOK, CleanOK
  <2>3. HandlerOK'
    BY <1>1, <2>1, SchedulerAssumption DEF SchedulerAssumption, TypeOK,
       ControlOK,
       HandlerOK, InHandler
  <2>4. QED
    BY <2>2, <2>3 DEF ControlOK
<1>3. ShutOK'
  BY <1>1, SchedulerAssumption DEF SchedulerAssumption, ShutOK, JoinOK,
     TypeOK, TakeOp, AtFront, IsOperation, WakeOneThreadAndUnlock,
     InterruptTask, UnlockAndGo, vars, sharedVars,
     wakeVars, ctlVars, opVars
<1>4. \A r \in Procs : HasTask(r)' <=> HasTask(r)
  BY <1>1 DEF HasTask, TaskPCs, TypeOK, ControlOK, CallOK, CleanOK,
     TakeOp, AtFront, IsOperation, WakeOneThreadAndUnlock, InterruptTask,
     UnlockAndGo, vars, sharedVars,
     wakeVars, ctlVars, opVars
<1>5. /\ AtMostOnce(TaskOp, queue) => AtMostOnce(TaskOp, queue')
      /\ Queued(TaskOp, queue') <=> Queued(TaskOp, queue)
      /\ hasTask' = hasTask
  BY <1>1, TailOfQueue DEF TakeOp, AtFront, IsOperation, TypeOK
<1>6. QED
  BY <1>1, <1>2, <1>3, <1>4, <1>5, TaskStays

LEMMA PassTaskOnControl ==
  ASSUME IInv, NEW t \in Runners, PassTaskOn(t)
  PROVE  ControlOK' /\ ShutOK' /\ TaskInOnePlace'
<1>1. TypeOK /\ ControlOK /\ ShutOK /\ TaskInOnePlace
  BY DEF IInv
<1>2. ControlOK'
  <2>1. PushOK'
    BY <1>1, SchedulerAssumption DEF SchedulerAssumption, TypeOK, ControlOK,
       PushOK, PassTaskOn, SignalOneAndUnlock, UnlockAndGo, vars, sharedVars,
       wakeVars, ctlVars, opVars
  <2>2. CallOK'
    BY <1>1, SchedulerAssumption DEF SchedulerAssumption, TypeOK, ControlOK,
       CallOK, PassTaskOn, SignalOneAndUnlock, UnlockAndGo, vars, sharedVars,
       wakeVars, ctlVars, opVars
  <2>2a. CleanOK'
    BY <1>1, SchedulerAssumption DEF SchedulerAssumption, TypeOK, ControlOK,
       CleanOK, PassTaskOn, SignalOneAndUnlock, UnlockAndGo, vars, sharedVars,
       wakeVars, ctlVars, opVars
  <2>3. HandlerOK'
    BY <1>1, SchedulerAssumption DEF SchedulerAssumption, TypeOK, ControlOK,
       CallOK, HandlerOK,
       InHandler, PassTaskOn, SignalOneAndUnlock, UnlockAndGo, vars, sharedVars,
       wakeVars, ctlVars, opVars
  <2>4. QED
    BY <2>1, <2>2, <2>2a, <2>3 DEF ControlOK
<1>3. ShutOK'
  BY <1>1, SchedulerAssumption DEF SchedulerAssumption, ShutOK, JoinOK,
     TypeOK, PassTaskOn, SignalOneAndUnlock, UnlockAndGo, vars, sharedVars,
     wakeVars, ctlVars, opVars
<1>4. \A r \in Procs : HasTask(r)' <=> HasTask(r)
  BY <1>1 DEF HasTask, TaskPCs, TypeOK, ControlOK, CallOK, CleanOK,
     PassTaskOn, SignalOneAndUnlock, UnlockAndGo, vars, sharedVars,
     wakeVars, ctlVars, opVars
<1>5. /\ AtMostOnce(TaskOp, queue) => AtMostOnce(TaskOp, queue')
      /\ Queued(TaskOp, queue') <=> Queued(TaskOp, queue)
      /\ hasTask' = hasTask
  BY <1>1 DEF AtMostOnce, Queued, TypeOK, ControlOK, PushOK, CallOK, CleanOK,
     HandlerOK,
     InHandler, PassTaskOn, SignalOneAndUnlock, UnlockAndGo, vars, sharedVars,
     wakeVars, ctlVars, opVars
<1>6. QED
  BY <1>1, <1>2, <1>3, <1>4, <1>5, TaskStays

LEMMA TaskReturnControl ==
  ASSUME IInv, NEW t \in Runners, NEW q, TaskReturn(t, q)
  PROVE  ControlOK' /\ ShutOK' /\ TaskInOnePlace'
<1>1. TypeOK /\ ControlOK /\ ShutOK /\ TaskInOnePlace
  BY DEF IInv
<1>2. ControlOK'
  BY <1>1, SchedulerAssumption DEF SchedulerAssumption, TypeOK, ControlOK,
     PushOK, CallOK, CleanOK, HandlerOK,
     InHandler, TaskReturn, StillArmed, vars, sharedVars,
     wakeVars, ctlVars, opVars
<1>3. ShutOK'
  BY <1>1, SchedulerAssumption DEF SchedulerAssumption, ShutOK, JoinOK,
     TypeOK, TaskReturn, StillArmed, vars, sharedVars,
     wakeVars, ctlVars, opVars
<1>4. \A r \in Procs : HasTask(r)' <=> HasTask(r)
  BY <1>1 DEF HasTask, TaskPCs, TypeOK, ControlOK, CallOK, CleanOK,
     TaskReturn, StillArmed, vars, sharedVars,
     wakeVars, ctlVars, opVars
<1>5. /\ AtMostOnce(TaskOp, queue) => AtMostOnce(TaskOp, queue')
      /\ Queued(TaskOp, queue') <=> Queued(TaskOp, queue)
      /\ hasTask' = hasTask
  BY <1>1 DEF AtMostOnce, Queued, TypeOK, ControlOK, PushOK, CallOK, CleanOK,
     HandlerOK,
     InHandler, TaskReturn, StillArmed, vars, sharedVars,
     wakeVars, ctlVars, opVars
<1>6. QED
  BY <1>1, <1>2, <1>3, <1>4, <1>5, TaskStays

LEMMA TaskCleanupControl ==
  ASSUME IInv, NEW t \in Runners, TaskCleanup(t)
  PROVE  ControlOK' /\ ShutOK' /\ TaskInOnePlace'
<1>1. TypeOK /\ ControlOK /\ ShutOK /\ TaskInOnePlace
  BY DEF IInv
<1>2. ControlOK'
  BY <1>1, SchedulerAssumption DEF SchedulerAssumption, TypeOK, ControlOK,
     PushOK, CallOK, CleanOK, HandlerOK,
     InHandler, TaskCleanup, vars, sharedVars,
     wakeVars, ctlVars, opVars
<1>3. ShutOK'
  BY <1>1, SchedulerAssumption DEF SchedulerAssumption, ShutOK, JoinOK,
     TypeOK, TaskCleanup, vars, sharedVars,
     wakeVars, ctlVars, opVars
<1>4. TaskInOnePlace'
  BY <1>1, TailOfQueue, ConcatOps, AppendTask DEF TaskInOnePlace, HasTask,
     TaskPCs, TypeOK, ControlOK, PushOK, CallOK, CleanOK, HandlerOK,
     InHandler, TaskCleanup, vars, sharedVars,
     wakeVars, ctlVars, opVars
<1>5. QED
  BY <1>2, <1>3, <1>4

LEMMA CompleteOpControl ==
  ASSUME IInv, NEW t \in Runners, NEW throws \in BOOLEAN, CompleteOp(t, throws)
  PROVE  ControlOK' /\ ShutOK' /\ TaskInOnePlace'
<1>1. TypeOK /\ ControlOK /\ ShutOK /\ TaskInOnePlace
  BY DEF IInv
<1>2. ControlOK'
  BY <1>1, SchedulerAssumption DEF SchedulerAssumption, TypeOK, ControlOK,
     PushOK, CallOK, CleanOK, HandlerOK,
     InHandler, CompleteOp, WorkDelta, LastWork, vars, sharedVars,
     wakeVars, ctlVars, opVars
<1>3. ShutOK'
  BY <1>1, SchedulerAssumption DEF SchedulerAssumption, ShutOK, JoinOK,
     TypeOK, CompleteOp, WorkDelta, LastWork, vars, sharedVars,
     wakeVars, ctlVars, opVars
<1>4. \A r \in Procs : HasTask(r)' <=> HasTask(r)
  BY <1>1 DEF HasTask, TaskPCs, TypeOK, ControlOK, CallOK, CleanOK,
     CompleteOp, WorkDelta, LastWork, vars, sharedVars,
     wakeVars, ctlVars, opVars
<1>5. /\ AtMostOnce(TaskOp, queue) => AtMostOnce(TaskOp, queue')
      /\ Queued(TaskOp, queue') <=> Queued(TaskOp, queue)
      /\ hasTask' = hasTask
  BY <1>1 DEF AtMostOnce, Queued, TypeOK, ControlOK, PushOK, CallOK, CleanOK,
     HandlerOK,
     InHandler, CompleteOp, WorkDelta, LastWork, vars, sharedVars,
     wakeVars, ctlVars, opVars
<1>6. QED
  BY <1>1, <1>2, <1>3, <1>4, <1>5, TaskStays

LEMMA WorkPushControl ==
  ASSUME IInv, NEW t \in Runners, WorkPush(t)
  PROVE  ControlOK' /\ ShutOK' /\ TaskInOnePlace'
<1>1. TypeOK /\ ControlOK /\ ShutOK /\ TaskInOnePlace
  BY DEF IInv
<1>2. ControlOK'
  BY <1>1, SchedulerAssumption DEF SchedulerAssumption, TypeOK, ControlOK,
     PushOK, CallOK, CleanOK, HandlerOK,
     InHandler, WorkPush, vars, sharedVars,
     wakeVars, ctlVars, opVars
<1>3. ShutOK'
  BY <1>1, SchedulerAssumption DEF SchedulerAssumption, ShutOK, JoinOK,
     TypeOK, WorkPush, vars, sharedVars,
     wakeVars, ctlVars, opVars
<1>4. \A r \in Procs : HasTask(r)' <=> HasTask(r)
  BY <1>1 DEF HasTask, TaskPCs, TypeOK, ControlOK, CallOK, CleanOK,
     WorkPush, vars, sharedVars,
     wakeVars, ctlVars, opVars
<1>5. /\ AtMostOnce(TaskOp, queue) => AtMostOnce(TaskOp, queue')
      /\ Queued(TaskOp, queue') <=> Queued(TaskOp, queue)
      /\ hasTask' = hasTask
  <2>1. pq[t] \in Seq(Ops)
    BY <1>1 DEF TypeOK
  <2>2. QED
    BY <1>1, <2>1, ConcatOps DEF WorkPush, TypeOK
<1>6. QED
  BY <1>1, <1>2, <1>3, <1>4, <1>5, TaskStays

LEMMA PostControl ==
  ASSUME IInv, NEW p \in Procs, NEW o \in Ops, NEW c \in BOOLEAN, Post(p, o, c)
  PROVE  ControlOK' /\ ShutOK' /\ TaskInOnePlace'
<1>1. TypeOK /\ ControlOK /\ ShutOK /\ TaskInOnePlace
  BY DEF IInv
<1>2. ControlOK'
  <2>1. PushOK'
    BY <1>1, SchedulerAssumption DEF SchedulerAssumption, TypeOK, ControlOK,
       PushOK, Post, CanCall, InScheduler, vars, sharedVars,
       wakeVars, ctlVars, opVars
  <2>2. CallOK'
    BY <1>1, SchedulerAssumption DEF SchedulerAssumption, TypeOK, ControlOK,
       CallOK, Post, CanCall, InScheduler, vars, sharedVars,
       wakeVars, ctlVars, opVars
  <2>2a. CleanOK'
    BY <1>1, SchedulerAssumption DEF SchedulerAssumption, TypeOK, ControlOK,
       CleanOK, Post, CanCall, InScheduler, vars, sharedVars,
       wakeVars, ctlVars, opVars
  <2>3. HandlerOK'
    BY <1>1, SchedulerAssumption DEF SchedulerAssumption, TypeOK, ControlOK,
       CallOK, HandlerOK,
       InHandler, Post, CanCall, InScheduler, vars, sharedVars,
       wakeVars, ctlVars, opVars
  <2>4. QED
    BY <2>1, <2>2, <2>2a, <2>3 DEF ControlOK
<1>3. ShutOK'
  BY <1>1, SchedulerAssumption DEF SchedulerAssumption, ShutOK, JoinOK,
     TypeOK, Post, CanCall, InScheduler, vars, sharedVars,
     wakeVars, ctlVars, opVars
<1>4. \A r \in Procs : HasTask(r)' <=> HasTask(r)
  BY <1>1 DEF HasTask, TaskPCs, TypeOK, ControlOK, CallOK, CleanOK,
     Post, CanCall, InScheduler, vars, sharedVars,
     wakeVars, ctlVars, opVars
<1>5. /\ AtMostOnce(TaskOp, queue) => AtMostOnce(TaskOp, queue')
      /\ Queued(TaskOp, queue') <=> Queued(TaskOp, queue)
      /\ hasTask' = hasTask
  BY <1>1 DEF AtMostOnce, Queued, TypeOK, ControlOK, PushOK, CallOK, CleanOK,
     HandlerOK,
     InHandler, Post, CanCall, InScheduler, vars, sharedVars,
     wakeVars, ctlVars, opVars
<1>6. QED
  BY <1>1, <1>2, <1>3, <1>4, <1>5, TaskStays

LEMMA PushControl ==
  ASSUME IInv, NEW p \in Procs, Push(p)
  PROVE  ControlOK' /\ ShutOK' /\ TaskInOnePlace'
<1>1. TypeOK /\ ControlOK /\ ShutOK /\ TaskInOnePlace
  BY DEF IInv
<1>2. ControlOK'
  BY <1>1, SchedulerAssumption DEF SchedulerAssumption, TypeOK, ControlOK,
     PushOK, CallOK, CleanOK, HandlerOK,
     InHandler, Push, WakeOneThreadAndUnlock, InterruptTask, vars, sharedVars,
     wakeVars, ctlVars, opVars
<1>3. ShutOK'
  BY <1>1, SchedulerAssumption DEF SchedulerAssumption, ShutOK, JoinOK,
     TypeOK, Push, WakeOneThreadAndUnlock, InterruptTask, vars, sharedVars,
     wakeVars, ctlVars, opVars
<1>4. \A r \in Procs : HasTask(r)' <=> HasTask(r)
  BY <1>1 DEF HasTask, TaskPCs, TypeOK, ControlOK, CallOK, CleanOK,
     Push, WakeOneThreadAndUnlock, InterruptTask, vars, sharedVars,
     wakeVars, ctlVars, opVars
<1>5. /\ AtMostOnce(TaskOp, queue) => AtMostOnce(TaskOp, queue')
      /\ Queued(TaskOp, queue') <=> Queued(TaskOp, queue)
      /\ hasTask' = hasTask
  <2>1. arg[p] \in Ops
    BY <1>1 DEF Push, TypeOK, ControlOK, PushOK
  <2>2. QED
    BY <1>1, <2>1, AppendOp DEF Push, TypeOK
<1>6. QED
  BY <1>1, <1>2, <1>3, <1>4, <1>5, TaskStays

LEMMA StartIoControl ==
  ASSUME IInv, NEW p \in Procs, NEW o \in Ops, StartIo(p, o)
  PROVE  ControlOK' /\ ShutOK' /\ TaskInOnePlace'
<1>1. TypeOK /\ ControlOK /\ ShutOK /\ TaskInOnePlace
  BY DEF IInv
<1>2. ControlOK'
  BY <1>1, SchedulerAssumption DEF SchedulerAssumption, TypeOK, ControlOK,
     PushOK, CallOK, CleanOK, HandlerOK,
     InHandler, StartIo, CanCall, vars, sharedVars,
     wakeVars, ctlVars, opVars
<1>3. ShutOK'
  BY <1>1, SchedulerAssumption DEF SchedulerAssumption, ShutOK, JoinOK,
     TypeOK, StartIo, CanCall, vars, sharedVars,
     wakeVars, ctlVars, opVars
<1>4. \A r \in Procs : HasTask(r)' <=> HasTask(r)
  BY <1>1 DEF HasTask, TaskPCs, TypeOK, ControlOK, CallOK, CleanOK,
     StartIo, CanCall, vars, sharedVars,
     wakeVars, ctlVars, opVars
<1>5. /\ AtMostOnce(TaskOp, queue) => AtMostOnce(TaskOp, queue')
      /\ Queued(TaskOp, queue') <=> Queued(TaskOp, queue)
      /\ hasTask' = hasTask
  BY <1>1 DEF AtMostOnce, Queued, TypeOK, ControlOK, PushOK, CallOK, CleanOK,
     HandlerOK,
     InHandler, StartIo, CanCall, vars, sharedVars,
     wakeVars, ctlVars, opVars
<1>6. QED
  BY <1>1, <1>2, <1>3, <1>4, <1>5, TaskStays

LEMMA CancelIoControl ==
  ASSUME IInv, NEW p \in Procs, NEW o \in Ops, CancelIo(p, o)
  PROVE  ControlOK' /\ ShutOK' /\ TaskInOnePlace'
<1>1. TypeOK /\ ControlOK /\ ShutOK /\ TaskInOnePlace
  BY DEF IInv
<1>2. ControlOK'
  <2>1. PushOK'
    BY <1>1, SchedulerAssumption DEF SchedulerAssumption, TypeOK, ControlOK,
       PushOK, CancelIo, CanCall, InScheduler, vars, sharedVars,
       wakeVars, ctlVars, opVars
  <2>2. CallOK'
    BY <1>1, SchedulerAssumption DEF SchedulerAssumption, TypeOK, ControlOK,
       CallOK, CancelIo, CanCall, InScheduler, vars, sharedVars,
       wakeVars, ctlVars, opVars
  <2>2a. CleanOK'
    BY <1>1, SchedulerAssumption DEF SchedulerAssumption, TypeOK, ControlOK,
       CleanOK, CancelIo, CanCall, InScheduler, vars, sharedVars,
       wakeVars, ctlVars, opVars
  <2>3. HandlerOK'
    BY <1>1, SchedulerAssumption DEF SchedulerAssumption, TypeOK, ControlOK,
       CallOK, HandlerOK,
       InHandler, CancelIo, CanCall, InScheduler, vars, sharedVars,
       wakeVars, ctlVars, opVars
  <2>4. QED
    BY <2>1, <2>2, <2>2a, <2>3 DEF ControlOK
<1>3. ShutOK'
  BY <1>1, SchedulerAssumption DEF SchedulerAssumption, ShutOK, JoinOK,
     TypeOK, CancelIo, CanCall, InScheduler, vars, sharedVars,
     wakeVars, ctlVars, opVars
<1>4. \A r \in Procs : HasTask(r)' <=> HasTask(r)
  BY <1>1 DEF HasTask, TaskPCs, TypeOK, ControlOK, CallOK, CleanOK,
     CancelIo, CanCall, InScheduler, vars, sharedVars,
     wakeVars, ctlVars, opVars
<1>5. /\ AtMostOnce(TaskOp, queue) => AtMostOnce(TaskOp, queue')
      /\ Queued(TaskOp, queue') <=> Queued(TaskOp, queue)
      /\ hasTask' = hasTask
  BY <1>1 DEF AtMostOnce, Queued, TypeOK, ControlOK, PushOK, CallOK, CleanOK,
     HandlerOK,
     InHandler, CancelIo, CanCall, InScheduler, vars, sharedVars,
     wakeVars, ctlVars, opVars
<1>6. QED
  BY <1>1, <1>2, <1>3, <1>4, <1>5, TaskStays

LEMMA InitTaskControl ==
  ASSUME IInv, NEW p \in Procs, InitTask(p)
  PROVE  ControlOK' /\ ShutOK' /\ TaskInOnePlace'
<1>1. TypeOK /\ ControlOK /\ ShutOK /\ TaskInOnePlace
  BY DEF IInv
<1>2. ControlOK'
  <2>1. PushOK'
    BY <1>1, SchedulerAssumption DEF SchedulerAssumption, TypeOK, ControlOK,
       PushOK, InitTask, CanCall, NeedsTask, WakeOneThreadAndUnlock,
       InterruptTask, vars, sharedVars,
       wakeVars, ctlVars, opVars
  <2>2. CallOK'
    BY <1>1, SchedulerAssumption DEF SchedulerAssumption, TypeOK, ControlOK,
       CallOK, InitTask, CanCall, NeedsTask, WakeOneThreadAndUnlock,
       InterruptTask, vars, sharedVars,
       wakeVars, ctlVars, opVars
  <2>2a. CleanOK'
    BY <1>1, SchedulerAssumption DEF SchedulerAssumption, TypeOK, ControlOK,
       CleanOK, InitTask, CanCall, NeedsTask, WakeOneThreadAndUnlock,
       InterruptTask, vars, sharedVars,
       wakeVars, ctlVars, opVars
  <2>3. HandlerOK'
    BY <1>1, SchedulerAssumption DEF SchedulerAssumption, TypeOK, ControlOK,
       CallOK, HandlerOK,
       InHandler, InitTask, CanCall, NeedsTask, WakeOneThreadAndUnlock,
       InterruptTask, vars, sharedVars,
       wakeVars, ctlVars, opVars
  <2>4. QED
    BY <2>1, <2>2, <2>2a, <2>3 DEF ControlOK
<1>3. ShutOK'
  BY <1>1, SchedulerAssumption DEF SchedulerAssumption, ShutOK, JoinOK,
     TypeOK, InitTask, CanCall, NeedsTask, WakeOneThreadAndUnlock,
     InterruptTask, vars, sharedVars,
     wakeVars, ctlVars, opVars
<1>4. TaskInOnePlace'
  <2>1. ~Queued(TaskOp, queue) /\ \A r \in Procs : ~HasTask(r)
    BY <1>1 DEF InitTask, NeedsTask, TaskInOnePlace
  <2>2. /\ Queued(TaskOp, queue') /\ AtMostOnce(TaskOp, queue')
        /\ hasTask' = TRUE
    BY <1>1, <2>1, AppendTask DEF InitTask, TypeOK
  <2>3. \A r \in Procs : ~HasTask(r)'
    BY <1>1, <2>1 DEF InitTask, CanCall, WakeOneThreadAndUnlock, HasTask,
       TaskPCs, TypeOK
  <2>4. QED
    BY <2>2, <2>3 DEF TaskInOnePlace
<1>5. QED
  BY <1>2, <1>3, <1>4

LEMMA StopCallControl ==
  ASSUME IInv, NEW p \in Procs, StopCall(p)
  PROVE  ControlOK' /\ ShutOK' /\ TaskInOnePlace'
<1>1. TypeOK /\ ControlOK /\ ShutOK /\ TaskInOnePlace
  BY DEF IInv
<1>2. ControlOK'
  BY <1>1, SchedulerAssumption DEF SchedulerAssumption, TypeOK, ControlOK,
     PushOK, CallOK, CleanOK, HandlerOK,
     InHandler, StopCall, CanCall, StopAllThreads, InterruptTask, vars,
     sharedVars,
     wakeVars, ctlVars, opVars
<1>3. ShutOK'
  BY <1>1, SchedulerAssumption DEF SchedulerAssumption, ShutOK, JoinOK,
     TypeOK, StopCall, CanCall, StopAllThreads, InterruptTask, vars, sharedVars,
     wakeVars, ctlVars, opVars
<1>4. \A r \in Procs : HasTask(r)' <=> HasTask(r)
  BY <1>1 DEF HasTask, TaskPCs, TypeOK, ControlOK, CallOK, CleanOK,
     StopCall, CanCall, StopAllThreads, InterruptTask, vars, sharedVars,
     wakeVars, ctlVars, opVars
<1>5. /\ AtMostOnce(TaskOp, queue) => AtMostOnce(TaskOp, queue')
      /\ Queued(TaskOp, queue') <=> Queued(TaskOp, queue)
      /\ hasTask' = hasTask
  BY <1>1 DEF AtMostOnce, Queued, TypeOK, ControlOK, PushOK, CallOK, CleanOK,
     HandlerOK,
     InHandler, StopCall, CanCall, StopAllThreads, InterruptTask, vars,
     sharedVars,
     wakeVars, ctlVars, opVars
<1>6. QED
  BY <1>1, <1>2, <1>3, <1>4, <1>5, TaskStays

LEMMA RestartControl ==
  ASSUME IInv, NEW p \in Procs, Restart(p)
  PROVE  ControlOK' /\ ShutOK' /\ TaskInOnePlace'
<1>1. TypeOK /\ ControlOK /\ ShutOK /\ TaskInOnePlace
  BY DEF IInv
<1>2. ControlOK'
  BY <1>1, SchedulerAssumption DEF SchedulerAssumption, TypeOK, ControlOK,
     PushOK, CallOK, CleanOK, HandlerOK,
     InHandler, Restart, CanCall, vars, sharedVars,
     wakeVars, ctlVars, opVars
<1>3. ShutOK'
  BY <1>1, SchedulerAssumption DEF SchedulerAssumption, ShutOK, JoinOK,
     TypeOK, Restart, CanCall, vars, sharedVars,
     wakeVars, ctlVars, opVars
<1>4. \A r \in Procs : HasTask(r)' <=> HasTask(r)
  BY <1>1 DEF HasTask, TaskPCs, TypeOK, ControlOK, CallOK, CleanOK,
     Restart, CanCall, vars, sharedVars,
     wakeVars, ctlVars, opVars
<1>5. /\ AtMostOnce(TaskOp, queue) => AtMostOnce(TaskOp, queue')
      /\ Queued(TaskOp, queue') <=> Queued(TaskOp, queue)
      /\ hasTask' = hasTask
  BY <1>1 DEF AtMostOnce, Queued, TypeOK, ControlOK, PushOK, CallOK, CleanOK,
     HandlerOK,
     InHandler, Restart, CanCall, vars, sharedVars,
     wakeVars, ctlVars, opVars
<1>6. QED
  BY <1>1, <1>2, <1>3, <1>4, <1>5, TaskStays

LEMMA AcquireGuardControl ==
  ASSUME IInv, NEW p \in Procs, AcquireGuard(p)
  PROVE  ControlOK' /\ ShutOK' /\ TaskInOnePlace'
<1>1. TypeOK /\ ControlOK /\ ShutOK /\ TaskInOnePlace
  BY DEF IInv
<1>2. ControlOK'
  BY <1>1, SchedulerAssumption DEF SchedulerAssumption, TypeOK, ControlOK,
     PushOK, CallOK, CleanOK, HandlerOK,
     InHandler, AcquireGuard, CanCall, vars, sharedVars,
     wakeVars, ctlVars, opVars
<1>3. ShutOK'
  BY <1>1, SchedulerAssumption DEF SchedulerAssumption, ShutOK, JoinOK,
     TypeOK, AcquireGuard, CanCall, vars, sharedVars,
     wakeVars, ctlVars, opVars
<1>4. \A r \in Procs : HasTask(r)' <=> HasTask(r)
  BY <1>1 DEF HasTask, TaskPCs, TypeOK, ControlOK, CallOK, CleanOK,
     AcquireGuard, CanCall, vars, sharedVars,
     wakeVars, ctlVars, opVars
<1>5. /\ AtMostOnce(TaskOp, queue) => AtMostOnce(TaskOp, queue')
      /\ Queued(TaskOp, queue') <=> Queued(TaskOp, queue)
      /\ hasTask' = hasTask
  BY <1>1 DEF AtMostOnce, Queued, TypeOK, ControlOK, PushOK, CallOK, CleanOK,
     HandlerOK,
     InHandler, AcquireGuard, CanCall, vars, sharedVars,
     wakeVars, ctlVars, opVars
<1>6. QED
  BY <1>1, <1>2, <1>3, <1>4, <1>5, TaskStays

LEMMA ReleaseGuardControl ==
  ASSUME IInv, NEW p \in Procs, ReleaseGuard(p)
  PROVE  ControlOK' /\ ShutOK' /\ TaskInOnePlace'
<1>1. TypeOK /\ ControlOK /\ ShutOK /\ TaskInOnePlace
  BY DEF IInv
<1>2. ControlOK'
  <2>1. PushOK'
    BY <1>1, SchedulerAssumption DEF SchedulerAssumption, TypeOK, ControlOK,
       PushOK, ReleaseGuard, CanCall, vars, sharedVars,
       wakeVars, ctlVars, opVars
  <2>2. CallOK'
    BY <1>1, SchedulerAssumption DEF SchedulerAssumption, TypeOK, ControlOK,
       CallOK, ReleaseGuard, CanCall, vars, sharedVars,
       wakeVars, ctlVars, opVars
  <2>2a. CleanOK'
    BY <1>1, SchedulerAssumption DEF SchedulerAssumption, TypeOK, ControlOK,
       CleanOK, ReleaseGuard, CanCall, vars, sharedVars,
       wakeVars, ctlVars, opVars
  <2>3. HandlerOK'
    BY <1>1, SchedulerAssumption DEF SchedulerAssumption, TypeOK, ControlOK,
       CallOK, HandlerOK,
       InHandler, ReleaseGuard, CanCall, vars, sharedVars,
       wakeVars, ctlVars, opVars
  <2>4. QED
    BY <2>1, <2>2, <2>2a, <2>3 DEF ControlOK
<1>3. ShutOK'
  BY <1>1, SchedulerAssumption DEF SchedulerAssumption, ShutOK, JoinOK,
     TypeOK, ReleaseGuard, CanCall, vars, sharedVars,
     wakeVars, ctlVars, opVars
<1>4. \A r \in Procs : HasTask(r)' <=> HasTask(r)
  BY <1>1 DEF HasTask, TaskPCs, TypeOK, ControlOK, CallOK, CleanOK,
     ReleaseGuard, CanCall, vars, sharedVars,
     wakeVars, ctlVars, opVars
<1>5. /\ AtMostOnce(TaskOp, queue) => AtMostOnce(TaskOp, queue')
      /\ Queued(TaskOp, queue') <=> Queued(TaskOp, queue)
      /\ hasTask' = hasTask
  BY <1>1 DEF AtMostOnce, Queued, TypeOK, ControlOK, PushOK, CallOK, CleanOK,
     HandlerOK,
     InHandler, ReleaseGuard, CanCall, vars, sharedVars,
     wakeVars, ctlVars, opVars
<1>6. QED
  BY <1>1, <1>2, <1>3, <1>4, <1>5, TaskStays

LEMMA BeginShutdownControl ==
  ASSUME IInv, NEW p \in Procs, BeginShutdown(p)
  PROVE  ControlOK' /\ ShutOK' /\ TaskInOnePlace'
<1>1. TypeOK /\ ControlOK /\ ShutOK /\ TaskInOnePlace
  BY DEF IInv
<1>2. ControlOK'
  <2>1. PushOK'
    BY <1>1, SchedulerAssumption DEF SchedulerAssumption, TypeOK, ControlOK,
       PushOK, BeginShutdown, CanCall, StopAllThreads, InterruptTask, vars,
       sharedVars,
       wakeVars, ctlVars, opVars
  <2>2. CallOK'
    BY <1>1, SchedulerAssumption DEF SchedulerAssumption, TypeOK, ControlOK,
       CallOK, BeginShutdown, CanCall, StopAllThreads, InterruptTask, vars,
       sharedVars,
       wakeVars, ctlVars, opVars
  <2>2a. CleanOK'
    BY <1>1, SchedulerAssumption DEF SchedulerAssumption, TypeOK, ControlOK,
       CleanOK, BeginShutdown, CanCall, StopAllThreads, InterruptTask, vars,
       sharedVars,
       wakeVars, ctlVars, opVars
  <2>3. HandlerOK'
    BY <1>1, SchedulerAssumption DEF SchedulerAssumption, TypeOK, ControlOK,
       CallOK, HandlerOK,
       InHandler, BeginShutdown, CanCall, StopAllThreads, InterruptTask, vars,
       sharedVars,
       wakeVars, ctlVars, opVars
  <2>4. QED
    BY <2>1, <2>2, <2>2a, <2>3 DEF ControlOK
<1>3. ShutOK'
  BY <1>1, SchedulerAssumption DEF SchedulerAssumption, ShutOK, JoinOK,
     TypeOK, BeginShutdown, CanCall, StopAllThreads, InterruptTask, vars,
     sharedVars,
     wakeVars, ctlVars, opVars
<1>4. \A r \in Procs : HasTask(r)' <=> HasTask(r)
  BY <1>1 DEF HasTask, TaskPCs, TypeOK, ControlOK, CallOK, CleanOK,
     BeginShutdown, CanCall, StopAllThreads, InterruptTask, vars, sharedVars,
     wakeVars, ctlVars, opVars
<1>5. /\ AtMostOnce(TaskOp, queue) => AtMostOnce(TaskOp, queue')
      /\ Queued(TaskOp, queue') <=> Queued(TaskOp, queue)
      /\ hasTask' = hasTask
  BY <1>1 DEF AtMostOnce, Queued, TypeOK, ControlOK, PushOK, CallOK, CleanOK,
     HandlerOK,
     InHandler, BeginShutdown, CanCall, StopAllThreads, InterruptTask, vars,
     sharedVars,
     wakeVars, ctlVars, opVars
<1>6. QED
  BY <1>1, <1>2, <1>3, <1>4, <1>5, TaskStays

LEMMA FinishShutdownControl ==
  ASSUME IInv, NEW p \in Procs, FinishShutdown(p)
  PROVE  ControlOK' /\ ShutOK' /\ TaskInOnePlace'
<1>1. TypeOK /\ ControlOK /\ ShutOK /\ TaskInOnePlace
  BY DEF IInv
<1>2. ControlOK'
  BY <1>1, SchedulerAssumption DEF SchedulerAssumption, TypeOK, ControlOK,
     PushOK, CallOK, CleanOK, HandlerOK,
     InHandler, FinishShutdown, ReadyOps, vars, sharedVars,
     wakeVars, ctlVars, opVars
<1>3. ShutOK'
  BY <1>1, SchedulerAssumption DEF SchedulerAssumption, ShutOK, JoinOK,
     TypeOK, FinishShutdown, ReadyOps, vars, sharedVars,
     wakeVars, ctlVars, opVars
<1>4. TaskInOnePlace'
  <2>1. shut /\ \A r \in Procs : pc[r] \in {"out", "join", "end"}
    BY <1>1 DEF FinishShutdown, Joined, ShutOK, JoinOK
  <2>2. \A r \in Procs : ~HasTask(r)'
    BY <1>1, <2>1 DEF FinishShutdown, HasTask, TaskPCs, TypeOK
  <2>3. queue' = <<>> /\ hasTask' = FALSE
    BY DEF FinishShutdown
  <2>4. QED
    BY <2>2, <2>3 DEF TaskInOnePlace, Queued, AtMostOnce
<1>5. QED
  BY <1>2, <1>3, <1>4

----------------------------------------------------------------------------
(* The theorems. *)

\* One step: every action by its two lemmas.
LEMMA NextIInv == IInv /\ [Next]_vars => IInv'
<1> SUFFICES ASSUME IInv, [Next]_vars PROVE IInv'
  OBVIOUS
<1> USE DEF IInv
<1>1. ASSUME NEW t \in Runners, NEW m \in Modes, Enter(t, m)
      PROVE  IInv'
  BY <1>1, EnterType, EnterControl
<1>2. ASSUME NEW t \in Runners, LeaveStopped(t)
      PROVE  IInv'
  BY <1>2, LeaveStoppedType, LeaveStoppedControl
<1>3. ASSUME NEW t \in Runners, FindNothing(t)
      PROVE  IInv'
  BY <1>3, FindNothingType, FindNothingControl
<1>4. ASSUME NEW t \in Runners, WakeUp(t)
      PROVE  IInv'
  BY <1>4, WakeUpType, WakeUpControl
<1>5. ASSUME NEW t \in Runners, Reacquire(t)
      PROVE  IInv'
  BY <1>5, ReacquireType, ReacquireControl
<1>6. ASSUME NEW p \in Procs, Signal(p)
      PROVE  IInv'
  BY <1>6, SignalType, SignalControl
<1>7. ASSUME NEW p \in Procs, Stop(p)
      PROVE  IInv'
  BY <1>7, StopType, StopControl
<1>8. ASSUME NEW t \in Runners, TakeTask(t)
      PROVE  IInv'
  BY <1>8, TakeTaskType, TakeTaskControl
<1>9. ASSUME NEW t \in Runners, TakeOp(t)
      PROVE  IInv'
  BY <1>9, TakeOpType, TakeOpControl
<1>10. ASSUME NEW t \in Runners, PassTaskOn(t)
      PROVE  IInv'
  BY <1>10, PassTaskOnType, PassTaskOnControl
<1>11. ASSUME NEW t \in Runners, NEW q, TaskReturn(t, q)
      PROVE  IInv'
  BY <1>11, TaskReturnType, TaskReturnControl
<1>12. ASSUME NEW t \in Runners, TaskCleanup(t)
      PROVE  IInv'
  BY <1>12, TaskCleanupType, TaskCleanupControl
<1>13. ASSUME NEW t \in Runners, NEW throws \in BOOLEAN, CompleteOp(t, throws)
      PROVE  IInv'
  BY <1>13, CompleteOpType, CompleteOpControl
<1>14. ASSUME NEW t \in Runners, WorkPush(t)
      PROVE  IInv'
  BY <1>14, WorkPushType, WorkPushControl
<1>15. ASSUME NEW p \in Procs, NEW o \in Ops, NEW c \in BOOLEAN, Post(p, o, c)
      PROVE  IInv'
  BY <1>15, PostType, PostControl
<1>16. ASSUME NEW p \in Procs, Push(p)
      PROVE  IInv'
  BY <1>16, PushType, PushControl
<1>17. ASSUME NEW p \in Procs, NEW o \in Ops, StartIo(p, o)
      PROVE  IInv'
  BY <1>17, StartIoType, StartIoControl
<1>18. ASSUME NEW p \in Procs, NEW o \in Ops, CancelIo(p, o)
      PROVE  IInv'
  BY <1>18, CancelIoType, CancelIoControl
<1>19. ASSUME NEW p \in Procs, InitTask(p)
      PROVE  IInv'
  BY <1>19, InitTaskType, InitTaskControl
<1>20. ASSUME NEW p \in Procs, StopCall(p)
      PROVE  IInv'
  BY <1>20, StopCallType, StopCallControl
<1>21. ASSUME NEW p \in Procs, Restart(p)
      PROVE  IInv'
  BY <1>21, RestartType, RestartControl
<1>22. ASSUME NEW p \in Procs, AcquireGuard(p)
      PROVE  IInv'
  BY <1>22, AcquireGuardType, AcquireGuardControl
<1>23. ASSUME NEW p \in Procs, ReleaseGuard(p)
      PROVE  IInv'
  BY <1>23, ReleaseGuardType, ReleaseGuardControl
<1>24. ASSUME NEW p \in Procs, BeginShutdown(p)
      PROVE  IInv'
  BY <1>24, BeginShutdownType, BeginShutdownControl
<1>25. ASSUME NEW p \in Procs, FinishShutdown(p)
      PROVE  IInv'
  BY <1>25, FinishShutdownType, FinishShutdownControl
<1>26. CASE UNCHANGED vars
  BY <1>26 DEF TypeOK, ControlOK, PushOK, CallOK, CleanOK, HandlerOK, InHandler,
     ShutOK, JoinOK, TaskInOnePlace, Queued, AtMostOnce, HasTask, TaskPCs, vars,
     sharedVars, wakeVars, ctlVars, opVars
<1>27. QED
  BY <1>1, <1>2, <1>3, <1>4, <1>5, <1>6, <1>7, <1>8, <1>9, <1>10, <1>11,
     <1>12, <1>13, <1>14, <1>15, <1>16, <1>17, <1>18, <1>19, <1>20, <1>21,
     <1>22, <1>23, <1>24, <1>25, <1>26
  DEF Next, RunStep, CallStep, Call

\* Every reachable state satisfies the inductive invariant.
THEOREM SchedulerIInv == Spec => []IInv
BY InitIInv, NextIInv, PTL DEF Spec

\* Type correctness, for any number of threads and operations.
THEOREM SchedulerTypeOK == Spec => []TypeOK
BY SchedulerIInv, PTL DEF IInv

\* The reactor's turn is never duplicated and never lost: at most one thread is
\* in the reactor at any time.
THEOREM SchedulerTaskInOnePlace == Spec => []TaskInOnePlace
BY SchedulerIInv, PTL DEF IInv

----------------------------------------------------------------------------
(***************************************************************************)
(* Wakeups.  While something is queued and a thread sleeps, another is on  *)
(* its way to the queue, with or without a thread of the scheduler's own,  *)
(* if the program stays in run() or poll() and its handlers do not throw.  *)
(* A thread that leaves after one operation, or by an exception, pushes    *)
(* its private queue without waking anybody, and is not on its way back.   *)
(*                                                                         *)
(* WakeInv says of the event and of the interrupter what the code relies   *)
(* on: the bit of the event is set while something is queued, unless a     *)
(* thread is about to look at the queue, which sets it when it leaves more *)
(* behind; and task_interrupted_ is set over a thread in the reactor only  *)
(* when the interrupter is readable.                                       *)
(***************************************************************************)

Resident == Modes \subseteq Repeating /\ ~Throws

\* Threads stay in run() or poll(): from a handler they go back to the loop.
BackOK ==
  \A t \in Runners :
    /\ mode[t] \in Repeating
    /\ pc[t] \in {"wpush", "wstop"} => ret[t] = "loop"

\* Only runners are in the loop, or sleep.
InLoop(p) ==
  \/ pc[p] \in {"loop", "loop2", "loop3", "wait", "woken", "task", "taskpoll",
                "tclean", "wpush", "wstop"}
  \/ pc[p] = "signal" /\ ret[p] \in {"taskpoll", "loop"}
LoopOK == \A p \in Procs : InLoop(p) => p \in Runners

\* A thread blocks in the reactor only when the queue was empty: it has nobody
\* to signal first.
SignalOK == \A p \in Procs : pc[p] = "signal" => ret[p] # "task"

\* task_interrupted_ over a thread in the reactor.
InterruptOK ==
  \A p \in Procs : pc[p] = "task" /\ taskInterrupted => interrupter

\* About to look at the queue.
Looks(p) == pc[p] \in {"loop", "loop2", "loop3", "taskpoll", "tclean"}

InEvent(t) == pc[t] \in {"wait", "woken"}

\* The bit of the event.
EventOK ==
  queue # <<>> /\ ~stopped /\ (\E t \in Runners : InEvent(t))
    => eventSet \/ \E p \in Procs : Looks(p)

WakeInv ==
  BackOK /\ LoopOK /\ SignalOK /\ InterruptOK /\ EventOK /\ NoLostWakeup

----------------------------------------------------------------------------
(* Waking *)

\* A thread at the front of its critical section, which wakes one thread.
LEMMA WakeFacts ==
  ASSUME IInv, NEW p \in Procs, NEW next, NEW task,
         WakeOneThreadAndUnlock(p, next, task)
  PROVE  /\ eventSet' = TRUE
         /\ \A q \in Procs \ {p} : pc'[q] = pc[q] /\ ret'[q] = ret[q]
         /\ Waiters # {} =>
              /\ pc'[p] = "signal" /\ ret'[p] = next
              /\ UNCHANGED <<taskInterrupted, interrupter>>
         /\ Waiters = {} =>
              pc'[p] = next /\ ret'[p] = ret[p] /\ InterruptTask(task)
<1>1. CASE Waiters # {}
  <2>1. /\ pc' = [pc EXCEPT ![p] = "signal"] /\ ret' = [ret EXCEPT ![p] = next]
        /\ eventSet' = TRUE /\ UNCHANGED <<taskInterrupted, interrupter>>
    BY <1>1 DEF WakeOneThreadAndUnlock
  <2>2. QED
    BY <1>1, <2>1 DEF IInv, TypeOK
<1>2. CASE Waiters = {}
  <2>1. /\ pc' = [pc EXCEPT ![p] = next] /\ UNCHANGED ret
        /\ eventSet' = TRUE /\ InterruptTask(task)
    BY <1>2 DEF WakeOneThreadAndUnlock
  <2>2. QED
    BY <1>2, <2>1 DEF IInv, TypeOK
<1>3. QED
  BY <1>1, <1>2

\* A thread in the reactor has the task.
LEMMA InReactor ==
  ASSUME IInv, NEW q \in Procs, pc[q] = "task"
  PROVE  /\ hasTask /\ ~Queued(TaskOp, queue)
         /\ \A p \in Procs : HasTask(p) => p = q
BY DEF IInv, TaskInOnePlace, HasTask, TaskPCs

\* Interrupting the reactor makes the interrupter readable, or it is already.
LEMMA InterruptFacts ==
  ASSUME NEW task, task \in BOOLEAN, IInv, InterruptTask(task)
  PROVE  /\ taskInterrupted => UNCHANGED <<taskInterrupted, interrupter>>
         /\ ~taskInterrupted /\ task => taskInterrupted' /\ interrupter'
         /\ ~taskInterrupted /\ ~task => UNCHANGED <<taskInterrupted, interrupter>>
BY DEF InterruptTask, IInv, TypeOK

\* What p does by way of wake_one_thread_and_unlock keeps what the code relies
\* on, and leaves nobody asleep without another thread on its way.
LEMMA WakeKeeps ==
  ASSUME IInv, WakeInv, NEW p \in Procs, NEW next \in {"out", "exec"},
         NEW task \in BOOLEAN, WakeOneThreadAndUnlock(p, next, task),
         ~InEvent(p), UNCHANGED mode, hasTask => task
  PROVE  /\ BackOK' /\ LoopOK' /\ SignalOK' /\ InterruptOK'
         /\ (\E t \in Runners : Asleep(t)') => \E q \in Procs : Alert(q)'
<1>1. CASE Waiters # {}
  <2>1. /\ \A q \in Procs \ {p} : pc'[q] = pc[q] /\ ret'[q] = ret[q]
        /\ pc'[p] = "signal" /\ ret'[p] = next /\ eventSet' = TRUE
        /\ UNCHANGED <<taskInterrupted, interrupter>>
    BY <1>1, WakeFacts
  <2>2. BackOK' /\ LoopOK' /\ SignalOK' /\ InterruptOK'
    BY <2>1 DEF WakeInv, BackOK, LoopOK, InLoop, SignalOK, InterruptOK, Procs
  <2>3. PICK w \in Procs \ {p} : pc'[w] \in {"wait", "woken"}
    BY <1>1, <2>1 DEF Waiters, InEvent
  <2>4. \E q \in Procs : Alert(q)'
    BY <2>1, <2>3 DEF Alert
  <2>5. QED
    BY <2>2, <2>4
<1>2. CASE Waiters = {}
  <2>1. /\ \A q \in Procs \ {p} : pc'[q] = pc[q] /\ ret'[q] = ret[q]
        /\ pc'[p] = next /\ ret'[p] = ret[p] /\ InterruptTask(task)
    BY <1>2, WakeFacts
  <2>2. BackOK' /\ LoopOK' /\ SignalOK'
    BY <2>1 DEF WakeInv, BackOK, LoopOK, InLoop, SignalOK, Procs
  <2>3. ASSUME NEW q \in Procs, pc'[q] = "task"
        PROVE  interrupter'
    <3>1. pc[q] = "task"
      BY <2>1, <2>3
    <3>2. task /\ (taskInterrupted => interrupter)
      BY <3>1, InReactor DEF WakeInv, InterruptOK
    <3>3. QED
      BY <2>1, <3>2, InterruptFacts DEF IInv, TypeOK
  <2>4. InterruptOK' /\ \A t \in Runners : ~Asleep(t)'
    <3>1. \A t \in Runners : pc'[t] # "wait"
      BY <1>2, <2>1 DEF Waiters, Procs
    <3>2. QED
      BY <2>3, <3>1 DEF InterruptOK, Asleep, Procs
  <2>5. QED
    BY <2>2, <2>4
<1>3. QED
  BY <1>1, <1>2

\* stop_all_threads wakes everybody.
LEMMA StopKeeps ==
  ASSUME IInv, WakeInv, NEW p \in Procs, NEW next \in {"out", "exec", "join", "wpush"},
         StopAllThreads(p, next), UNCHANGED <<mode, ret>>,
         next = "wpush" => pc[p] = "wstop"
  PROVE  WakeInv'
<1>1. /\ stopped' = TRUE /\ InterruptTask(hasTask) /\ pc'[p] = next
      /\ \A q \in Procs \ {p} :
           pc'[q] = IF pc[q] = "wait" THEN "woken" ELSE pc[q]
  BY DEF StopAllThreads
<1>2. BackOK' /\ LoopOK' /\ SignalOK'
  BY <1>1 DEF WakeInv, BackOK, LoopOK, InLoop, SignalOK, Procs
<1>3. ASSUME NEW q \in Procs, pc'[q] = "task"
      PROVE  interrupter'
  <2>1. pc[q] = "task"
    BY <1>1, <1>3
  <2>2. hasTask /\ (taskInterrupted => interrupter)
    BY <2>1, InReactor DEF WakeInv, InterruptOK
  <2>3. QED
    BY <1>1, <2>2, InterruptFacts DEF IInv, TypeOK
<1>4. InterruptOK' /\ EventOK' /\ NoLostWakeup'
  BY <1>1, <1>3 DEF InterruptOK, EventOK, NoLostWakeup
<1>5. QED
  BY <1>2, <1>4 DEF WakeInv


LEMMA EnterWake ==
  ASSUME Resident, IInv, WakeInv, NEW t \in Runners, NEW m \in Modes,
         Enter(t, m)
  PROVE  WakeInv'
<1>1. /\ pc[t] = "out" /\ m \in Repeating /\ mode' = [mode EXCEPT ![t] = m]
      /\ UNCHANGED <<queue, stopped, taskInterrupted, interrupter, eventSet>>
  BY DEF Enter, sharedVars, wakeVars, Resident
<1>2. /\ pc'[t] \in {"stop", "loop"}
      /\ \A q \in Procs \ {t} : pc'[q] = pc[q] /\ ret'[q] = ret[q]
  BY DEF Enter, IInv, TypeOK, Procs
<1>3. BackOK' /\ LoopOK' /\ SignalOK' /\ InterruptOK'
  BY <1>1, <1>2
  DEF WakeInv, BackOK, LoopOK, InLoop, SignalOK, InterruptOK, Procs, IInv, TypeOK
<1>4. EventOK' /\ NoLostWakeup'
  BY <1>1, <1>2
  DEF WakeInv, EventOK, InEvent, Looks, NoLostWakeup, Alert, Asleep, Procs
<1>5. QED
  BY <1>3, <1>4 DEF WakeInv

LEMMA LeaveStoppedWake ==
  ASSUME Resident, IInv, WakeInv, NEW t \in Runners, LeaveStopped(t)
  PROVE  WakeInv'
<1> USE SchedulerAssumption DEF SchedulerAssumption, WakeInv, IInv, TypeOK
<1>1. BackOK' /\ LoopOK' /\ SignalOK' /\ InterruptOK'
  BY DEF LeaveStopped, CanLock, UnlockAndGo, sharedVars, opVars, BackOK,
     Repeating, Resident, Procs, LoopOK, InLoop, SignalOK, InterruptOK
<1>2. EventOK'
  BY DEF LeaveStopped, CanLock, UnlockAndGo, sharedVars, opVars, EventOK,
     Looks, InEvent, Procs
<1>3. NoLostWakeup'
  BY DEF LeaveStopped, CanLock, UnlockAndGo, sharedVars, opVars, NoLostWakeup,
     Alert, Asleep, EventOK, Looks, InEvent, Procs
<1>4. QED
  BY <1>1, <1>2, <1>3

LEMMA FindNothingWake ==
  ASSUME Resident, IInv, WakeInv, NEW t \in Runners, FindNothing(t)
  PROVE  WakeInv'
<1> USE SchedulerAssumption DEF SchedulerAssumption, WakeInv, IInv, TypeOK
<1>1. BackOK' /\ LoopOK' /\ SignalOK' /\ InterruptOK'
  BY DEF FindNothing, CanLock, PollLike, sharedVars, opVars, BackOK, Repeating,
     Resident, Procs, LoopOK, InLoop, SignalOK, InterruptOK
<1>2. EventOK'
  BY DEF FindNothing, CanLock, PollLike, sharedVars, opVars, EventOK, Looks,
     InEvent, Procs
<1>3. NoLostWakeup'
  BY DEF FindNothing, CanLock, PollLike, sharedVars, opVars, NoLostWakeup,
     Alert, Asleep, EventOK, Looks, InEvent, Procs
<1>4. QED
  BY <1>1, <1>2, <1>3

LEMMA WakeUpWake ==
  ASSUME Resident, IInv, WakeInv, NEW t \in Runners, WakeUp(t)
  PROVE  WakeInv'
<1> USE SchedulerAssumption DEF SchedulerAssumption, WakeInv, IInv, TypeOK
<1>1. BackOK' /\ LoopOK' /\ SignalOK' /\ InterruptOK'
  BY DEF WakeUp, sharedVars, wakeVars, opVars, BackOK, Repeating, Resident,
     Procs, LoopOK, InLoop, SignalOK, InterruptOK
<1>2. EventOK'
  BY DEF WakeUp, sharedVars, wakeVars, opVars, EventOK, Looks, InEvent, Procs
<1>3. NoLostWakeup'
  BY DEF WakeUp, sharedVars, wakeVars, opVars, NoLostWakeup, Alert, Asleep,
     EventOK, Looks, InEvent, Procs
<1>4. QED
  BY <1>1, <1>2, <1>3

LEMMA ReacquireWake ==
  ASSUME Resident, IInv, WakeInv, NEW t \in Runners, Reacquire(t)
  PROVE  WakeInv'
<1> USE SchedulerAssumption DEF SchedulerAssumption, WakeInv, IInv, TypeOK
<1>1. BackOK' /\ LoopOK' /\ SignalOK' /\ InterruptOK'
  BY DEF Reacquire, CanLock, sharedVars, opVars, BackOK, Repeating, Resident,
     Procs, LoopOK, InLoop, SignalOK, InterruptOK
<1>2. EventOK'
  BY DEF Reacquire, CanLock, sharedVars, opVars, EventOK, Looks, InEvent, Procs
<1>3. NoLostWakeup'
  BY DEF Reacquire, CanLock, sharedVars, opVars, NoLostWakeup, Alert, Asleep,
     EventOK, Looks, InEvent, Procs
<1>4. QED
  BY <1>1, <1>2, <1>3

LEMMA SignalWake ==
  ASSUME Resident, IInv, WakeInv, NEW p \in Procs, Signal(p)
  PROVE  WakeInv'
<1>1. /\ pc[p] = "signal" /\ ret[p] # "task"
      /\ UNCHANGED <<queue, stopped, taskInterrupted, interrupter, eventSet, mode,
                     ret>>
  BY DEF Signal, sharedVars, wakeVars, WakeInv, SignalOK
<1>2. /\ ret[p] \in {"out", "exec", "taskpoll", "loop"}
      /\ pc \in [Procs -> PCs]
  BY <1>1 DEF IInv, TypeOK
<1>3. CASE \A q \in Procs : pc[q] # "wait"
  <2>1. pc' = [pc EXCEPT ![p] = ret[p]]
    BY <1>3 DEF Signal
  <2>2. pc'[p] = ret[p] /\ \A q \in Procs \ {p} : pc'[q] = pc[q]
    BY <1>2, <2>1
  <2>3. BackOK' /\ LoopOK' /\ SignalOK' /\ InterruptOK'
    BY <1>1, <1>2, <2>2
    DEF WakeInv, BackOK, LoopOK, InLoop, SignalOK, InterruptOK, Procs
  <2>4. EventOK'
    BY <1>1, <1>2, <2>2 DEF WakeInv, EventOK, InEvent, Looks, Procs
  <2>5. NoLostWakeup'
    BY <1>1, <1>2, <1>3, <2>2 DEF WakeInv, NoLostWakeup, Asleep, Alert, Procs
  <2>6. QED
    BY <2>3, <2>4, <2>5 DEF WakeInv
<1>4. CASE \E q \in Procs : pc[q] = "wait"
  <2>1. PICK w \in Procs :
          pc[w] = "wait" /\ pc' = [pc EXCEPT ![p] = ret[p], ![w] = "woken"]
    BY <1>4 DEF Signal
  <2>2. /\ w # p /\ pc'[p] = ret[p] /\ pc'[w] = "woken" /\ w \in Runners
        /\ \A q \in Procs \ {p, w} : pc'[q] = pc[q]
    BY <1>1, <1>2, <2>1 DEF WakeInv, LoopOK, InLoop
  <2>3. BackOK' /\ LoopOK' /\ SignalOK' /\ InterruptOK'
    BY <1>1, <1>2, <2>1, <2>2
    DEF WakeInv, BackOK, LoopOK, InLoop, SignalOK, InterruptOK, Procs
  <2>4. queue' # <<>> /\ ~stopped' => eventSet' \/ \E q \in Procs : Looks(q)'
    BY <1>1, <2>1, <2>2 DEF WakeInv, EventOK, InEvent, Looks
  <2>5. EventOK' /\ NoLostWakeup'
    BY <2>2, <2>4 DEF EventOK, NoLostWakeup, Alert, Looks
  <2>6. QED
    BY <2>3, <2>5 DEF WakeInv
<1>5. QED
  BY <1>3, <1>4

LEMMA StopWake ==
  ASSUME Resident, IInv, WakeInv, NEW p \in Procs, Stop(p)
  PROVE  WakeInv'
<1>1. /\ \/ pc[p] = "stop" /\ StopAllThreads(p, ret[p])
         \/ pc[p] = "wstop" /\ StopAllThreads(p, "wpush")
      /\ UNCHANGED <<mode, ret>>
  BY DEF Stop
<1>2. CASE pc[p] = "stop"
  BY <1>1, <1>2, StopKeeps DEF IInv, ControlOK, CallOK
<1>3. CASE pc[p] = "wstop"
  BY <1>1, <1>3, StopKeeps DEF WakeInv, LoopOK, InLoop
<1>4. QED
  BY <1>1, <1>2, <1>3

LEMMA TakeTaskWake ==
  ASSUME Resident, IInv, WakeInv, NEW t \in Runners, TakeTask(t)
  PROVE  WakeInv'
<1> t \in Procs
  BY DEF Procs
<1>1. /\ pc[t] \in {"loop", "loop2"} /\ UNCHANGED <<mode, stopped, interrupter>>
      /\ queue # <<>> /\ Head(queue) = TaskOp /\ queue' = Tail(queue)
  BY DEF TakeTask, AtFront
<1>2. \A q \in Procs : pc[q] # "task"
  BY <1>1, InReactor DEF Queued, IInv, TypeOK
<1>3. \/ /\ pc' = [pc EXCEPT ![t] = "taskpoll"] /\ UNCHANGED ret
      \/ /\ pc' = [pc EXCEPT ![t] = "signal"]
         /\ ret' = [ret EXCEPT ![t] = "taskpoll"]
      \/ /\ pc' = [pc EXCEPT ![t] = "task"] /\ UNCHANGED ret
         /\ queue' = <<>> /\ ~taskInterrupted'
  BY <1>1 DEF TakeTask, SignalOneAndUnlock, UnlockAndGo, IInv, TypeOK
<1>4. /\ pc'[t] \in {"taskpoll", "signal", "task"}
      /\ pc'[t] = "signal" => ret'[t] = "taskpoll"
      /\ pc'[t] = "task" => queue' = <<>> /\ ~taskInterrupted'
      /\ \A q \in Procs \ {t} : pc'[q] = pc[q] /\ ret'[q] = ret[q]
  BY <1>3 DEF IInv, TypeOK
<1>5. BackOK' /\ LoopOK' /\ SignalOK' /\ InterruptOK'
  BY <1>1, <1>2, <1>4
  DEF WakeInv, BackOK, LoopOK, InLoop, SignalOK, InterruptOK, Procs
<1>6. EventOK'
  BY <1>1, <1>4
  DEF TakeTask, SignalOneAndUnlock, UnlockAndGo, EventOK, Looks, IInv, TypeOK
<1>7. NoLostWakeup'
  BY <1>1, <1>4 DEF NoLostWakeup, Alert
<1>8. QED
  BY <1>5, <1>6, <1>7 DEF WakeInv

LEMMA TakeOpWake ==
  ASSUME Resident, IInv, WakeInv, NEW t \in Runners, TakeOp(t)
  PROVE  WakeInv'
<1> t \in Procs
  BY DEF Procs
<1>1. /\ pc[t] \in {"loop", "loop2", "loop3"} /\ UNCHANGED <<mode, stopped>>
      /\ queue' = Tail(queue)
  BY DEF TakeOp, AtFront
<1>2. CASE queue' # <<>> /\ ~OneThread
  <2>1. WakeOneThreadAndUnlock(t, "exec", hasTask)
    BY <1>1, <1>2 DEF TakeOp
  <2>2. hasTask \in BOOLEAN /\ ~InEvent(t) /\ eventSet' = TRUE
    BY <1>1, <2>1 DEF IInv, TypeOK, InEvent, WakeOneThreadAndUnlock
  <2>3. QED
    BY <1>1, <2>1, <2>2, WakeKeeps DEF WakeInv, EventOK, NoLostWakeup
<1>3. CASE queue' = <<>> \/ OneThread
  <2>1. /\ pc' = [pc EXCEPT ![t] = "exec"]
        /\ UNCHANGED <<ret, eventSet, taskInterrupted, interrupter>>
    BY <1>1, <1>3 DEF TakeOp, UnlockAndGo
  <2>2. /\ pc'[t] = "exec" /\ \A q \in Procs \ {t} : pc'[q] = pc[q]
    BY <2>1 DEF IInv, TypeOK
  <2>3. BackOK' /\ LoopOK' /\ SignalOK' /\ InterruptOK'
    BY <1>1, <2>1, <2>2
    DEF WakeInv, BackOK, LoopOK, InLoop, SignalOK, InterruptOK, Procs
  <2>4. EventOK' /\ NoLostWakeup'
    BY <1>3, <2>2, SchedulerAssumption
    DEF SchedulerAssumption, EventOK, NoLostWakeup, InEvent, Asleep
  <2>5. QED
    BY <2>3, <2>4 DEF WakeInv
<1>4. QED
  BY <1>2, <1>3

LEMMA PassTaskOnWake ==
  ASSUME Resident, IInv, WakeInv, NEW t \in Runners, PassTaskOn(t)
  PROVE  WakeInv'
<1> t \in Procs
  BY DEF Procs
<1>1. /\ pc[t] = "loop3" /\ queue # <<>> /\ Head(queue) = TaskOp
      /\ UNCHANGED <<mode, queue, stopped, taskInterrupted, interrupter>>
  BY DEF PassTaskOn, sharedVars
<1>2. SignalOneAndUnlock(t, "out")
  BY DEF PassTaskOn, WakeInv, BackOK, Repeating
<1>3. \A q \in Procs : pc[q] # "task"
  BY <1>1, InReactor DEF Queued, IInv, TypeOK
<1>4. CASE Waiters # {}
  <2>1. /\ pc' = [pc EXCEPT ![t] = "signal"] /\ ret' = [ret EXCEPT ![t] = "out"]
        /\ eventSet' = TRUE
    BY <1>2, <1>4 DEF SignalOneAndUnlock
  <2>2. /\ \A q \in Procs \ {t} : pc'[q] = pc[q] /\ ret'[q] = ret[q]
        /\ pc'[t] = "signal" /\ ret'[t] = "out"
    BY <2>1 DEF IInv, TypeOK
  <2>3. BackOK' /\ LoopOK' /\ SignalOK' /\ InterruptOK'
    BY <1>1, <1>3, <2>2
    DEF WakeInv, BackOK, LoopOK, InLoop, SignalOK, InterruptOK, Procs
  <2>4. PICK w \in Procs \ {t} : pc'[w] \in {"wait", "woken"}
    BY <1>1, <1>4, <2>2 DEF Waiters
  <2>5. EventOK' /\ NoLostWakeup'
    BY <2>1, <2>2, <2>4 DEF EventOK, NoLostWakeup, Alert
  <2>6. QED
    BY <2>3, <2>5 DEF WakeInv
<1>5. CASE Waiters = {}
  <2>1. /\ pc' = [pc EXCEPT ![t] = "out"] /\ UNCHANGED ret /\ eventSet' = TRUE
    BY <1>2, <1>5 DEF SignalOneAndUnlock
  <2>2. pc'[t] = "out" /\ \A q \in Procs \ {t} : pc'[q] = pc[q]
    BY <2>1 DEF IInv, TypeOK
  <2>3. BackOK' /\ LoopOK' /\ SignalOK' /\ InterruptOK'
    BY <1>1, <1>3, <2>1, <2>2
    DEF WakeInv, BackOK, LoopOK, InLoop, SignalOK, InterruptOK, Procs
  <2>4. \A u \in Runners : ~Asleep(u)'
    BY <1>3, <1>5, <2>2 DEF Waiters, Asleep, Procs
  <2>5. QED
    BY <2>1, <2>3, <2>4 DEF WakeInv, EventOK, NoLostWakeup
<1>6. QED
  BY <1>4, <1>5

LEMMA TaskReturnWake ==
  ASSUME Resident, IInv, WakeInv, NEW t \in Runners, NEW q,
         TaskReturn(t, q)
  PROVE  WakeInv'
<1> USE SchedulerAssumption DEF SchedulerAssumption, WakeInv, IInv, TypeOK
<1>1. BackOK' /\ LoopOK' /\ SignalOK' /\ InterruptOK'
  BY DEF TaskReturn, sharedVars, BackOK, Repeating, Resident, Procs, LoopOK,
     InLoop, SignalOK, InterruptOK, TaskInOnePlace, HasTask, TaskPCs
<1>2. EventOK'
  BY DEF TaskReturn, sharedVars, EventOK, Looks, InEvent, Procs
<1>3. NoLostWakeup'
  BY DEF TaskReturn, sharedVars, NoLostWakeup, Alert, Asleep, EventOK, Looks,
     InEvent, Procs
<1>4. QED
  BY <1>1, <1>2, <1>3

LEMMA TaskCleanupWake ==
  ASSUME Resident, IInv, WakeInv, NEW t \in Runners, TaskCleanup(t)
  PROVE  WakeInv'
<1> USE SchedulerAssumption DEF SchedulerAssumption, WakeInv, IInv, TypeOK
<1>1. BackOK' /\ LoopOK' /\ SignalOK' /\ InterruptOK'
  BY DEF TaskCleanup, CanLock, BackOK, Repeating, Resident, Procs, LoopOK,
     InLoop, SignalOK, InterruptOK, TaskInOnePlace, HasTask, TaskPCs
<1>2. EventOK'
  BY DEF TaskCleanup, CanLock, EventOK, Looks, InEvent, Procs
<1>3. NoLostWakeup'
  BY DEF TaskCleanup, CanLock, NoLostWakeup, Alert, Asleep, EventOK, Looks,
     InEvent, Procs
<1>4. QED
  BY <1>1, <1>2, <1>3

LEMMA CompleteOpWake ==
  ASSUME Resident, IInv, WakeInv, NEW t \in Runners, NEW throws \in BOOLEAN,
         CompleteOp(t, throws)
  PROVE  WakeInv'
<1> USE SchedulerAssumption DEF SchedulerAssumption, WakeInv, IInv, TypeOK
<1>1. BackOK' /\ LoopOK' /\ SignalOK' /\ InterruptOK'
  BY DEF CompleteOp, wakeVars, BackOK, Repeating, Resident, Procs, LoopOK,
     InLoop, SignalOK, InterruptOK
<1>2. EventOK'
  BY DEF CompleteOp, wakeVars, EventOK, Looks, InEvent, Procs
<1>3. NoLostWakeup'
  BY DEF CompleteOp, wakeVars, NoLostWakeup, Alert, Asleep, EventOK, Looks,
     InEvent, Procs
<1>4. QED
  BY <1>1, <1>2, <1>3

LEMMA WorkPushWake ==
  ASSUME Resident, IInv, WakeInv, NEW t \in Runners, WorkPush(t)
  PROVE  WakeInv'
<1> USE SchedulerAssumption DEF SchedulerAssumption, WakeInv, IInv, TypeOK
<1>1. BackOK' /\ LoopOK' /\ SignalOK' /\ InterruptOK'
  BY DEF WorkPush, CanLock, BackOK, Repeating, Resident, ControlOK, CleanOK,
     LoopOK, InLoop, Procs, SignalOK, InterruptOK
<1>2. EventOK'
  BY DEF WorkPush, CanLock, EventOK, Looks, InEvent, ControlOK, CleanOK,
     BackOK, LoopOK, InLoop, Procs
<1>3. NoLostWakeup'
  BY DEF WorkPush, CanLock, NoLostWakeup, Alert, Asleep, ControlOK, CleanOK,
     EventOK, Looks, InEvent, BackOK, LoopOK, InLoop, Procs
<1>4. QED
  BY <1>1, <1>2, <1>3

LEMMA PostWake ==
  ASSUME Resident, IInv, WakeInv, NEW p \in Procs, NEW o \in Ops,
         NEW c \in BOOLEAN, Post(p, o, c)
  PROVE  WakeInv'
<1>1. /\ pc[p] \in {"out", "exec"}
      /\ UNCHANGED <<mode, queue, stopped, taskInterrupted, interrupter, eventSet>>
  BY DEF Post, CanCall, wakeVars, ctlVars
<1>2. \/ UNCHANGED <<pc, ret>>
      \/ /\ pc' = [pc EXCEPT ![p] = "push"] /\ ret' = [ret EXCEPT ![p] = pc[p]]
  BY DEF Post, ctlVars
<1>3. /\ pc'[p] \in {pc[p], "push"}
      /\ \A q \in Procs \ {p} : pc'[q] = pc[q] /\ ret'[q] = ret[q]
  BY <1>2 DEF IInv, TypeOK
<1>4. BackOK' /\ LoopOK' /\ SignalOK' /\ InterruptOK'
  BY <1>1, <1>3
  DEF WakeInv, BackOK, LoopOK, InLoop, SignalOK, InterruptOK, Procs
<1>5. EventOK' /\ NoLostWakeup'
  BY <1>1, <1>3
  DEF WakeInv, EventOK, InEvent, Looks, NoLostWakeup, Alert, Asleep, Procs
<1>6. QED
  BY <1>4, <1>5 DEF WakeInv

LEMMA PushWake ==
  ASSUME Resident, IInv, WakeInv, NEW p \in Procs, Push(p)
  PROVE  WakeInv'
<1>1. /\ pc[p] = "push" /\ ret[p] \in {"out", "exec"}
      /\ WakeOneThreadAndUnlock(p, ret[p], hasTask) /\ UNCHANGED mode
  BY DEF Push, IInv, ControlOK, CallOK
<1>2. hasTask \in BOOLEAN /\ ~InEvent(p) /\ eventSet' = TRUE
  BY <1>1 DEF IInv, TypeOK, InEvent, WakeOneThreadAndUnlock
<1>3. QED
  BY <1>1, <1>2, WakeKeeps DEF WakeInv, EventOK, NoLostWakeup

LEMMA StartIoWake ==
  ASSUME Resident, IInv, WakeInv, NEW p \in Procs, NEW o \in Ops,
         StartIo(p, o)
  PROVE  WakeInv'
<1> USE SchedulerAssumption DEF SchedulerAssumption, WakeInv, IInv, TypeOK
<1>1. BackOK' /\ LoopOK' /\ SignalOK' /\ InterruptOK'
  BY DEF StartIo, CanCall, wakeVars, ctlVars, BackOK, Repeating, Resident,
     Procs, LoopOK, InLoop, SignalOK, InterruptOK
<1>2. EventOK'
  BY DEF StartIo, CanCall, wakeVars, ctlVars, EventOK, Looks, InEvent, Procs
<1>3. NoLostWakeup'
  BY DEF StartIo, CanCall, wakeVars, ctlVars, NoLostWakeup, Alert, Asleep,
     EventOK, Looks, InEvent, Procs
<1>4. QED
  BY <1>1, <1>2, <1>3

LEMMA CancelIoWake ==
  ASSUME Resident, IInv, WakeInv, NEW p \in Procs, NEW o \in Ops,
         CancelIo(p, o)
  PROVE  WakeInv'
<1>1. /\ pc[p] \in {"out", "exec"}
      /\ UNCHANGED <<mode, queue, stopped, taskInterrupted, interrupter, eventSet>>
  BY DEF CancelIo, CanCall, sharedVars, wakeVars, ctlVars
<1>2. \/ UNCHANGED <<pc, ret>>
      \/ /\ pc' = [pc EXCEPT ![p] = "push"] /\ ret' = [ret EXCEPT ![p] = pc[p]]
  BY DEF CancelIo, ctlVars
<1>3. /\ pc'[p] \in {pc[p], "push"}
      /\ \A q \in Procs \ {p} : pc'[q] = pc[q] /\ ret'[q] = ret[q]
  BY <1>2 DEF IInv, TypeOK
<1>4. BackOK' /\ LoopOK' /\ SignalOK' /\ InterruptOK'
  BY <1>1, <1>3
  DEF WakeInv, BackOK, LoopOK, InLoop, SignalOK, InterruptOK, Procs
<1>5. EventOK' /\ NoLostWakeup'
  BY <1>1, <1>3
  DEF WakeInv, EventOK, InEvent, Looks, NoLostWakeup, Alert, Asleep, Procs
<1>6. QED
  BY <1>4, <1>5 DEF WakeInv

LEMMA InitTaskWake ==
  ASSUME Resident, IInv, WakeInv, NEW p \in Procs, InitTask(p)
  PROVE  WakeInv'
<1>1. /\ pc[p] \in {"out", "exec"} /\ WakeOneThreadAndUnlock(p, pc[p], TRUE)
      /\ UNCHANGED mode
  BY DEF InitTask, CanCall
<1>2. ~InEvent(p) /\ eventSet' = TRUE
  BY <1>1 DEF InEvent, WakeOneThreadAndUnlock
<1>3. QED
  BY <1>1, <1>2, WakeKeeps DEF WakeInv, EventOK, NoLostWakeup

LEMMA StopCallWake ==
  ASSUME Resident, IInv, WakeInv, NEW p \in Procs, StopCall(p)
  PROVE  WakeInv'
<1>1. /\ pc[p] \in {"out", "exec"} /\ StopAllThreads(p, pc[p])
      /\ UNCHANGED <<mode, ret>>
  BY DEF StopCall, CanCall
<1>2. QED
  BY <1>1, StopKeeps

LEMMA RestartWake ==
  ASSUME Resident, IInv, WakeInv, NEW p \in Procs, Restart(p)
  PROVE  WakeInv'
<1> USE SchedulerAssumption DEF SchedulerAssumption, WakeInv, IInv, TypeOK
<1>1. BackOK' /\ LoopOK' /\ SignalOK' /\ InterruptOK'
  BY DEF Restart, CanCall, CanLock, wakeVars, ctlVars, opVars, BackOK,
     Repeating, Resident, Procs, LoopOK, InLoop, SignalOK, InterruptOK
<1>2. EventOK'
  BY DEF Restart, CanCall, CanLock, wakeVars, ctlVars, opVars, EventOK, Looks,
     InEvent, Procs
<1>3. NoLostWakeup'
  BY DEF Restart, CanCall, CanLock, wakeVars, ctlVars, opVars, NoLostWakeup,
     Alert, Asleep, EventOK, Looks, InEvent, Procs
<1>4. QED
  BY <1>1, <1>2, <1>3

LEMMA AcquireGuardWake ==
  ASSUME Resident, IInv, WakeInv, NEW p \in Procs, AcquireGuard(p)
  PROVE  WakeInv'
<1> USE SchedulerAssumption DEF SchedulerAssumption, WakeInv, IInv, TypeOK
<1>1. BackOK' /\ LoopOK' /\ SignalOK' /\ InterruptOK'
  BY DEF AcquireGuard, CanCall, wakeVars, ctlVars, BackOK, Repeating, Resident,
     Procs, LoopOK, InLoop, SignalOK, InterruptOK
<1>2. EventOK'
  BY DEF AcquireGuard, CanCall, wakeVars, ctlVars, EventOK, Looks, InEvent,
     Procs
<1>3. NoLostWakeup'
  BY DEF AcquireGuard, CanCall, wakeVars, ctlVars, NoLostWakeup, Alert, Asleep,
     EventOK, Looks, InEvent, Procs
<1>4. QED
  BY <1>1, <1>2, <1>3

LEMMA ReleaseGuardWake ==
  ASSUME Resident, IInv, WakeInv, NEW p \in Procs, ReleaseGuard(p)
  PROVE  WakeInv'
<1>1. /\ pc[p] \in {"out", "exec"}
      /\ UNCHANGED <<mode, queue, stopped, taskInterrupted, interrupter, eventSet>>
  BY DEF ReleaseGuard, CanCall, wakeVars
<1>2. \/ UNCHANGED <<pc, ret>>
      \/ /\ pc' = [pc EXCEPT ![p] = "stop"] /\ ret' = [ret EXCEPT ![p] = pc[p]]
  BY DEF ReleaseGuard
<1>3. /\ pc'[p] \in {pc[p], "stop"}
      /\ \A q \in Procs \ {p} : pc'[q] = pc[q] /\ ret'[q] = ret[q]
  BY <1>2 DEF IInv, TypeOK
<1>4. BackOK' /\ LoopOK' /\ SignalOK' /\ InterruptOK'
  BY <1>1, <1>3
  DEF WakeInv, BackOK, LoopOK, InLoop, SignalOK, InterruptOK, Procs
<1>5. EventOK' /\ NoLostWakeup'
  BY <1>1, <1>3
  DEF WakeInv, EventOK, InEvent, Looks, NoLostWakeup, Alert, Asleep, Procs
<1>6. QED
  BY <1>4, <1>5 DEF WakeInv

LEMMA BeginShutdownWake ==
  ASSUME Resident, IInv, WakeInv, NEW p \in Procs, BeginShutdown(p)
  PROVE  WakeInv'
<1>1. /\ pc[p] \in {"out", "exec"} /\ UNCHANGED <<mode, ret, queue>>
  BY DEF BeginShutdown, CanCall
<1>2. CASE OwnThread = {}
  <2>1. /\ pc' = [pc EXCEPT ![p] = "join"]
        /\ UNCHANGED <<stopped, taskInterrupted, interrupter, eventSet>>
    BY <1>2 DEF BeginShutdown
  <2>2. pc'[p] = "join" /\ \A q \in Procs \ {p} : pc'[q] = pc[q]
    BY <2>1 DEF IInv, TypeOK
  <2>3. BackOK' /\ LoopOK' /\ SignalOK' /\ InterruptOK'
    BY <1>1, <2>1, <2>2
    DEF WakeInv, BackOK, LoopOK, InLoop, SignalOK, InterruptOK, Procs
  <2>4. EventOK' /\ NoLostWakeup'
    BY <1>1, <2>1, <2>2
    DEF WakeInv, EventOK, InEvent, Looks, NoLostWakeup, Alert, Asleep, Procs
  <2>5. QED
    BY <2>3, <2>4 DEF WakeInv
<1>3. CASE OwnThread # {}
  <2>1. StopAllThreads(p, "join")
    BY <1>3 DEF BeginShutdown
  <2>2. QED
    BY <1>1, <2>1, StopKeeps
<1>4. QED
  BY <1>2, <1>3

LEMMA FinishShutdownWake ==
  ASSUME Resident, IInv, WakeInv, NEW p \in Procs, FinishShutdown(p)
  PROVE  WakeInv'
<1> USE SchedulerAssumption DEF SchedulerAssumption, WakeInv, IInv, TypeOK
<1>1. BackOK' /\ LoopOK' /\ SignalOK' /\ InterruptOK'
  BY DEF FinishShutdown, Joined, wakeVars, BackOK, Repeating, Resident, Procs,
     LoopOK, InLoop, SignalOK, InterruptOK
<1>2. EventOK'
  BY DEF FinishShutdown, Joined, wakeVars, EventOK, Looks, InEvent, Procs
<1>3. NoLostWakeup'
  BY DEF FinishShutdown, Joined, wakeVars, NoLostWakeup, Alert, Asleep,
     EventOK, Looks, InEvent, Procs
<1>4. QED
  BY <1>1, <1>2, <1>3

----------------------------------------------------------------------------
(* The theorem *)

LEMMA InitWake ==
  ASSUME Init
  PROVE  WakeInv
<1>1. /\ queue = <<>> /\ mode = [t \in Runners |-> "run"]
      /\ pc = [p \in Procs |-> IF p \in OwnThread THEN "loop" ELSE "out"]
  BY DEF Init
<1>2. QED
  BY <1>1, SchedulerAssumption
  DEF SchedulerAssumption, WakeInv, BackOK, Repeating, LoopOK, InLoop, SignalOK,
      InterruptOK, EventOK, NoLostWakeup, Procs

\* One step: every action by its lemma.
LEMMA NextWake ==
  ASSUME Resident, IInv, WakeInv, [Next]_vars
  PROVE  WakeInv'
<1>1. ASSUME NEW t \in Runners, NEW m \in Modes, Enter(t, m)
      PROVE  WakeInv'
  BY <1>1, EnterWake
<1>2. ASSUME NEW t \in Runners, LeaveStopped(t)
      PROVE  WakeInv'
  BY <1>2, LeaveStoppedWake
<1>3. ASSUME NEW t \in Runners, FindNothing(t)
      PROVE  WakeInv'
  BY <1>3, FindNothingWake
<1>4. ASSUME NEW t \in Runners, WakeUp(t)
      PROVE  WakeInv'
  BY <1>4, WakeUpWake
<1>5. ASSUME NEW t \in Runners, Reacquire(t)
      PROVE  WakeInv'
  BY <1>5, ReacquireWake
<1>6. ASSUME NEW p \in Procs, Signal(p)
      PROVE  WakeInv'
  BY <1>6, SignalWake
<1>7. ASSUME NEW p \in Procs, Stop(p)
      PROVE  WakeInv'
  BY <1>7, StopWake
<1>8. ASSUME NEW t \in Runners, TakeTask(t)
      PROVE  WakeInv'
  BY <1>8, TakeTaskWake
<1>9. ASSUME NEW t \in Runners, TakeOp(t)
      PROVE  WakeInv'
  BY <1>9, TakeOpWake
<1>10. ASSUME NEW t \in Runners, PassTaskOn(t)
      PROVE  WakeInv'
  BY <1>10, PassTaskOnWake
<1>11. ASSUME NEW t \in Runners, NEW q, TaskReturn(t, q)
      PROVE  WakeInv'
  BY <1>11, TaskReturnWake
<1>12. ASSUME NEW t \in Runners, TaskCleanup(t)
      PROVE  WakeInv'
  BY <1>12, TaskCleanupWake
<1>13. ASSUME NEW t \in Runners, NEW throws \in BOOLEAN, CompleteOp(t, throws)
      PROVE  WakeInv'
  BY <1>13, CompleteOpWake
<1>14. ASSUME NEW t \in Runners, WorkPush(t)
      PROVE  WakeInv'
  BY <1>14, WorkPushWake
<1>15. ASSUME NEW p \in Procs, NEW o \in Ops, NEW c \in BOOLEAN, Post(p, o, c)
      PROVE  WakeInv'
  BY <1>15, PostWake
<1>16. ASSUME NEW p \in Procs, Push(p)
      PROVE  WakeInv'
  BY <1>16, PushWake
<1>17. ASSUME NEW p \in Procs, NEW o \in Ops, StartIo(p, o)
      PROVE  WakeInv'
  BY <1>17, StartIoWake
<1>18. ASSUME NEW p \in Procs, NEW o \in Ops, CancelIo(p, o)
      PROVE  WakeInv'
  BY <1>18, CancelIoWake
<1>19. ASSUME NEW p \in Procs, InitTask(p)
      PROVE  WakeInv'
  BY <1>19, InitTaskWake
<1>20. ASSUME NEW p \in Procs, StopCall(p)
      PROVE  WakeInv'
  BY <1>20, StopCallWake
<1>21. ASSUME NEW p \in Procs, Restart(p)
      PROVE  WakeInv'
  BY <1>21, RestartWake
<1>22. ASSUME NEW p \in Procs, AcquireGuard(p)
      PROVE  WakeInv'
  BY <1>22, AcquireGuardWake
<1>23. ASSUME NEW p \in Procs, ReleaseGuard(p)
      PROVE  WakeInv'
  BY <1>23, ReleaseGuardWake
<1>24. ASSUME NEW p \in Procs, BeginShutdown(p)
      PROVE  WakeInv'
  BY <1>24, BeginShutdownWake
<1>25. ASSUME NEW p \in Procs, FinishShutdown(p)
      PROVE  WakeInv'
  BY <1>25, FinishShutdownWake
<1>26. CASE UNCHANGED vars
  BY <1>26 DEF WakeInv, BackOK, LoopOK, InLoop, SignalOK, InterruptOK, EventOK,
     InEvent, Looks, NoLostWakeup, Alert, Asleep, vars, sharedVars, wakeVars, ctlVars
<1>27. QED
  BY <1>1, <1>2, <1>3, <1>4, <1>5, <1>6, <1>7, <1>8, <1>9, <1>10, <1>11, <1>12,
     <1>13, <1>14, <1>15, <1>16, <1>17, <1>18, <1>19, <1>20, <1>21, <1>22,
     <1>23, <1>24, <1>25, <1>26
  DEF Next, RunStep, CallStep, Call

\* While something is queued and a thread sleeps, in the event or in the
\* reactor, another is on its way to the queue, in every program that stays in
\* run() or poll() and whose handlers do not throw.
THEOREM NoLostWakeupAlways ==
  ASSUME Resident
  PROVE  Spec => []NoLostWakeup
<1>1. Spec => []IInv
  BY SchedulerIInv
<1>2. Init => WakeInv
  BY InitWake
<1>3. IInv /\ WakeInv /\ [Next]_vars => WakeInv'
  BY NextWake
<1>4. WakeInv => NoLostWakeup
  BY DEF WakeInv
<1>5. QED
  BY <1>1, <1>2, <1>3, <1>4, PTL DEF Spec

----------------------------------------------------------------------------
(***************************************************************************)
(* Work.  The scheduler counts its work right and implements Executor, for *)
(* any finite sets of threads and operations.  The core is that an         *)
(* operation is in one place at any time: not submitted yet, with a thread *)
(* that is submitting it, in the reactor, in the queue, in the private     *)
(* queue of a thread, with the thread that runs it, run, or destroyed; and *)
(* each action moves operations from one place to another.  A thread has   *)
(* no more uncounted work than operations in its private queue, and none   *)
(* but while it runs a handler: so the count is zero only when nothing is  *)
(* left, whatever other threads have not yet settled.                      *)
(***************************************************************************)

(* The invariant of the work *)

At(kind) == <<kind, NoProc>>
With(kind, p) == <<kind, p>>

Places ==
  ({"unposted", "armed", "queue", "done", "destroyed"} \X {NoProc})
    \cup ({"private", "running"} \X Runners) \cup ({"submitting"} \X Procs)

InPlace(o, k) ==
  \/ k[1] = "unposted" /\ o \in unposted
  \/ k[1] = "armed" /\ o \in armed
  \/ k[1] = "queue" /\ o \in ReadyOps(queue)
  \/ k[1] = "done" /\ o \in done
  \/ k[1] = "destroyed" /\ o \in destroyed
  \/ k[1] = "private" /\ o \in ReadyOps(pq[k[2]])
  \/ k[1] = "running" /\ o = cur[k[2]]
  \/ k[1] = "submitting" /\ o = arg[k[2]]

\* The operations at each place.
Holding == [k \in Places |-> {o \in Ops : InPlace(o, k)}]

OneForEach ==
  \A o \in Ops : \E k \in Places : \A l \in Places : o \in Holding[l] <=> l = k

NoRepeats(q) == \A i, j \in 1 .. Len(q) : q[i] = q[j] => i = j
InOrder == NoRepeats(queue) /\ \A t \in Runners : NoRepeats(pq[t])

\* What a thread has depends on where it is.
KeepsOK ==
  /\ \A t \in Runners :
       /\ cur[t] # NoOp => InHandler(t)
       /\ pq[t] # <<>> => InHandler(t) \/ pc[t] \in {"tclean", "wpush", "wstop"}
       /\ pw[t] > 0 => InHandler(t)
       /\ pw[t] <= Len(pq[t])
  /\ \A p \in Procs : /\ arg[p] # NoOp => pc[p] = "push"
                      /\ InHandler(p) => p \in Runners

\* One thread shuts the scheduler down, and when it is done nothing is queued
\* and nobody is inside.
CloseOK ==
  /\ \A p, q \in Procs :
       pc[p] \in {"join", "end"} /\ pc[q] \in {"join", "end"} => p = q
  /\ (\E p \in Procs : pc[p] = "end") =>
       queue = <<>> /\ shut /\ \A q \in Procs : pc[q] \in {"out", "end"}
  /\ destroyed # {} => \E p \in Procs : pc[p] = "end"
  /\ shut => guard = {}

OpsInv == OneForEach /\ InOrder /\ KeepsOK /\ CloseOK

----------------------------------------------------------------------------
(* Places *)

\* Operations S move to l, all else stays.
MovesTo(S, l) ==
  \A m \in Places : \A o \in Ops :
    o \in Holding'[m] <=> IF o \in S THEN m = l ELSE o \in Holding[m]

LEMMA MoveKeeps ==
  ASSUME OneForEach, NEW S, NEW l \in Places, MovesTo(S, l)
  PROVE  OneForEach'
<1>1. Places' = Places
  BY DEF Places, Procs
<1>2. SUFFICES ASSUME NEW o \in Ops
               PROVE  \E k \in Places : \A m \in Places : o \in Holding'[m] <=> m = k
  BY <1>1 DEF OneForEach
<1>3. CASE o \in S
  BY <1>3 DEF MovesTo
<1>4. CASE o \notin S
  BY <1>4 DEF MovesTo, OneForEach
<1>5. QED
  BY <1>3, <1>4

\* The places of which there is one, and those that are a thread's.
LEMMA PlacesAre ==
  /\ \A kind \in {"unposted", "armed", "queue", "done", "destroyed"} :
       At(kind) \in Places
  /\ \A t \in Runners : With("private", t) \in Places /\ With("running", t) \in Places
  /\ \A p \in Procs : With("submitting", p) \in Places
BY DEF Places, At, With

LEMMA SubProcs == Runners \subseteq Procs
BY DEF Procs

LEMMA PlacesDiffer ==
  /\ \A a, b : At(a) = At(b) => a = b
  /\ \A a, b, p, q : With(a, p) = With(b, q) => a = b /\ p = q
  /\ \A a, b : \A p \in Procs : With(a, p) # At(b)
BY SchedulerAssumption DEF SchedulerAssumption, At, With, Procs

\* What a place holds.
LEMMA HoldingIs ==
  ASSUME NEW o \in Ops
  PROVE  /\ o \in Holding[At("unposted")] <=> o \in unposted
         /\ o \in Holding[At("armed")] <=> o \in armed
         /\ o \in Holding[At("queue")] <=> o \in ReadyOps(queue)
         /\ o \in Holding[At("done")] <=> o \in done
         /\ o \in Holding[At("destroyed")] <=> o \in destroyed
         /\ \A t \in Runners :
              /\ o \in Holding[With("private", t)] <=> o \in ReadyOps(pq[t])
              /\ o \in Holding[With("running", t)] <=> o = cur[t]
         /\ \A p \in Procs : o \in Holding[With("submitting", p)] <=> o = arg[p]
BY PlacesAre DEF Holding, InPlace, At, With


\* An operation that is in one place is in no other.
LEMMA OnlyAt ==
  ASSUME OneForEach, NEW o \in Ops, NEW k \in Places, o \in Holding[k]
  PROVE  /\ \A m \in Places : o \in Holding[m] <=> m = k
         /\ o \in armed <=> k = At("armed")
         /\ o \in unposted <=> k = At("unposted")
         /\ o \in done <=> k = At("done")
         /\ o \in destroyed <=> k = At("destroyed")
         /\ o \in ReadyOps(queue) <=> k = At("queue")
         /\ \A t \in Runners : /\ o \in ReadyOps(pq[t]) <=> k = With("private", t)
                               /\ o = cur[t] <=> k = With("running", t)
         /\ \A p \in Procs : o = arg[p] <=> k = With("submitting", p)
<1>1. \A m \in Places : o \in Holding[m] <=> m = k
  BY DEF OneForEach
<1>2. QED
  BY <1>1, HoldingIs, PlacesAre

\* What it is to move to l, place by place.
LEMMA Moves ==
  ASSUME NEW S, NEW l \in Places,
         \A o \in Ops :
           LET After(P, was) == IF o \in S THEN l = P ELSE was
           IN /\ o \in armed' <=> After(At("armed"), o \in armed)
              /\ o \in unposted' <=> After(At("unposted"), o \in unposted)
              /\ o \in done' <=> After(At("done"), o \in done)
              /\ o \in destroyed' <=> After(At("destroyed"), o \in destroyed)
              /\ o \in ReadyOps(queue') <=> After(At("queue"), o \in ReadyOps(queue))
              /\ \A t \in Runners :
                   /\ o \in ReadyOps(pq'[t])
                        <=> After(With("private", t), o \in ReadyOps(pq[t]))
                   /\ o = cur'[t] <=> After(With("running", t), o = cur[t])
              /\ \A p \in Procs :
                   o = arg'[p] <=> After(With("submitting", p), o = arg[p])
  PROVE  MovesTo(S, l)
<1>1. Places' = Places
  BY DEF Places, Procs
<1>2. ASSUME NEW m \in Places, NEW o \in Ops
      PROVE  o \in Holding'[m] <=> IF o \in S THEN m = l ELSE o \in Holding[m]
  <2>1. /\ o \in Holding[m] <=> InPlace(o, m)
        /\ o \in Holding'[m] <=> InPlace(o, m)'
    BY <1>1 DEF Holding
  <2>2. \/ \E kind \in {"unposted", "armed", "queue", "done", "destroyed"} :
             m = At(kind)
        \/ \E kind \in {"private", "running"}, t \in Runners : m = With(kind, t)
        \/ \E p \in Procs : m = With("submitting", p)
    BY DEF Places, At, With
  <2>3. QED
    BY <2>1, <2>2 DEF InPlace, At, With
<1>3. QED
  BY <1>2 DEF MovesTo

\* An action that moves no operation.
LEMMA StayKeeps ==
  ASSUME OneForEach, UNCHANGED <<armed, unposted, done, destroyed, cur, arg, pq>>,
         \A o \in Ops : o \in ReadyOps(queue') <=> o \in ReadyOps(queue)
  PROVE  OneForEach'
<1>1. Holding' = Holding
  BY DEF Holding, InPlace, Places, Procs
<1>2. QED
  BY <1>1 DEF OneForEach, Places, Procs

----------------------------------------------------------------------------
(* Sequences of operations without repetition *)

LEMMA AppendNew ==
  ASSUME NEW T, NEW q \in Seq(T), NEW x \in T
  PROVE  /\ \A y : y \in ReadyOps(Append(q, x)) <=> y \in ReadyOps(q) \/ y = x
         /\ NoRepeats(q) /\ x \notin ReadyOps(q) => NoRepeats(Append(q, x))
<1>1. /\ Len(Append(q, x)) = Len(q) + 1 /\ Len(q) \in Nat
      /\ \A i \in 1 .. Len(q) : Append(q, x)[i] = q[i]
      /\ Append(q, x)[Len(q) + 1] = x
      /\ DOMAIN q = 1 .. Len(q) /\ DOMAIN Append(q, x) = 1 .. Len(Append(q, x))
  OBVIOUS
<1>2. QED
  BY <1>1 DEF ReadyOps, NoRepeats

LEMMA ConcatNew ==
  ASSUME NEW T, NEW q \in Seq(T), NEW s \in Seq(T)
  PROVE  /\ \A y : y \in ReadyOps(q \o s) <=> y \in ReadyOps(q) \/ y \in ReadyOps(s)
         /\ /\ NoRepeats(q) /\ NoRepeats(s)
            /\ \A y \in ReadyOps(q) : y \notin ReadyOps(s)
            => NoRepeats(q \o s)
<1>1. /\ Len(q \o s) = Len(q) + Len(s) /\ Len(q) \in Nat /\ Len(s) \in Nat
      /\ \A i \in 1 .. Len(q) : (q \o s)[i] = q[i]
      /\ \A i \in 1 .. Len(s) : (q \o s)[Len(q) + i] = s[i]
      /\ \A i \in 1 .. Len(q \o s) : i > Len(q) =>
           i - Len(q) \in 1 .. Len(s) /\ (q \o s)[i] = s[i - Len(q)]
      /\ DOMAIN q = 1 .. Len(q) /\ DOMAIN s = 1 .. Len(s)
      /\ DOMAIN (q \o s) = 1 .. Len(q \o s)
  OBVIOUS
<1>2. \A y : y \in ReadyOps(q \o s) <=> y \in ReadyOps(q) \/ y \in ReadyOps(s)
  <2>1. ASSUME NEW y, y \in ReadyOps(q) PROVE y \in ReadyOps(q \o s)
    BY <1>1, <2>1 DEF ReadyOps
  <2>2. ASSUME NEW y, y \in ReadyOps(s) PROVE y \in ReadyOps(q \o s)
    <3>1. PICK i \in 1 .. Len(s) : y = s[i]
      BY <1>1, <2>2 DEF ReadyOps
    <3>2. Len(q) + i \in DOMAIN (q \o s) /\ (q \o s)[Len(q) + i] = y
      BY <1>1, <3>1
    <3>3. QED
      BY <3>2 DEF ReadyOps
  <2>3. ASSUME NEW y, y \in ReadyOps(q \o s)
        PROVE y \in ReadyOps(q) \/ y \in ReadyOps(s)
    <3>1. PICK i \in 1 .. Len(q \o s) : y = (q \o s)[i]
      BY <1>1, <2>3 DEF ReadyOps
    <3>2. QED
      BY <1>1, <3>1 DEF ReadyOps
  <2>4. QED
    BY <2>1, <2>2, <2>3
<1>3. ASSUME NoRepeats(q), NoRepeats(s), \A y \in ReadyOps(q) : y \notin ReadyOps(s)
      PROVE  NoRepeats(q \o s)
  <2>1. SUFFICES ASSUME NEW i \in 1 .. Len(q \o s), NEW j \in 1 .. Len(q \o s),
                        (q \o s)[i] = (q \o s)[j], i < j
                 PROVE  FALSE
    BY DEF NoRepeats
  <2>2. CASE j <= Len(q)
    BY <1>1, <1>3, <2>1, <2>2 DEF NoRepeats
  <2>3. CASE i > Len(q)
    BY <1>1, <1>3, <2>1, <2>3 DEF NoRepeats
  <2>4. CASE i <= Len(q) /\ j > Len(q)
    <3>1. (q \o s)[i] \in ReadyOps(q)
      BY <1>1, <2>1, <2>4 DEF ReadyOps
    <3>2. (q \o s)[j] \in ReadyOps(s)
      BY <1>1, <2>1, <2>4 DEF ReadyOps
    <3>3. QED
      BY <1>3, <2>1, <3>1, <3>2
  <2>5. QED
    BY <1>1, <2>1, <2>2, <2>3, <2>4
<1>4. QED
  BY <1>2, <1>3

LEMMA TailOld ==
  ASSUME NEW T, NEW q \in Seq(T), q # <<>>
  PROVE  /\ \A y : y \in ReadyOps(q) <=> y = Head(q) \/ y \in ReadyOps(Tail(q))
         /\ NoRepeats(q) => NoRepeats(Tail(q)) /\ Head(q) \notin ReadyOps(Tail(q))
<1>1. /\ Len(q) \in Nat /\ Len(q) > 0 /\ Len(Tail(q)) = Len(q) - 1
      /\ \A i \in 1 .. Len(Tail(q)) : Tail(q)[i] = q[i + 1]
      /\ Head(q) = q[1] /\ DOMAIN q = 1 .. Len(q)
      /\ DOMAIN Tail(q) = 1 .. Len(Tail(q))
  OBVIOUS
<1>2. \A i \in 1 .. Len(q) :
        i = 1 \/ (i - 1 \in 1 .. Len(Tail(q)) /\ q[i] = Tail(q)[i - 1])
  BY <1>1
<1>3. \A y : y \in ReadyOps(q) <=> y = Head(q) \/ y \in ReadyOps(Tail(q))
  <2>1. ASSUME NEW y, y \in ReadyOps(q)
        PROVE  y = Head(q) \/ y \in ReadyOps(Tail(q))
    <3>1. PICK i \in 1 .. Len(q) : y = q[i]
      BY <1>1, <2>1 DEF ReadyOps
    <3>2. QED
      BY <1>1, <1>2, <3>1 DEF ReadyOps
  <2>2. ASSUME NEW y, y \in ReadyOps(Tail(q))
        PROVE  y \in ReadyOps(q)
    <3>1. PICK i \in 1 .. Len(Tail(q)) : y = q[i + 1]
      BY <1>1, <2>2 DEF ReadyOps
    <3>2. i + 1 \in 1 .. Len(q)
      BY <1>1
    <3>3. QED
      BY <1>1, <3>1, <3>2 DEF ReadyOps
  <2>3. Head(q) \in ReadyOps(q)
    BY <1>1 DEF ReadyOps
  <2>4. QED
    BY <2>1, <2>2, <2>3
<1>4. QED
  BY <1>1, <1>2, <1>3 DEF ReadyOps, NoRepeats

LEMMA ReadySeqsNew ==
  ASSUME NEW S \in SUBSET Ops, NEW q \in ReadySeqs(S)
  PROVE  q \in Seq(Ops) /\ NoRepeats(q) /\ ReadyOps(q) \subseteq S
<1>1. PICK n \in 0 .. Cardinality(S) :
        q \in [1 .. n -> S] /\ \A i, j \in 1 .. n : q[i] = q[j] => i = j
  BY DEF ReadySeqs
<1>2. CASE n \in Nat
  BY <1>1, <1>2 DEF ReadyOps, NoRepeats
<1>3. QED
  BY <1>1, <1>2

LEMMA NoneInEmpty == ReadyOps(<<>>) = {} /\ NoRepeats(<<>>)
BY DEF ReadyOps, NoRepeats

----------------------------------------------------------------------------
(* Where threads go *)

\* Only p moves, but for sleepers that p wakes.
OnlyMoves(p) ==
  \A q \in Procs \ {p} :
    /\ pc'[q] = pc[q] \/ (pc[q] = "wait" /\ pc'[q] = "woken")
    /\ ret'[q] = ret[q]

\* The ways of giving up the lock.
LEMMA UnlockFacts ==
  ASSUME TypeOK, NEW p \in Procs, NEW next,
         \/ \E task \in BOOLEAN : WakeOneThreadAndUnlock(p, next, task)
         \/ SignalOneAndUnlock(p, next)
         \/ UnlockAndGo(p, next)
  PROVE  /\ OnlyMoves(p)
         /\ \/ pc'[p] = next /\ ret'[p] = ret[p]
            \/ pc'[p] = "signal" /\ ret'[p] = next
<1>1. \/ pc' = [pc EXCEPT ![p] = "signal"] /\ ret' = [ret EXCEPT ![p] = next]
      \/ pc' = [pc EXCEPT ![p] = next] /\ UNCHANGED ret
  BY DEF WakeOneThreadAndUnlock, SignalOneAndUnlock, UnlockAndGo
<1>2. QED
  BY <1>1 DEF TypeOK, OnlyMoves

LEMMA StopFacts ==
  ASSUME NEW p \in Procs, NEW next, StopAllThreads(p, next), UNCHANGED ret
  PROVE  OnlyMoves(p) /\ pc'[p] = next /\ ret'[p] = ret[p]
BY DEF StopAllThreads, OnlyMoves

LEMMA CloseStays ==
  ASSUME CloseOK, NEW p \in Procs, OnlyMoves(p),
         pc[p] \notin {"join", "end"}, pc[p] = "out" => ~shut,
         pc'[p] \notin {"join", "end"},
         UNCHANGED <<shut, destroyed>>, shut => UNCHANGED guard
  PROVE  CloseOK'
<1>1. \A q \in Procs : pc[q] # "end"
  BY DEF CloseOK
<1>2. \A q \in Procs : pc'[q] \in {"join", "end"} => pc'[q] = pc[q]
  BY DEF OnlyMoves
<1>3. QED
  BY <1>1, <1>2 DEF CloseOK, Procs

\* A thread that keeps what it has.
LEMMA KeepsStay ==
  ASSUME KeepsOK, NEW p \in Procs, OnlyMoves(p),
         UNCHANGED <<cur, pq, pw, arg>>,
         InHandler(p) <=> InHandler(p)', pc[p] # "push",
         pc[p] \in {"tclean", "wpush", "wstop"}
           => pc'[p] \in {"tclean", "wpush", "wstop"}
  PROVE  KeepsOK'
BY DEF KeepsOK, OnlyMoves, InHandler, Procs


----------------------------------------------------------------------------
(* Each action keeps the operations in their places. *)

LEMMA EnterOps ==
  ASSUME IInv, OpsInv, NEW t \in Runners, NEW m \in Modes,
         Enter(t, m)
  PROVE  OpsInv'
<1> USE SchedulerAssumption DEF SchedulerAssumption, OpsInv, IInv, TypeOK
<1>1. OneForEach' /\ InOrder'
  BY StayKeeps DEF Enter, sharedVars, wakeVars, opVars, InOrder
<1>2. /\ OnlyMoves(t)
      /\ pc[t] = "out" /\ pc'[t] \in {"stop", "loop"} /\ ~shut
      /\ pc'[t] = "stop" => ret'[t] = "out"
      /\ UNCHANGED <<cur, pq, pw, arg, shut, destroyed, guard>>
  BY DEF Enter, OnlyMoves, Procs, sharedVars, opVars
<1>3. KeepsOK'
  BY <1>2, KeepsStay, SubProcs DEF InHandler
<1>4. CloseOK'
  BY <1>2, CloseStays, SubProcs
<1>5. QED
  BY <1>1, <1>3, <1>4

LEMMA LeaveStoppedOps ==
  ASSUME IInv, OpsInv, NEW t \in Runners, LeaveStopped(t)
  PROVE  OpsInv'
<1> USE SchedulerAssumption DEF SchedulerAssumption, OpsInv, IInv, TypeOK
<1>1. OneForEach' /\ InOrder'
  BY StayKeeps DEF LeaveStopped, CanLock, UnlockAndGo, sharedVars, opVars,
     InOrder
<1>2. KeepsOK'
  BY DEF LeaveStopped, CanLock, UnlockAndGo, sharedVars, opVars, KeepsOK,
     InHandler, Procs
<1>3. CloseOK'
  BY DEF LeaveStopped, CanLock, UnlockAndGo, sharedVars, opVars, CloseOK,
     Procs, ShutOK
<1>4. QED
  BY <1>1, <1>2, <1>3

LEMMA FindNothingOps ==
  ASSUME IInv, OpsInv, NEW t \in Runners, FindNothing(t)
  PROVE  OpsInv'
<1> USE SchedulerAssumption DEF SchedulerAssumption, OpsInv, IInv, TypeOK
<1>1. OneForEach' /\ InOrder'
  BY StayKeeps DEF FindNothing, CanLock, PollLike, sharedVars, opVars, InOrder
<1>2. KeepsOK'
  BY DEF FindNothing, CanLock, PollLike, sharedVars, opVars, KeepsOK,
     InHandler, Procs
<1>3. CloseOK'
  BY DEF FindNothing, CanLock, PollLike, sharedVars, opVars, CloseOK, Procs,
     ShutOK
<1>4. QED
  BY <1>1, <1>2, <1>3

LEMMA WakeUpOps ==
  ASSUME IInv, OpsInv, NEW t \in Runners, WakeUp(t)
  PROVE  OpsInv'
<1> USE SchedulerAssumption DEF SchedulerAssumption, OpsInv, IInv, TypeOK
<1>1. OneForEach' /\ InOrder'
  BY StayKeeps DEF WakeUp, sharedVars, wakeVars, opVars, InOrder
<1>2. KeepsOK'
  BY DEF WakeUp, sharedVars, wakeVars, opVars, KeepsOK, InHandler, Procs
<1>3. CloseOK'
  BY DEF WakeUp, sharedVars, wakeVars, opVars, CloseOK, Procs, ShutOK
<1>4. QED
  BY <1>1, <1>2, <1>3

LEMMA ReacquireOps ==
  ASSUME IInv, OpsInv, NEW t \in Runners, Reacquire(t)
  PROVE  OpsInv'
<1> USE SchedulerAssumption DEF SchedulerAssumption, OpsInv, IInv, TypeOK
<1>1. OneForEach' /\ InOrder'
  BY StayKeeps DEF Reacquire, CanLock, sharedVars, opVars, InOrder
<1>2. /\ OnlyMoves(t)
      /\ pc[t] = "woken" /\ pc'[t] \in {"loop", "loop2", "wait"}
      /\ UNCHANGED <<cur, pq, pw, arg, shut, destroyed, guard>>
  BY DEF Reacquire, OnlyMoves, Procs, sharedVars, opVars
<1>3. KeepsOK'
  BY <1>2, KeepsStay, SubProcs DEF InHandler
<1>4. CloseOK'
  BY <1>2, CloseStays, SubProcs
<1>5. QED
  BY <1>1, <1>3, <1>4

LEMMA SignalOps ==
  ASSUME IInv, OpsInv, NEW p \in Procs, Signal(p)
  PROVE  OpsInv'
<1> USE SchedulerAssumption DEF SchedulerAssumption, OpsInv, IInv, TypeOK
<1>1. OneForEach' /\ InOrder'
  BY StayKeeps DEF Signal, sharedVars, wakeVars, opVars, InOrder
<1>2. /\ OnlyMoves(p)
      /\ pc[p] = "signal" /\ pc'[p] = ret[p] /\ ret'[p] = ret[p]
      /\ UNCHANGED <<cur, pq, pw, arg, shut, destroyed, guard>>
      /\ ret[p] \in {"out", "exec", "task", "taskpoll", "loop"}
  <2>1. /\ pc[p] = "signal"
        /\ UNCHANGED <<ret, cur, pq, pw, arg, shut, destroyed, guard>>
        /\ \/ pc' = [pc EXCEPT ![p] = ret[p]]
           \/ \E q \in Procs :
                pc[q] = "wait" /\ pc' = [pc EXCEPT ![p] = ret[p], ![q] = "woken"]
    BY DEF Signal, sharedVars, opVars
  <2>2. QED
    BY <2>1 DEF OnlyMoves
<1>3. KeepsOK'
  BY <1>2, KeepsStay DEF InHandler
<1>4. CloseOK'
  BY <1>2, CloseStays
<1>5. QED
  BY <1>1, <1>3, <1>4

LEMMA StopOps ==
  ASSUME IInv, OpsInv, NEW p \in Procs, Stop(p)
  PROVE  OpsInv'
<1> USE SchedulerAssumption DEF SchedulerAssumption, OpsInv, IInv, TypeOK
<1>1. OneForEach' /\ InOrder'
  BY StayKeeps DEF Stop, CanLock, InterruptTask, StopAllThreads, opVars,
     InOrder
<1>2. /\ OnlyMoves(p)
      /\ \/ pc[p] = "stop" /\ pc'[p] = ret[p] /\ ret[p] \in {"out", "exec"}
         \/ pc[p] = "wstop" /\ pc'[p] = "wpush"
      /\ ret'[p] = ret[p]
      /\ UNCHANGED <<cur, pq, pw, arg, shut, destroyed, guard>>
  <2>1. /\ pc[p] \in {"stop", "wstop"} /\ UNCHANGED ret
        /\ StopAllThreads(p, IF pc[p] = "stop" THEN ret[p] ELSE "wpush")
        /\ UNCHANGED <<cur, pq, pw, arg, shut, destroyed, guard>>
    BY DEF Stop, opVars
  <2>2. QED
    BY <2>1, StopFacts DEF ControlOK, CallOK
<1>3. KeepsOK'
  BY <1>2, KeepsStay DEF InHandler
<1>4. CloseOK'
  BY <1>2, CloseStays
<1>5. QED
  BY <1>1, <1>3, <1>4

LEMMA TakeTaskOps ==
  ASSUME IInv, OpsInv, NEW t \in Runners, TakeTask(t)
  PROVE  OpsInv'
<1> USE SchedulerAssumption DEF SchedulerAssumption, OpsInv, IInv, TypeOK
<1>1. OneForEach' /\ InOrder'
  <2>1. /\ queue # <<>> /\ Head(queue) = TaskOp /\ queue' = Tail(queue)
        /\ UNCHANGED <<armed, unposted, done, destroyed, cur, arg, pq>>
    BY DEF TakeTask, AtFront, opVars
  <2>2. QED
    BY <2>1, TailOld, StayKeeps DEF InOrder
<1>2. /\ OnlyMoves(t)
      /\ pc[t] \in {"loop", "loop2"}
      /\ \/ pc'[t] \in {"task", "taskpoll"}
         \/ pc'[t] = "signal" /\ ret'[t] \in {"task", "taskpoll"}
      /\ UNCHANGED <<cur, pq, pw, arg, shut, destroyed, guard>>
  <2>1. \E next \in {"task", "taskpoll"} :
          SignalOneAndUnlock(t, next) \/ UnlockAndGo(t, next)
    BY DEF TakeTask
  <2>2. QED
    BY <2>1, UnlockFacts DEF TakeTask, AtFront, opVars, Procs
<1>3. KeepsOK'
  BY <1>2, KeepsStay, SubProcs DEF InHandler
<1>4. CloseOK'
  BY <1>2, CloseStays, SubProcs
<1>5. QED
  BY <1>1, <1>3, <1>4

LEMMA TakeOpMoves ==
  ASSUME IInv, OpsInv, NEW t \in Runners, TakeOp(t)
  PROVE  OneForEach' /\ InOrder'
<1>1. /\ queue # <<>> /\ Head(queue) # TaskOp /\ queue' = Tail(queue)
      /\ cur' = [cur EXCEPT ![t] = Head(queue)] /\ cur[t] = NoOp
      /\ UNCHANGED <<armed, unposted, done, destroyed, arg, pq>>
  BY DEF TakeOp, AtFront, IsOperation, OpsInv, KeepsOK, InHandler
<1>2. queue \in Seq(Ops \cup {TaskOp}) /\ cur \in [Runners -> Ops \cup {NoOp}]
  BY DEF IInv, TypeOK
<1>3. Head(queue) \in Ops /\ Head(queue) \in ReadyOps(queue)
  BY <1>1, <1>2, TailOld
<1>4. Head(queue) \in Holding[At("queue")] /\ OneForEach
  BY <1>3, HoldingIs DEF OpsInv
<1>5. /\ \A x : x \in ReadyOps(queue') <=> x \in ReadyOps(queue) /\ x # Head(queue)
      /\ NoRepeats(queue')
  BY <1>1, <1>2, TailOld DEF OpsInv, InOrder
<1>6. /\ cur'[t] = Head(queue) /\ NoOp \notin Ops
      /\ \A u \in Runners \ {t} : cur'[u] = cur[u]
  BY <1>1, <1>2, SchedulerAssumption DEF SchedulerAssumption
<1>7. MovesTo({Head(queue)}, With("running", t))
  BY <1>1, <1>3, <1>4, <1>5, <1>6, Moves, OnlyAt, PlacesAre, PlacesDiffer,
     SubProcs
<1>8. QED
  BY <1>1, <1>4, <1>5, <1>7, MoveKeeps, PlacesAre DEF OpsInv, InOrder

LEMMA TakeOpOps ==
  ASSUME IInv, OpsInv, NEW t \in Runners, TakeOp(t)
  PROVE  OpsInv'
<1> USE SchedulerAssumption DEF SchedulerAssumption, OpsInv, IInv, TypeOK
<1>1. OneForEach' /\ InOrder'
  BY TakeOpMoves
<1>2. /\ OnlyMoves(t)
      /\ pc[t] \in {"loop", "loop2", "loop3"}
      /\ pc'[t] = "exec" \/ (pc'[t] = "signal" /\ ret'[t] = "exec")
      /\ UNCHANGED <<pq, pw, arg, shut, destroyed, guard>>
      /\ cur' = [cur EXCEPT ![t] = Head(queue)]
  <2>1. UnlockAndGo(t, "exec")
        \/ \E task \in BOOLEAN : WakeOneThreadAndUnlock(t, "exec", task)
    BY DEF TakeOp
  <2>2. QED
    BY <2>1, UnlockFacts DEF TakeOp, AtFront, Procs
<1>3. KeepsOK'
  BY <1>2 DEF KeepsOK, OnlyMoves, InHandler, Procs
<1>4. CloseOK'
  BY <1>2, CloseStays, SubProcs
<1>5. QED
  BY <1>1, <1>3, <1>4

LEMMA PassTaskOnOps ==
  ASSUME IInv, OpsInv, NEW t \in Runners, PassTaskOn(t)
  PROVE  OpsInv'
<1> USE SchedulerAssumption DEF SchedulerAssumption, OpsInv, IInv, TypeOK
<1>1. OneForEach' /\ InOrder'
  BY StayKeeps DEF PassTaskOn, CanLock, SignalOneAndUnlock, UnlockAndGo,
     Waiters, sharedVars, opVars, InOrder
<1>2. /\ OnlyMoves(t)
      /\ pc[t] = "loop3"
      /\ pc'[t] = "out" \/ (pc'[t] = "signal" /\ ret'[t] = "out")
      /\ UNCHANGED <<cur, pq, pw, arg, shut, destroyed, guard>>
  <2>1. SignalOneAndUnlock(t, "out") \/ UnlockAndGo(t, "out")
    BY DEF PassTaskOn
  <2>2. QED
    BY <2>1, UnlockFacts DEF PassTaskOn, sharedVars, opVars, Procs
<1>3. KeepsOK'
  BY <1>2, KeepsStay, SubProcs DEF InHandler
<1>4. CloseOK'
  BY <1>2, CloseStays, SubProcs
<1>5. QED
  BY <1>1, <1>3, <1>4

LEMMA TaskReturnMoves ==
  ASSUME IInv, OpsInv, NEW t \in Runners, NEW q,
         TaskReturn(t, q)
  PROVE  OneForEach' /\ InOrder'
<1>1. /\ pq' = [pq EXCEPT ![t] = @ \o q] /\ armed' = armed \ ReadyOps(q)
      /\ q \in ReadySeqs(armed)
      /\ UNCHANGED <<queue, done, unposted, destroyed, arg, cur>>
  BY DEF TaskReturn, StillArmed, sharedVars
<1>2. /\ q \in Seq(Ops) /\ NoRepeats(q) /\ ReadyOps(q) \subseteq armed
      /\ armed \subseteq Ops /\ pq \in [Runners -> Seq(Ops)]
  BY <1>1, ReadySeqsNew DEF IInv, TypeOK
<1>3. (\A o \in ReadyOps(q) : o \in Holding[At("armed")]) /\ OneForEach
  BY <1>2, HoldingIs DEF OpsInv
<1>4. /\ \A o \in ReadyOps(pq[t]) : o \notin ReadyOps(q)
      /\ NoRepeats(pq[t])
  BY <1>2, <1>3, OnlyAt, PlacesAre, PlacesDiffer, SubProcs DEF OpsInv, InOrder
<1>5. /\ pq'[t] = pq[t] \o q
      /\ \A u \in Runners \ {t} : pq'[u] = pq[u]
      /\ \A o : o \in ReadyOps(pq'[t]) <=> o \in ReadyOps(pq[t]) \/ o \in ReadyOps(q)
      /\ NoRepeats(pq'[t])
  <2>1. pq'[t] = pq[t] \o q /\ \A u \in Runners \ {t} : pq'[u] = pq[u]
    BY <1>1, <1>2
  <2>2. pq[t] \in Seq(Ops)
    BY <1>2
  <2>3. QED
    BY <1>2, <1>4, <2>1, <2>2, ConcatNew
<1>6. MovesTo(ReadyOps(q), With("private", t))
  <2>1. \A o : o \in armed' <=> o \in armed /\ o \notin ReadyOps(q)
    BY <1>1
  <2>2. ReadyOps(q) \subseteq Ops
    BY <1>2
  <2>3. UNCHANGED <<queue, done, unposted, destroyed, arg, cur>>
    BY <1>1
  <2>4. \A o \in ReadyOps(q) :
          /\ o \notin armed' /\ o \notin unposted' /\ o \notin done'
          /\ o \notin destroyed' /\ o \notin ReadyOps(queue') /\ o \in ReadyOps(pq'[t])
          /\ \A u \in Runners \ {t} : o \notin ReadyOps(pq'[u])
          /\ \A u \in Runners : o # cur'[u]
          /\ \A p \in Procs : o # arg'[p]
    BY <1>3, <1>5, <2>1, <2>2, <2>3, OnlyAt, PlacesAre, PlacesDiffer, SubProcs
  <2>5. QED
    <3>1. \A o \in Ops \ ReadyOps(q) :
            /\ o \in armed' <=> o \in armed
            /\ \A u \in Runners : o \in ReadyOps(pq'[u]) <=> o \in ReadyOps(pq[u])
      BY <1>5, <2>1
    <3>2. QED
      BY <2>2, <2>3, <2>4, <3>1, Moves, PlacesAre, PlacesDiffer, SubProcs
<1>7. QED
  BY <1>1, <1>3, <1>5, <1>6, MoveKeeps, PlacesAre DEF OpsInv, InOrder

LEMMA TaskReturnOps ==
  ASSUME IInv, OpsInv, NEW t \in Runners, NEW q,
         TaskReturn(t, q)
  PROVE  OpsInv'
<1> USE SchedulerAssumption DEF SchedulerAssumption, OpsInv, IInv, TypeOK
<1>1. OneForEach' /\ InOrder'
  BY TaskReturnMoves
<1>2. KeepsOK'
  BY DEF TaskReturn, sharedVars, KeepsOK, InHandler, Procs
<1>3. CloseOK'
  BY DEF TaskReturn, sharedVars, CloseOK, Procs, ShutOK
<1>4. QED
  BY <1>1, <1>2, <1>3

LEMMA TaskCleanupMoves ==
  ASSUME IInv, OpsInv, NEW t \in Runners, TaskCleanup(t)
  PROVE  OneForEach' /\ InOrder'
<1>1. /\ pq' = [pq EXCEPT ![t] = <<>>] /\ pc[t] = "tclean"
      /\ queue' = Append(queue \o pq[t], TaskOp)
      /\ UNCHANGED <<armed, done, unposted, destroyed, arg, cur>>
  BY DEF TaskCleanup
<1>2. /\ ReadyOps(pq[t]) \subseteq Ops
      /\ \A o \in ReadyOps(pq[t]) : o \in Holding[With("private", t)]
      /\ OneForEach
  <2>1. ReadyOps(pq[t]) \subseteq Ops
    BY DEF ReadyOps, IInv, TypeOK
  <2>2. QED
    BY <2>1, HoldingIs DEF OpsInv
<1>3. /\ queue \in Seq(Ops \cup {TaskOp}) /\ pq[t] \in Seq(Ops \cup {TaskOp})
      /\ \A o \in ReadyOps(queue) : o \notin ReadyOps(pq[t])
  <2>1. pq[t] \in Seq(Ops) /\ queue \in Seq(Ops \cup {TaskOp})
    BY DEF IInv, TypeOK
  <2>2. QED
    BY <1>2, <2>1, OnlyAt, PlacesAre, PlacesDiffer, SubProcs
<1>4. /\ \A o : o \in ReadyOps(queue \o pq[t])
                  <=> o \in ReadyOps(queue) \/ o \in ReadyOps(pq[t])
      /\ NoRepeats(queue \o pq[t])
  BY <1>3, ConcatNew DEF OpsInv, InOrder
<1>5. /\ \A o \in Ops : o \in ReadyOps(queue')
                          <=> o \in ReadyOps(queue) \/ o \in ReadyOps(pq[t])
      /\ NoRepeats(queue')
  <2>1. TaskOp \notin ReadyOps(queue) /\ TaskOp \notin Ops
    <3>1. TaskOp \notin Ops
      BY SchedulerAssumption DEF SchedulerAssumption
    <3>2. HasTask(t) /\ t \in Procs
      BY <1>1 DEF HasTask, TaskPCs, Procs
    <3>3. ~Queued(TaskOp, queue)
      BY <3>2 DEF IInv, TaskInOnePlace
    <3>4. DOMAIN queue = 1 .. Len(queue)
      BY DEF IInv, TypeOK
    <3>5. QED
      BY <3>1, <3>3, <3>4 DEF Queued, ReadyOps
  <2>2. TaskOp \notin ReadyOps(queue \o pq[t])
    BY <1>2, <1>4, <2>1
  <2> DEFINE Q == queue \o pq[t]
  <2>3. Q \in Seq(Ops \cup {TaskOp})
    BY <1>3
  <2>4. /\ \A o : o \in ReadyOps(Append(Q, TaskOp)) <=> o \in ReadyOps(Q) \/ o = TaskOp
        /\ NoRepeats(Append(Q, TaskOp))
    <3> HIDE DEF Q
    <3>1. TaskOp \notin ReadyOps(Q) /\ NoRepeats(Q)
      BY <1>4, <2>2 DEF Q
    <3>2. TaskOp \in Ops \cup {TaskOp}
      OBVIOUS
    <3>3. QED
      BY <2>3, <3>1, <3>2, AppendNew
  <2>5. QED
    BY <1>1, <1>4, <2>1, <2>4
<1>6. /\ \A u \in Runners \ {t} : pq'[u] = pq[u]
      /\ ReadyOps(pq'[t]) = {} /\ NoRepeats(pq'[t])
  BY <1>1, NoneInEmpty DEF IInv, TypeOK
<1>7. MovesTo(ReadyOps(pq[t]), At("queue"))
  BY <1>1, <1>2, <1>5, <1>6, Moves, OnlyAt, PlacesAre, PlacesDiffer, SubProcs
<1>8. QED
  BY <1>1, <1>2, <1>5, <1>6, <1>7, MoveKeeps, PlacesAre DEF OpsInv, InOrder

LEMMA TaskCleanupOps ==
  ASSUME IInv, OpsInv, NEW t \in Runners, TaskCleanup(t)
  PROVE  OpsInv'
<1> USE SchedulerAssumption DEF SchedulerAssumption, OpsInv, IInv, TypeOK
<1>1. OneForEach' /\ InOrder'
  BY TaskCleanupMoves
<1>2. KeepsOK'
  BY DEF TaskCleanup, CanLock, KeepsOK, InHandler, Procs
<1>3. CloseOK'
  BY DEF TaskCleanup, CanLock, CloseOK, Procs, ShutOK
<1>4. QED
  BY <1>1, <1>2, <1>3

LEMMA CompleteOpMoves ==
  ASSUME IInv, OpsInv, NEW t \in Runners, NEW throws \in BOOLEAN,
         CompleteOp(t, throws)
  PROVE  OneForEach' /\ InOrder'
<1>1. /\ cur' = [cur EXCEPT ![t] = NoOp] /\ done' = done \cup {cur[t]}
      /\ pc[t] = "exec"
      /\ UNCHANGED <<queue, armed, unposted, destroyed, arg, pq>>
  BY DEF CompleteOp
<1>2. cur[t] \in Ops
  BY <1>1 DEF IInv, TypeOK, ControlOK, HandlerOK, InHandler
<1>3. cur[t] \in Holding[With("running", t)] /\ OneForEach
  BY <1>2, HoldingIs DEF OpsInv
<1>4. /\ cur'[t] = NoOp /\ NoOp \notin Ops
      /\ \A u \in Runners \ {t} : cur'[u] = cur[u]
  BY <1>1, SchedulerAssumption DEF SchedulerAssumption, IInv, TypeOK
<1>5. MovesTo({cur[t]}, At("done"))
  BY <1>1, <1>2, <1>3, <1>4, Moves, OnlyAt, PlacesAre, PlacesDiffer, SubProcs
<1>6. QED
  BY <1>1, <1>3, <1>5, MoveKeeps, PlacesAre DEF OpsInv, InOrder

LEMMA CompleteOpOps ==
  ASSUME IInv, OpsInv, NEW t \in Runners, NEW throws \in BOOLEAN,
         CompleteOp(t, throws)
  PROVE  OpsInv'
<1> USE SchedulerAssumption DEF SchedulerAssumption, OpsInv, IInv, TypeOK
<1>1. OneForEach' /\ InOrder'
  BY CompleteOpMoves
<1>2. KeepsOK'
  BY DEF CompleteOp, wakeVars, KeepsOK, InHandler, Procs
<1>3. CloseOK'
  BY DEF CompleteOp, wakeVars, CloseOK, Procs, ShutOK
<1>4. QED
  BY <1>1, <1>2, <1>3

LEMMA WorkPushMoves ==
  ASSUME IInv, OpsInv, NEW t \in Runners, WorkPush(t)
  PROVE  OneForEach' /\ InOrder'
<1>1. /\ pq' = [pq EXCEPT ![t] = <<>>]
      /\ queue' = queue \o pq[t]
      /\ UNCHANGED <<armed, done, unposted, destroyed, arg, cur>>
  BY DEF WorkPush, IInv, TypeOK
<1>2. /\ ReadyOps(pq[t]) \subseteq Ops
      /\ \A o \in ReadyOps(pq[t]) : o \in Holding[With("private", t)]
      /\ OneForEach
  <2>1. ReadyOps(pq[t]) \subseteq Ops
    BY DEF ReadyOps, IInv, TypeOK
  <2>2. QED
    BY <2>1, HoldingIs DEF OpsInv
<1>3. /\ queue \in Seq(Ops \cup {TaskOp}) /\ pq[t] \in Seq(Ops \cup {TaskOp})
      /\ \A o \in ReadyOps(queue) : o \notin ReadyOps(pq[t])
  <2>1. pq[t] \in Seq(Ops) /\ queue \in Seq(Ops \cup {TaskOp})
    BY DEF IInv, TypeOK
  <2>2. QED
    BY <1>2, <2>1, OnlyAt, PlacesAre, PlacesDiffer, SubProcs
<1>4. /\ \A o : o \in ReadyOps(queue \o pq[t])
                  <=> o \in ReadyOps(queue) \/ o \in ReadyOps(pq[t])
      /\ NoRepeats(queue \o pq[t])
  BY <1>3, ConcatNew DEF OpsInv, InOrder
<1>5. /\ \A o \in Ops : o \in ReadyOps(queue')
                          <=> o \in ReadyOps(queue) \/ o \in ReadyOps(pq[t])
      /\ NoRepeats(queue')
  BY <1>1, <1>4
<1>6. /\ \A u \in Runners \ {t} : pq'[u] = pq[u]
      /\ ReadyOps(pq'[t]) = {} /\ NoRepeats(pq'[t])
  BY <1>1, NoneInEmpty DEF IInv, TypeOK
<1>7. MovesTo(ReadyOps(pq[t]), At("queue"))
  BY <1>1, <1>2, <1>5, <1>6, Moves, OnlyAt, PlacesAre, PlacesDiffer, SubProcs
<1>8. QED
  BY <1>1, <1>2, <1>5, <1>6, <1>7, MoveKeeps, PlacesAre DEF OpsInv, InOrder

LEMMA WorkPushOps ==
  ASSUME IInv, OpsInv, NEW t \in Runners, WorkPush(t)
  PROVE  OpsInv'
<1> USE SchedulerAssumption DEF SchedulerAssumption, OpsInv, IInv, TypeOK
<1>1. OneForEach' /\ InOrder'
  BY WorkPushMoves
<1>2. KeepsOK'
  BY DEF WorkPush, CanLock, KeepsOK, InHandler, Procs, ControlOK, CleanOK
<1>3. CloseOK'
  BY DEF WorkPush, CanLock, CloseOK, Procs, ControlOK, CleanOK, ShutOK
<1>4. QED
  BY <1>1, <1>2, <1>3

LEMMA PostMoves ==
  ASSUME IInv, OpsInv, NEW p \in Procs, NEW o \in Ops, NEW c \in BOOLEAN,
         Post(p, o, c)
  PROVE  OneForEach' /\ InOrder'
<1>1. /\ unposted' = unposted \ {o} /\ o \in unposted
      /\ UNCHANGED <<queue, armed, done, destroyed, cur>>
      /\ \/ pc[p] = "exec" /\ pq' = [pq EXCEPT ![p] = Append(@, o)] /\ UNCHANGED arg
         \/ arg' = [arg EXCEPT ![p] = o] /\ UNCHANGED pq
      /\ pc[p] \in {"out", "exec"}
  BY DEF Post, CanCall, InScheduler, sharedVars
<1>2. o \in Holding[At("unposted")] /\ OneForEach
  BY <1>1, HoldingIs DEF OpsInv
<1>3. CASE pc[p] = "exec" /\ pq' = [pq EXCEPT ![p] = Append(@, o)] /\ UNCHANGED arg
  <2>1. p \in Runners
    BY <1>3 DEF OpsInv, KeepsOK, InHandler
  <2>2. /\ pq[p] \in Seq(Ops) /\ pq'[p] = Append(pq[p], o)
        /\ \A u \in Runners \ {p} : pq'[u] = pq[u]
    BY <1>3, <2>1 DEF IInv, TypeOK
  <2>3. o \notin ReadyOps(pq[p])
    BY <1>2, <2>1, OnlyAt, PlacesAre, PlacesDiffer, SubProcs
  <2>4. /\ \A x : x \in ReadyOps(pq'[p]) <=> x \in ReadyOps(pq[p]) \/ x = o
        /\ NoRepeats(pq'[p])
    BY <2>1, <2>2, <2>3, AppendNew DEF OpsInv, InOrder
  <2>5. MovesTo({o}, With("private", p))
    BY <1>1, <1>2, <1>3, <2>1, <2>2, <2>4, Moves, OnlyAt, PlacesAre,
       PlacesDiffer, SubProcs
  <2>6. QED
    BY <1>1, <1>2, <2>1, <2>2, <2>4, <2>5, MoveKeeps, PlacesAre DEF OpsInv,
       InOrder
<1>4. CASE arg' = [arg EXCEPT ![p] = o] /\ UNCHANGED pq
  <2>1. /\ arg'[p] = o /\ arg[p] = NoOp /\ NoOp \notin Ops
        /\ \A q \in Procs \ {p} : arg'[q] = arg[q]
    BY <1>1, <1>4, SchedulerAssumption DEF SchedulerAssumption, IInv, TypeOK,
       OpsInv, KeepsOK
  <2>2. MovesTo({o}, With("submitting", p))
    BY <1>1, <1>2, <1>4, <2>1, Moves, OnlyAt, PlacesAre, PlacesDiffer, SubProcs
  <2>3. QED
    BY <1>1, <1>2, <1>4, <2>2, MoveKeeps, PlacesAre DEF OpsInv, InOrder
<1>5. QED
  BY <1>1, <1>3, <1>4

LEMMA PostOps ==
  ASSUME IInv, OpsInv, NEW p \in Procs, NEW o \in Ops, NEW c \in BOOLEAN,
         Post(p, o, c)
  PROVE  OpsInv'
<1> USE SchedulerAssumption DEF SchedulerAssumption, OpsInv, IInv, TypeOK
<1>1. OneForEach' /\ InOrder'
  BY PostMoves
<1>2. /\ OnlyMoves(p)
      /\ (pc[p] = "out" /\ ~shut) \/ pc[p] = "exec"
      /\ UNCHANGED <<cur, shut, destroyed, guard>>
      /\ \/ pc[p] = "exec" /\ UNCHANGED <<pc, ret, arg>>
            /\ pq' = [pq EXCEPT ![p] = Append(@, o)]
            /\ pw' = [pw EXCEPT ![p] = @ + 1]
         \/ pc'[p] = "push" /\ ret'[p] = pc[p] /\ UNCHANGED <<pq, pw>>
            /\ arg' = [arg EXCEPT ![p] = o]
  BY DEF Post, CanCall, InScheduler, ctlVars, OnlyMoves
<1>3. KeepsOK'
  <2>1. CASE pq' = [pq EXCEPT ![p] = Append(@, o)] /\ pw' = [pw EXCEPT ![p] = @ + 1]
             /\ pc[p] = "exec" /\ UNCHANGED <<pc, ret, arg>>
    <3>1. p \in Runners
      BY <2>1 DEF KeepsOK, InHandler
    <3>2. /\ pq'[p] = Append(pq[p], o) /\ pw'[p] = pw[p] + 1
          /\ Len(pq'[p]) = Len(pq[p]) + 1 /\ Len(pq[p]) \in Nat
          /\ \A u \in Runners \ {p} : pq'[u] = pq[u] /\ pw'[u] = pw[u]
      BY <2>1, <3>1
    <3>3. QED
      BY <1>2, <2>1, <3>1, <3>2 DEF KeepsOK, InHandler, Procs
  <2>2. CASE pc'[p] = "push" /\ ret'[p] = pc[p] /\ UNCHANGED <<pq, pw>>
             /\ arg' = [arg EXCEPT ![p] = o]
    BY <1>2, <2>2 DEF KeepsOK, OnlyMoves, InHandler, Procs
  <2>3. QED
    BY <1>2, <2>1, <2>2
<1>4. CloseOK'
  BY <1>2, CloseStays
<1>5. QED
  BY <1>1, <1>3, <1>4

LEMMA PushMoves ==
  ASSUME IInv, OpsInv, NEW p \in Procs, Push(p)
  PROVE  OneForEach' /\ InOrder'
<1>1. /\ arg' = [arg EXCEPT ![p] = NoOp] /\ queue' = Append(queue, arg[p])
      /\ pc[p] = "push"
      /\ UNCHANGED <<armed, done, unposted, destroyed, pq, cur>>
  BY DEF Push
<1>2. arg[p] \in Ops /\ queue \in Seq(Ops \cup {TaskOp})
  BY <1>1 DEF IInv, TypeOK, ControlOK, PushOK
<1>3. arg[p] \in Holding[With("submitting", p)] /\ OneForEach
  BY <1>2, HoldingIs DEF OpsInv
<1>4. arg[p] \notin ReadyOps(queue)
  BY <1>2, <1>3, OnlyAt, PlacesAre, PlacesDiffer, SubProcs
<1>5. /\ \A o : o \in ReadyOps(queue') <=> o \in ReadyOps(queue) \/ o = arg[p]
      /\ NoRepeats(queue')
  BY <1>1, <1>2, <1>4, AppendNew DEF OpsInv, InOrder
<1>6. /\ arg'[p] = NoOp /\ NoOp \notin Ops
      /\ \A q \in Procs \ {p} : arg'[q] = arg[q]
  BY <1>1, SchedulerAssumption DEF SchedulerAssumption, IInv, TypeOK
<1>7. MovesTo({arg[p]}, At("queue"))
  BY <1>1, <1>2, <1>3, <1>5, <1>6, Moves, OnlyAt, PlacesAre, PlacesDiffer,
     SubProcs
<1>8. QED
  BY <1>1, <1>3, <1>5, <1>7, MoveKeeps, PlacesAre DEF OpsInv, InOrder

LEMMA PushOps ==
  ASSUME IInv, OpsInv, NEW p \in Procs, Push(p)
  PROVE  OpsInv'
<1> USE SchedulerAssumption DEF SchedulerAssumption, OpsInv, IInv, TypeOK
<1>1. OneForEach' /\ InOrder'
  BY PushMoves
<1>2. /\ OnlyMoves(p)
      /\ pc[p] = "push" /\ ret[p] \in {"out", "exec"}
      /\ \/ pc'[p] = ret[p] /\ ret'[p] = ret[p]
         \/ pc'[p] = "signal" /\ ret'[p] = ret[p]
      /\ UNCHANGED <<pq, pw, cur, shut, destroyed, guard>>
      /\ arg' = [arg EXCEPT ![p] = NoOp]
  <2>1. /\ pc[p] = "push"
        /\ \E task \in BOOLEAN : WakeOneThreadAndUnlock(p, ret[p], task)
        /\ UNCHANGED <<pq, pw, cur, shut, destroyed, guard>>
        /\ arg' = [arg EXCEPT ![p] = NoOp]
    BY DEF Push
  <2>2. ret[p] \in {"out", "exec"}
    BY <2>1 DEF ControlOK, CallOK
  <2>3. QED
    BY <2>1, <2>2, UnlockFacts
<1>3. KeepsOK'
  BY <1>2 DEF KeepsOK, OnlyMoves, InHandler, Procs
<1>4. CloseOK'
  BY <1>2, CloseStays
<1>5. QED
  BY <1>1, <1>3, <1>4

LEMMA StartIoMoves ==
  ASSUME IInv, OpsInv, NEW p \in Procs, NEW o \in Ops,
         StartIo(p, o)
  PROVE  OneForEach' /\ InOrder'
<1>1. /\ unposted' = unposted \ {o} /\ armed' = armed \cup {o} /\ o \in unposted
      /\ UNCHANGED <<queue, done, destroyed, cur, arg, pq>>
  BY DEF StartIo
<1>2. o \in Holding[At("unposted")] /\ OneForEach
  BY <1>1, HoldingIs DEF OpsInv
<1>3. MovesTo({o}, At("armed"))
  BY <1>1, <1>2, Moves, OnlyAt, PlacesAre, PlacesDiffer, SubProcs
<1>4. QED
  BY <1>1, <1>2, <1>3, MoveKeeps, PlacesAre DEF OpsInv, InOrder

LEMMA StartIoOps ==
  ASSUME IInv, OpsInv, NEW p \in Procs, NEW o \in Ops,
         StartIo(p, o)
  PROVE  OpsInv'
<1> USE SchedulerAssumption DEF SchedulerAssumption, OpsInv, IInv, TypeOK
<1>1. OneForEach' /\ InOrder'
  BY StartIoMoves
<1>2. KeepsOK'
  BY DEF StartIo, CanCall, wakeVars, ctlVars, KeepsOK, InHandler, Procs
<1>3. CloseOK'
  BY DEF StartIo, CanCall, wakeVars, ctlVars, CloseOK, Procs, ShutOK
<1>4. QED
  BY <1>1, <1>2, <1>3

LEMMA CancelIoMoves ==
  ASSUME IInv, OpsInv, NEW p \in Procs, NEW o \in Ops,
         CancelIo(p, o)
  PROVE  OneForEach' /\ InOrder'
<1>1. /\ armed' = armed \ {o} /\ o \in armed
      /\ UNCHANGED <<queue, unposted, done, destroyed, cur>>
      /\ \/ pc[p] = "exec" /\ pq' = [pq EXCEPT ![p] = Append(@, o)] /\ UNCHANGED arg
         \/ arg' = [arg EXCEPT ![p] = o] /\ UNCHANGED pq
      /\ pc[p] \in {"out", "exec"}
  BY DEF CancelIo, CanCall, InScheduler, sharedVars
<1>2. o \in Holding[At("armed")] /\ OneForEach
  BY <1>1, HoldingIs DEF OpsInv
<1>3. CASE pc[p] = "exec" /\ pq' = [pq EXCEPT ![p] = Append(@, o)] /\ UNCHANGED arg
  <2>1. p \in Runners
    BY <1>3 DEF OpsInv, KeepsOK, InHandler
  <2>2. /\ pq[p] \in Seq(Ops) /\ pq'[p] = Append(pq[p], o)
        /\ \A u \in Runners \ {p} : pq'[u] = pq[u]
    BY <1>3, <2>1 DEF IInv, TypeOK
  <2>3. o \notin ReadyOps(pq[p])
    BY <1>2, <2>1, OnlyAt, PlacesAre, PlacesDiffer, SubProcs
  <2>4. /\ \A x : x \in ReadyOps(pq'[p]) <=> x \in ReadyOps(pq[p]) \/ x = o
        /\ NoRepeats(pq'[p])
    BY <2>1, <2>2, <2>3, AppendNew DEF OpsInv, InOrder
  <2>5. MovesTo({o}, With("private", p))
    BY <1>1, <1>2, <1>3, <2>1, <2>2, <2>4, Moves, OnlyAt, PlacesAre,
       PlacesDiffer, SubProcs
  <2>6. QED
    BY <1>1, <1>2, <2>1, <2>2, <2>4, <2>5, MoveKeeps, PlacesAre DEF OpsInv,
       InOrder
<1>4. CASE arg' = [arg EXCEPT ![p] = o] /\ UNCHANGED pq
  <2>1. /\ arg'[p] = o /\ arg[p] = NoOp /\ NoOp \notin Ops
        /\ \A q \in Procs \ {p} : arg'[q] = arg[q]
    BY <1>1, <1>4, SchedulerAssumption DEF SchedulerAssumption, IInv, TypeOK,
       OpsInv, KeepsOK
  <2>2. MovesTo({o}, With("submitting", p))
    BY <1>1, <1>2, <1>4, <2>1, Moves, OnlyAt, PlacesAre, PlacesDiffer, SubProcs
  <2>3. QED
    BY <1>1, <1>2, <1>4, <2>2, MoveKeeps, PlacesAre DEF OpsInv, InOrder
<1>5. QED
  BY <1>1, <1>3, <1>4

LEMMA CancelIoOps ==
  ASSUME IInv, OpsInv, NEW p \in Procs, NEW o \in Ops,
         CancelIo(p, o)
  PROVE  OpsInv'
<1> USE SchedulerAssumption DEF SchedulerAssumption, OpsInv, IInv, TypeOK
<1>1. OneForEach' /\ InOrder'
  BY CancelIoMoves
<1>2. /\ OnlyMoves(p)
      /\ (pc[p] = "out" /\ ~shut) \/ pc[p] = "exec"
      /\ UNCHANGED <<cur, pw, shut, destroyed, guard>>
      /\ \/ pc[p] = "exec" /\ UNCHANGED <<pc, ret, arg>>
            /\ pq' = [pq EXCEPT ![p] = Append(@, o)]
         \/ pc'[p] = "push" /\ ret'[p] = pc[p] /\ UNCHANGED pq
            /\ arg' = [arg EXCEPT ![p] = o]
  BY DEF CancelIo, CanCall, InScheduler, ctlVars, sharedVars, OnlyMoves
<1>3. KeepsOK'
  <2>1. CASE pq' = [pq EXCEPT ![p] = Append(@, o)]
             /\ pc[p] = "exec" /\ UNCHANGED <<pc, ret, arg>>
    <3>1. p \in Runners
      BY <2>1 DEF KeepsOK, InHandler
    <3>2. /\ pq'[p] = Append(pq[p], o)
          /\ Len(pq'[p]) = Len(pq[p]) + 1 /\ Len(pq[p]) \in Nat
          /\ \A u \in Runners \ {p} : pq'[u] = pq[u]
      BY <2>1, <3>1
    <3>3. QED
      BY <1>2, <2>1, <3>1, <3>2 DEF KeepsOK, InHandler, Procs
  <2>2. CASE pc'[p] = "push" /\ ret'[p] = pc[p] /\ UNCHANGED pq
             /\ arg' = [arg EXCEPT ![p] = o]
    BY <1>2, <2>2 DEF KeepsOK, OnlyMoves, InHandler, Procs
  <2>3. QED
    BY <1>2, <2>1, <2>2
<1>4. CloseOK'
  BY <1>2, CloseStays
<1>5. QED
  BY <1>1, <1>3, <1>4

LEMMA InitTaskOps ==
  ASSUME IInv, OpsInv, NEW p \in Procs, InitTask(p)
  PROVE  OpsInv'
<1> USE SchedulerAssumption DEF SchedulerAssumption, OpsInv, IInv, TypeOK
<1>1. OneForEach' /\ InOrder'
  <2>1. /\ ~hasTask /\ queue' = Append(queue, TaskOp)
        /\ UNCHANGED <<armed, unposted, done, destroyed, cur, arg, pq>>
    BY DEF InitTask, NeedsTask, opVars
  <2>2. TaskOp \notin ReadyOps(queue)
    BY <2>1 DEF TaskInOnePlace, Queued, ReadyOps
  <2>3. QED
    BY <2>1, <2>2, AppendNew, StayKeeps DEF InOrder
<1>2. /\ OnlyMoves(p)
      /\ (pc[p] = "out" /\ ~shut) \/ pc[p] = "exec"
      /\ \/ pc'[p] = pc[p] /\ ret'[p] = ret[p]
         \/ pc'[p] = "signal" /\ ret'[p] = pc[p]
      /\ UNCHANGED <<cur, pq, pw, arg, shut, destroyed, guard>>
  BY UnlockFacts DEF InitTask, CanCall, opVars
<1>3. KeepsOK'
  BY <1>2, KeepsStay DEF InHandler
<1>4. CloseOK'
  BY <1>2, CloseStays
<1>5. QED
  BY <1>1, <1>3, <1>4

LEMMA StopCallOps ==
  ASSUME IInv, OpsInv, NEW p \in Procs, StopCall(p)
  PROVE  OpsInv'
<1> USE SchedulerAssumption DEF SchedulerAssumption, OpsInv, IInv, TypeOK
<1>1. OneForEach' /\ InOrder'
  BY StayKeeps DEF StopCall, CanCall, CanLock, InterruptTask, StopAllThreads,
     opVars, InOrder
<1>2. KeepsOK'
  BY DEF StopCall, CanCall, CanLock, InterruptTask, StopAllThreads, opVars,
     KeepsOK, InHandler, Procs
<1>3. CloseOK'
  BY DEF StopCall, CanCall, CanLock, InterruptTask, StopAllThreads, opVars,
     CloseOK, Procs, ShutOK
<1>4. QED
  BY <1>1, <1>2, <1>3

LEMMA RestartOps ==
  ASSUME IInv, OpsInv, NEW p \in Procs, Restart(p)
  PROVE  OpsInv'
<1> USE SchedulerAssumption DEF SchedulerAssumption, OpsInv, IInv, TypeOK
<1>1. OneForEach' /\ InOrder'
  BY StayKeeps DEF Restart, CanCall, CanLock, wakeVars, ctlVars, opVars,
     InOrder
<1>2. KeepsOK'
  BY DEF Restart, CanCall, CanLock, wakeVars, ctlVars, opVars, KeepsOK,
     InHandler, Procs
<1>3. CloseOK'
  BY DEF Restart, CanCall, CanLock, wakeVars, ctlVars, opVars, CloseOK, Procs,
     ShutOK
<1>4. QED
  BY <1>1, <1>2, <1>3

LEMMA AcquireGuardOps ==
  ASSUME IInv, OpsInv, NEW p \in Procs, AcquireGuard(p)
  PROVE  OpsInv'
<1> USE SchedulerAssumption DEF SchedulerAssumption, OpsInv, IInv, TypeOK
<1>1. OneForEach' /\ InOrder'
  BY StayKeeps DEF AcquireGuard, CanCall, wakeVars, ctlVars, InOrder
<1>2. KeepsOK'
  BY DEF AcquireGuard, CanCall, wakeVars, ctlVars, KeepsOK, InHandler, Procs
<1>3. CloseOK'
  BY DEF AcquireGuard, CanCall, wakeVars, ctlVars, CloseOK, Procs, ShutOK
<1>4. QED
  BY <1>1, <1>2, <1>3

LEMMA ReleaseGuardOps ==
  ASSUME IInv, OpsInv, NEW p \in Procs, ReleaseGuard(p)
  PROVE  OpsInv'
<1> USE SchedulerAssumption DEF SchedulerAssumption, OpsInv, IInv, TypeOK
<1>1. OneForEach' /\ InOrder'
  BY StayKeeps DEF ReleaseGuard, CanCall, wakeVars, InOrder
<1>2. /\ OnlyMoves(p)
      /\ (pc[p] = "out" /\ ~shut) \/ pc[p] = "exec"
      /\ \/ pc'[p] = pc[p] /\ ret'[p] = ret[p]
         \/ pc'[p] = "stop" /\ ret'[p] = pc[p]
      /\ UNCHANGED <<cur, pq, pw, arg, shut, destroyed>>
      /\ guard' = guard \ {p} /\ p \in guard
  BY DEF ReleaseGuard, CanCall, OnlyMoves, ctlVars
<1>3. KeepsOK'
  BY <1>2, KeepsStay DEF InHandler
<1>4. CloseOK'
  BY <1>2, CloseStays DEF CloseOK
<1>5. QED
  BY <1>1, <1>3, <1>4

LEMMA BeginShutdownOps ==
  ASSUME IInv, OpsInv, NEW p \in Procs, BeginShutdown(p)
  PROVE  OpsInv'
<1> USE SchedulerAssumption DEF SchedulerAssumption, OpsInv, IInv, TypeOK
<1>1. OneForEach' /\ InOrder'
  BY StayKeeps DEF BeginShutdown, CanCall, CanLock, InterruptTask,
     StopAllThreads, opVars, InOrder
<1>2. /\ ~shut /\ pc[p] = "out" /\ guard = {} /\ shut' /\ pc'[p] = "join"
      /\ \A q \in Procs \ {p} :
           pc'[q] = pc[q] \/ (pc[q] = "wait" /\ pc'[q] = "woken")
      /\ \A q \in Procs \ OwnThread : pc[q] = "out"
      /\ UNCHANGED <<queue, destroyed, guard, ret, cur, pq, pw, arg>>
  BY DEF BeginShutdown, CanCall, StopAllThreads, Procs, opVars
<1>3. KeepsOK'
  <2>1. OnlyMoves(p)
    BY <1>2 DEF OnlyMoves
  <2>2. QED
    BY <1>2, <2>1, KeepsStay DEF InHandler
<1>4. CloseOK'
  <2>1. \A q \in Procs : pc[q] \notin {"join", "end"}
    <3>1. \A q \in Procs : pc[q] # "end"
      BY <1>2 DEF CloseOK
    <3>2. \A q \in Procs : pc[q] # "join"
      BY <1>2 DEF ShutOK, JoinOK
    <3>3. QED
      BY <3>1, <3>2
  <2>2. \A q \in Procs : pc'[q] # "end" /\ (pc'[q] = "join" => q = p)
    BY <1>2, <2>1
  <2>3. QED
    BY <1>2, <2>2 DEF CloseOK, Procs
<1>5. QED
  BY <1>1, <1>3, <1>4

LEMMA FinishShutdownMoves ==
  ASSUME IInv, OpsInv, NEW p \in Procs, FinishShutdown(p)
  PROVE  OneForEach' /\ InOrder'
<1> DEFINE S == ReadyOps(queue) \ {TaskOp}
<1>1. /\ destroyed' = destroyed \cup S /\ queue' = <<>>
      /\ UNCHANGED <<armed, done, unposted, arg, pq, cur>>
  BY DEF FinishShutdown
<1>2. S \subseteq Ops /\ TaskOp \notin Ops
  BY SchedulerAssumption DEF SchedulerAssumption, ReadyOps, IInv, TypeOK
<1>3. (\A o \in S : o \in Holding[At("queue")]) /\ OneForEach
  BY <1>2, HoldingIs DEF OpsInv
<1>4. ReadyOps(queue') = {} /\ NoRepeats(queue')
  BY <1>1, NoneInEmpty
<1>5. MovesTo(S, At("destroyed"))
  BY <1>1, <1>2, <1>3, <1>4, Moves, OnlyAt, PlacesAre, PlacesDiffer, SubProcs
<1>6. QED
  BY <1>1, <1>3, <1>4, <1>5, MoveKeeps, PlacesAre DEF OpsInv, InOrder

LEMMA FinishShutdownOps ==
  ASSUME IInv, OpsInv, NEW p \in Procs, FinishShutdown(p)
  PROVE  OpsInv'
<1> USE SchedulerAssumption DEF SchedulerAssumption, OpsInv, IInv, TypeOK
<1>1. OneForEach' /\ InOrder'
  BY FinishShutdownMoves
<1>2. KeepsOK'
  BY DEF FinishShutdown, Joined, wakeVars, KeepsOK, InHandler, Procs
<1>3. CloseOK'
  <2>1. /\ pc[p] = "join" /\ Joined /\ queue' = <<>>
        /\ pc' = [pc EXCEPT ![p] = "end"]
        /\ UNCHANGED <<shut, guard>>
    BY DEF FinishShutdown
  <2>2. shut /\ \A q \in Procs \ {p} : pc[q] = "out"
    BY <2>1 DEF ShutOK, JoinOK, CloseOK, Joined
  <2>3. pc'[p] = "end" /\ \A q \in Procs \ {p} : pc'[q] = "out"
    BY <2>1, <2>2
  <2>4. QED
    BY <2>1, <2>2, <2>3 DEF CloseOK, Procs
<1>4. QED
  BY <1>1, <1>2, <1>3

LEMMA InitOps == Init => OpsInv
<1> SUFFICES ASSUME Init PROVE OpsInv
  OBVIOUS
<1>1. OneForEach
  <2>1. ASSUME NEW o \in Ops, NEW k \in Places
        PROVE  o \in Holding[k] <=> k = At("unposted")
    BY SchedulerAssumption, NoneInEmpty
    DEF SchedulerAssumption, Init, Holding, InPlace, At, Places
  <2>2. QED
    BY <2>1, PlacesAre DEF OneForEach
<1>2. InOrder
  BY NoneInEmpty DEF Init, InOrder
<1>3. KeepsOK
  BY DEF Init, KeepsOK, InHandler, Procs
<1>4. CloseOK
  BY DEF Init, CloseOK
<1>5. QED
  BY <1>1, <1>2, <1>3, <1>4 DEF OpsInv

LEMMA NextOps == IInv /\ OpsInv /\ [Next]_vars => OpsInv'
<1> SUFFICES ASSUME IInv, OpsInv, [Next]_vars PROVE OpsInv'
  OBVIOUS
<1>1. ASSUME NEW t \in Runners, NEW m \in Modes, Enter(t, m)
      PROVE  OpsInv'
  BY <1>1, EnterOps
<1>2. ASSUME NEW t \in Runners, LeaveStopped(t)
      PROVE  OpsInv'
  BY <1>2, LeaveStoppedOps
<1>3. ASSUME NEW t \in Runners, FindNothing(t)
      PROVE  OpsInv'
  BY <1>3, FindNothingOps
<1>4. ASSUME NEW t \in Runners, WakeUp(t)
      PROVE  OpsInv'
  BY <1>4, WakeUpOps
<1>5. ASSUME NEW t \in Runners, Reacquire(t)
      PROVE  OpsInv'
  BY <1>5, ReacquireOps
<1>6. ASSUME NEW p \in Procs, Signal(p)
      PROVE  OpsInv'
  BY <1>6, SignalOps
<1>7. ASSUME NEW p \in Procs, Stop(p)
      PROVE  OpsInv'
  BY <1>7, StopOps
<1>8. ASSUME NEW t \in Runners, TakeTask(t)
      PROVE  OpsInv'
  BY <1>8, TakeTaskOps
<1>9. ASSUME NEW t \in Runners, TakeOp(t)
      PROVE  OpsInv'
  BY <1>9, TakeOpOps
<1>10. ASSUME NEW t \in Runners, PassTaskOn(t)
      PROVE  OpsInv'
  BY <1>10, PassTaskOnOps
<1>11. ASSUME NEW t \in Runners, NEW q, TaskReturn(t, q)
      PROVE  OpsInv'
  BY <1>11, TaskReturnOps
<1>12. ASSUME NEW t \in Runners, TaskCleanup(t)
      PROVE  OpsInv'
  BY <1>12, TaskCleanupOps
<1>13. ASSUME NEW t \in Runners, NEW throws \in BOOLEAN, CompleteOp(t, throws)
      PROVE  OpsInv'
  BY <1>13, CompleteOpOps
<1>14. ASSUME NEW t \in Runners, WorkPush(t)
      PROVE  OpsInv'
  BY <1>14, WorkPushOps
<1>15. ASSUME NEW p \in Procs, NEW o \in Ops, NEW c \in BOOLEAN, Post(p, o, c)
      PROVE  OpsInv'
  BY <1>15, PostOps
<1>16. ASSUME NEW p \in Procs, Push(p)
      PROVE  OpsInv'
  BY <1>16, PushOps
<1>17. ASSUME NEW p \in Procs, NEW o \in Ops, StartIo(p, o)
      PROVE  OpsInv'
  BY <1>17, StartIoOps
<1>18. ASSUME NEW p \in Procs, NEW o \in Ops, CancelIo(p, o)
      PROVE  OpsInv'
  BY <1>18, CancelIoOps
<1>19. ASSUME NEW p \in Procs, InitTask(p)
      PROVE  OpsInv'
  BY <1>19, InitTaskOps
<1>20. ASSUME NEW p \in Procs, StopCall(p)
      PROVE  OpsInv'
  BY <1>20, StopCallOps
<1>21. ASSUME NEW p \in Procs, Restart(p)
      PROVE  OpsInv'
  BY <1>21, RestartOps
<1>22. ASSUME NEW p \in Procs, AcquireGuard(p)
      PROVE  OpsInv'
  BY <1>22, AcquireGuardOps
<1>23. ASSUME NEW p \in Procs, ReleaseGuard(p)
      PROVE  OpsInv'
  BY <1>23, ReleaseGuardOps
<1>24. ASSUME NEW p \in Procs, BeginShutdown(p)
      PROVE  OpsInv'
  BY <1>24, BeginShutdownOps
<1>25. ASSUME NEW p \in Procs, FinishShutdown(p)
      PROVE  OpsInv'
  BY <1>25, FinishShutdownOps
<1>26. CASE UNCHANGED vars
  <2>1. UNCHANGED <<queue, pq, pw, armed, unposted, done, destroyed, cur, arg, pc,
                    ret, shut, guard>>
    BY <1>26 DEF vars, sharedVars, wakeVars, ctlVars, opVars
  <2>2. OneForEach'
    BY <2>1, StayKeeps DEF OpsInv
  <2>3. QED
    BY <2>1, <2>2 DEF OpsInv, InOrder, KeepsOK, InHandler, CloseOK, Procs
<1>27. QED
  BY <1>1, <1>2, <1>3, <1>4, <1>5, <1>6, <1>7, <1>8, <1>9, <1>10, <1>11,
     <1>12, <1>13, <1>14, <1>15, <1>16, <1>17, <1>18, <1>19, <1>20, <1>21,
     <1>22, <1>23, <1>24, <1>25, <1>26
  DEF Next, RunStep, CallStep, Call

THEOREM SchedulerOps == Spec => [](IInv /\ OpsInv)
<1>1. Init => IInv /\ OpsInv
  BY InitIInv, InitOps
<1>2. IInv /\ OpsInv /\ [Next]_vars => (IInv /\ OpsInv)'
  BY NextIInv, NextOps
<1>3. QED
  BY <1>1, <1>2, PTL DEF Spec

\* shutdown() loses no operation: when it is done each one was run, destroyed,
\* never submitted, or is in the reactor, whatever was under way.
THEOREM ShutdownLeavesNothingAlways == Spec => []ShutdownLeavesNothing
<1>1. IInv /\ OpsInv => ShutdownLeavesNothing
  <2>1. SUFFICES ASSUME IInv, OpsInv, NEW p \in Procs, pc[p] = "end", NEW o \in Ops
                 PROVE  o \in unposted \cup armed \cup done \cup destroyed
    BY DEF ShutdownLeavesNothing, IInv, TypeOK
  <2>2. queue = <<>> /\ \A q \in Procs : pc[q] \in {"out", "end"}
    BY <2>1 DEF OpsInv, CloseOK
  <2>3. /\ \A q \in Procs : arg[q] = NoOp
        /\ \A t \in Runners : cur[t] = NoOp /\ pq[t] = <<>>
    BY <2>1, <2>2 DEF OpsInv, KeepsOK, InHandler, Procs
  <2>4. PICK k \in Places : o \in Holding[k]
    BY <2>1 DEF OpsInv, OneForEach
  <2>5. QED
    BY <2>2, <2>3, <2>4, NoneInEmpty, SchedulerAssumption
    DEF SchedulerAssumption, Holding, InPlace, Places
<1>2. QED
  BY <1>1, SchedulerOps, PTL

----------------------------------------------------------------------------
(* The count of work *)

Finite == IsFiniteSet(Runners) /\ IsFiniteSet(Posters) /\ IsFiniteSet(Ops)

\* The operations in private queues.
Private == {o \in Ops : \E t \in Runners : o \in ReadyOps(pq[t])}

\* There is a private operation for each unsettled unit.
LEMMA UnsettledBound ==
  ASSUME Finite, IInv, OpsInv
  PROVE  /\ IsFiniteSet(Unsettled) /\ IsFiniteSet(Counted) /\ IsFiniteSet(Private)
         /\ Cardinality(Unsettled) <= Cardinality(Private)
         /\ Private \subseteq Counted
         /\ Cardinality(Private) <= Cardinality(Counted)
<1>1. IsFiniteSet(Private) /\ IsFiniteSet(Counted)
  BY FS_Subset DEF Private, Counted, Finite
<1>2. Private \subseteq Counted
  <2>1. SUFFICES ASSUME NEW o \in Ops, NEW t \in Runners, o \in ReadyOps(pq[t])
                 PROVE  o \notin unposted /\ o \notin done
    BY DEF Private, Counted
  <2>2. o \in Holding[With("private", t)] /\ OneForEach
    BY <2>1, HoldingIs DEF OpsInv
  <2>3. QED
    BY <2>2, OnlyAt, PlacesAre, PlacesDiffer, SubProcs
<1> DEFINE f == [u \in Unsettled |-> pq[u[1]][u[2]]]
<1>3. ASSUME NEW u \in Unsettled
      PROVE  /\ u[1] \in Runners /\ u[2] \in 1 .. Len(pq[u[1]]) /\ u = <<u[1], u[2]>>
             /\ pq[u[1]] \in Seq(Ops)
             /\ f[u] \in ReadyOps(pq[u[1]]) /\ f[u] \in Ops
  <2>1. PICK t \in Runners : u \in {t} \X (1 .. pw[t])
    BY DEF Unsettled
  <2>2. u[1] = t /\ u[2] \in 1 .. pw[t] /\ u = <<u[1], u[2]>>
    BY <2>1
  <2>3. pw[t] <= Len(pq[t]) /\ pq[t] \in Seq(Ops) /\ pw[t] \in Nat
    BY DEF OpsInv, KeepsOK, IInv, TypeOK
  <2>4. f[u] = pq[t][u[2]] /\ u[2] \in 1 .. Len(pq[t])
    BY <2>2, <2>3
  <2>5. pq[t][u[2]] \in ReadyOps(pq[t]) /\ pq[t][u[2]] \in Ops
    BY <2>3, <2>4 DEF ReadyOps
  <2>6. QED
    BY <2>2, <2>3, <2>4, <2>5
<1>4. f \in Injection(Unsettled, Private)
  <2>1. f \in [Unsettled -> Private]
    BY <1>3 DEF Private
  <2>2. ASSUME NEW u \in Unsettled, NEW v \in Unsettled, f[u] = f[v]
        PROVE  u = v
    <3>1. /\ f[u] \in Holding[With("private", u[1])]
          /\ f[u] \in Holding[With("private", v[1])]
      BY <1>3, <2>2, HoldingIs
    <3>2. With("private", u[1]) = With("private", v[1])
      BY <1>3, <3>1, OnlyAt, PlacesAre DEF OpsInv
    <3>3. u[1] = v[1]
      BY <3>2, PlacesDiffer
    <3>4. pq[u[1]][u[2]] = pq[u[1]][v[2]]
      BY <2>2, <3>3
    <3>5. u[2] = v[2]
      BY <1>3, <3>3, <3>4 DEF OpsInv, InOrder, NoRepeats
    <3>6. QED
      BY <1>3, <3>3, <3>5
  <2>3. QED
    BY <2>1, <2>2 DEF Injection, IsInjective
<1>5. IsFiniteSet(Unsettled) /\ Cardinality(Unsettled) <= Cardinality(Private)
  BY <1>1, <1>4, FS_Injection
<1>6. Cardinality(Private) <= Cardinality(Counted)
  BY <1>1, <1>2, FS_Subset
<1>7. QED
  BY <1>1, <1>2, <1>5, <1>6

WorkSum ==
  outstanding + Cardinality(Unsettled)
    = Cardinality(Counted) + Cardinality(guard) + Cardinality(OwnThread)

\* The sets that are counted.
LEMMA CountedSets ==
  ASSUME Finite, IInv, OpsInv
  PROVE  /\ Cardinality(Unsettled) \in Nat /\ Cardinality(Counted) \in Nat
         /\ Cardinality(Private) \in Nat
         /\ IsFiniteSet(guard) /\ Cardinality(guard) \in Nat
         /\ Cardinality(OwnThread) \in Nat /\ outstanding \in Int
         /\ Cardinality(OwnThread) = 0 <=> OwnThread = {}
<1>1. IsFiniteSet(guard) /\ IsFiniteSet(OwnThread)
  <2>1. guard \in SUBSET Posters /\ OwnThread \in SUBSET Runners
    BY SchedulerAssumption DEF SchedulerAssumption, IInv, TypeOK
  <2>2. QED
    BY <2>1, FS_Subset DEF Finite
<1>2. outstanding \in Int
  BY DEF IInv, TypeOK
<1>3. QED
  BY <1>1, <1>2, UnsettledBound, FS_CardinalityType, FS_EmptySet

\* The count is zero exactly when nothing is left to do, whatever is unsettled:
\* the operation whose handler submitted it is itself counted.
LEMMA NoWork ==
  ASSUME Finite, IInv, OpsInv, WorkSum
  PROVE  /\ outstanding >= 0
         /\ outstanding = 0 <=> Counted = {} /\ guard = {} /\ OwnThread = {}
<1> USE CountedSets
<1>1. outstanding >= 0
  BY UnsettledBound DEF WorkSum, IInv, TypeOK
<1>2. ASSUME Counted = {}, guard = {}, OwnThread = {}
      PROVE  outstanding = 0
  BY <1>1, <1>2, FS_EmptySet DEF WorkSum, IInv, TypeOK
<1>3. ASSUME outstanding = 0
      PROVE  Counted = {} /\ guard = {} /\ OwnThread = {}
  <2>1. /\ Cardinality(guard) = 0 /\ Cardinality(OwnThread) = 0
        /\ Cardinality(Unsettled) = Cardinality(Counted)
        /\ Cardinality(Private) = Cardinality(Counted)
    BY <1>3, UnsettledBound DEF WorkSum
  <2>2. Private = Counted
    BY <2>1, UnsettledBound, FS_Subset
  <2>3. Unsettled = {}
    <3>1. SUFFICES ASSUME NEW u \in Unsettled PROVE FALSE
      OBVIOUS
    <3>2. PICK t \in Runners : u \in {t} \X (1 .. pw[t])
      BY DEF Unsettled
    <3>3. pw[t] > 0
      BY <3>2 DEF IInv, TypeOK
    <3>4. cur[t] \in Ops
      BY <3>3 DEF OpsInv, KeepsOK, IInv, ControlOK, HandlerOK, TypeOK
    <3>5. cur[t] \in Holding[With("running", t)] /\ OneForEach
      BY <3>4, HoldingIs DEF OpsInv
    <3>6. cur[t] \in Counted /\ cur[t] \notin Private
      BY <3>4, <3>5, OnlyAt, PlacesAre, PlacesDiffer, SubProcs DEF Counted,
         Private
    <3>7. QED
      BY <2>2, <3>6
  <2>4. QED
    BY <2>1, <2>3, UnsettledBound, FS_EmptySet
<1>4. QED
  BY <1>1, <1>2, <1>3

\* Only an action that submits, completes or counts changes the sum.
LEMMA SumStays ==
  ASSUME WorkSum, UNCHANGED <<outstanding, pw, unposted, done, guard>>
  PROVE  WorkSum'
BY DEF WorkSum, Unsettled, Counted

\* One operation more is counted.
LEMMA CountOne ==
  ASSUME Finite, IInv, OpsInv, NEW o \in unposted, unposted' = unposted \ {o},
         UNCHANGED done
  PROVE  Cardinality(Counted') = Cardinality(Counted) + 1
<1>1. o \in Ops /\ o \notin done
  <2>1. o \in Ops
    BY DEF IInv, TypeOK
  <2>2. o \in Holding[At("unposted")] /\ OneForEach
    BY <2>1, HoldingIs DEF OpsInv
  <2>3. QED
    BY <2>1, <2>2, OnlyAt, PlacesAre, PlacesDiffer
<1>2. Counted' = Counted \cup {o} /\ o \notin Counted
  BY <1>1 DEF Counted
<1>3. QED
  BY <1>2, UnsettledBound, FS_AddElement

LEMMA PostCount ==
  ASSUME Finite, IInv, OpsInv, WorkSum, NEW p \in Procs, NEW o \in Ops,
         NEW c \in BOOLEAN, Post(p, o, c)
  PROVE  WorkSum'
<1> USE CountedSets
<1>1. Cardinality(Counted') = Cardinality(Counted) + 1
  BY CountOne DEF Post
<1>2. CASE outstanding' = outstanding + 1 /\ UNCHANGED <<pw, guard>>
  <2>1. UNCHANGED Unsettled
    BY <1>2 DEF Unsettled
  <2>2. QED
    BY <1>1, <1>2, <2>1 DEF WorkSum
<1>3. CASE /\ pc[p] = "exec" /\ pw' = [pw EXCEPT ![p] = @ + 1]
           /\ UNCHANGED <<outstanding, guard>>
  <2>1. p \in Runners /\ pw[p] \in Nat
    BY <1>3 DEF OpsInv, KeepsOK, InHandler, IInv, TypeOK
  <2>2. pw'[p] = pw[p] + 1 /\ \A t \in Runners \ {p} : pw'[t] = pw[t]
    BY <1>3, <2>1 DEF IInv, TypeOK
  <2>3. /\ Unsettled' = Unsettled \cup {<<p, pw[p] + 1>>}
        /\ <<p, pw[p] + 1>> \notin Unsettled
    BY <2>1, <2>2 DEF Unsettled
  <2>4. Cardinality(Unsettled') = Cardinality(Unsettled) + 1
    BY <2>3, UnsettledBound, FS_AddElement
  <2>5. QED
    BY <1>1, <1>3, <2>4 DEF WorkSum
<1>4. QED
  BY <1>2, <1>3 DEF Post, InScheduler

LEMMA StartIoCount ==
  ASSUME Finite, IInv, OpsInv, WorkSum, NEW p \in Procs, NEW o \in Ops,
         StartIo(p, o)
  PROVE  WorkSum'
<1>1. Cardinality(Counted') = Cardinality(Counted) + 1
  BY CountOne DEF StartIo
<1>2. outstanding' = outstanding + 1 /\ UNCHANGED <<pw, guard>>
  BY DEF StartIo
<1>3. UNCHANGED Unsettled
  BY <1>2 DEF Unsettled
<1>4. QED
  BY <1>1, <1>2, <1>3, CountedSets DEF WorkSum

LEMMA CompleteOpCount ==
  ASSUME Finite, IInv, OpsInv, WorkSum, NEW t \in Runners,
         NEW throws \in BOOLEAN, CompleteOp(t, throws)
  PROVE  WorkSum'
<1>1. /\ pc[t] = "exec" /\ done' = done \cup {cur[t]} /\ pw' = [pw EXCEPT ![t] = 0]
      /\ outstanding' = outstanding + WorkDelta(pw[t])
      /\ UNCHANGED <<unposted, guard>>
  BY DEF CompleteOp
<1>2. pw[t] \in Nat /\ outstanding' = outstanding + pw[t] - 1
  BY <1>1 DEF WorkDelta, IInv, TypeOK
<1>3. Cardinality(Counted') = Cardinality(Counted) - 1
  <2>1. cur[t] \in Ops
    BY <1>1 DEF IInv, TypeOK, ControlOK, HandlerOK, InHandler
  <2>2. cur[t] \in Holding[With("running", t)] /\ OneForEach
    BY <2>1, HoldingIs DEF OpsInv
  <2>3. cur[t] \in Counted /\ Counted' = Counted \ {cur[t]}
    BY <1>1, <2>1, <2>2, OnlyAt, PlacesAre, PlacesDiffer, SubProcs DEF Counted
  <2>4. QED
    BY <2>3, UnsettledBound, FS_RemoveElement
<1>4. Cardinality(Unsettled') = Cardinality(Unsettled) - pw[t]
  <2> DEFINE U == {t} \X (1 .. pw[t])
  <2>1. pw'[t] = 0 /\ \A u \in Runners \ {t} : pw'[u] = pw[u]
    BY <1>1 DEF IInv, TypeOK
  <2>2. U \subseteq Unsettled /\ Unsettled' = Unsettled \ U
    BY <2>1 DEF Unsettled
  <2>3. Cardinality(U) = pw[t]
    <3> DEFINE n == pw[t]
               I == 1 .. n
               T == {t}
    <3>1. n \in Nat
      BY <1>2
    <3> HIDE DEF n
    <3>2. IsFiniteSet(I) /\ Cardinality(I) = n
      BY <3>1, FS_Interval
    <3>3. IsFiniteSet(T) /\ Cardinality(T) = 1
      BY FS_Singleton
    <3> HIDE DEF I, T
    <3>4. Cardinality(T \X I) = n
      BY <3>1, <3>2, <3>3, FS_Product
    <3>5. QED
      BY <3>4 DEF n, I, T
  <2>4. Unsettled \cap U = U
    BY <2>2
  <2>5. QED
    <3> HIDE DEF U
    <3>1. Cardinality(Unsettled \ U)
            = Cardinality(Unsettled) - Cardinality(Unsettled \cap U)
      BY UnsettledBound, FS_Difference
    <3>2. QED
      BY <2>2, <2>3, <2>4, <3>1
<1>5. QED
  BY <1>1, <1>2, <1>3, <1>4, CountedSets DEF WorkSum

LEMMA TaskCleanupCount ==
  ASSUME Finite, IInv, OpsInv, WorkSum, NEW t \in Runners, TaskCleanup(t)
  PROVE  WorkSum'
<1>1. pw[t] = 0
  <2>1. pc[t] = "tclean" /\ pw[t] \in Nat
    BY DEF TaskCleanup, IInv, TypeOK
  <2>2. QED
    BY <2>1 DEF OpsInv, KeepsOK, InHandler
<1>2. UNCHANGED <<outstanding, pw, unposted, done, guard>>
  BY <1>1 DEF TaskCleanup, IInv, TypeOK
<1>3. QED
  BY <1>2, SumStays

LEMMA AcquireGuardCount ==
  ASSUME Finite, IInv, OpsInv, WorkSum, NEW p \in Procs, AcquireGuard(p)
  PROVE  WorkSum'
<1>1. /\ guard' = guard \cup {p} /\ p \notin guard /\ outstanding' = outstanding + 1
      /\ UNCHANGED <<pw, unposted, done>>
  BY DEF AcquireGuard
<1>2. Cardinality(guard') = Cardinality(guard) + 1
  BY <1>1, CountedSets, FS_AddElement
<1>3. UNCHANGED <<Unsettled, Counted>>
  BY <1>1 DEF Unsettled, Counted
<1>4. QED
  BY <1>1, <1>2, <1>3, CountedSets DEF WorkSum

LEMMA ReleaseGuardCount ==
  ASSUME Finite, IInv, OpsInv, WorkSum, NEW p \in Procs, ReleaseGuard(p)
  PROVE  WorkSum'
<1>1. /\ guard' = guard \ {p} /\ p \in guard /\ outstanding' = outstanding - 1
      /\ UNCHANGED <<pw, unposted, done>>
  BY DEF ReleaseGuard
<1>2. Cardinality(guard') = Cardinality(guard) - 1
  BY <1>1, CountedSets, FS_RemoveElement
<1>3. UNCHANGED <<Unsettled, Counted>>
  BY <1>1 DEF Unsettled, Counted
<1>4. outstanding' = outstanding - 1
  BY <1>1
<1>5. /\ Cardinality(Unsettled') = Cardinality(Unsettled)
      /\ Cardinality(Counted') = Cardinality(Counted)
  BY <1>3
<1>6. /\ outstanding \in Int /\ Cardinality(guard) \in Int
      /\ Cardinality(Unsettled) \in Int /\ Cardinality(Counted) \in Int
      /\ Cardinality(OwnThread) \in Int
  BY CountedSets
<1>7. QED
  BY <1>2, <1>4, <1>5, <1>6 DEF WorkSum

LEMMA NextSum == Finite /\ IInv /\ OpsInv /\ WorkSum /\ [Next]_vars => WorkSum'
<1> SUFFICES ASSUME Finite, IInv, OpsInv, WorkSum, [Next]_vars PROVE WorkSum'
  OBVIOUS
<1>1. ASSUME NEW t \in Runners, NEW m \in Modes, Enter(t, m)
      PROVE  WorkSum'
  BY <1>1, SumStays DEF Enter, sharedVars, opVars
<1>2. ASSUME NEW t \in Runners, LeaveStopped(t)
      PROVE  WorkSum'
  BY <1>2, SumStays DEF LeaveStopped, sharedVars, opVars
<1>3. ASSUME NEW t \in Runners, FindNothing(t)
      PROVE  WorkSum'
  BY <1>3, SumStays DEF FindNothing, sharedVars, opVars
<1>4. ASSUME NEW t \in Runners, WakeUp(t)
      PROVE  WorkSum'
  BY <1>4, SumStays DEF WakeUp, sharedVars, opVars
<1>5. ASSUME NEW t \in Runners, Reacquire(t)
      PROVE  WorkSum'
  BY <1>5, SumStays DEF Reacquire, sharedVars, opVars
<1>6. ASSUME NEW p \in Procs, Signal(p)
      PROVE  WorkSum'
  BY <1>6, SumStays DEF Signal, sharedVars, opVars
<1>7. ASSUME NEW p \in Procs, Stop(p)
      PROVE  WorkSum'
  BY <1>7, SumStays DEF Stop, sharedVars, opVars
<1>8. ASSUME NEW t \in Runners, TakeTask(t)
      PROVE  WorkSum'
  BY <1>8, SumStays DEF TakeTask, sharedVars, opVars
<1>9. ASSUME NEW t \in Runners, TakeOp(t)
      PROVE  WorkSum'
  BY <1>9, SumStays DEF TakeOp, sharedVars, opVars
<1>10. ASSUME NEW t \in Runners, PassTaskOn(t)
      PROVE  WorkSum'
  BY <1>10, SumStays DEF PassTaskOn, sharedVars, opVars
<1>11. ASSUME NEW t \in Runners, NEW q, TaskReturn(t, q)
      PROVE  WorkSum'
  BY <1>11, SumStays DEF TaskReturn, sharedVars, opVars
<1>12. ASSUME NEW t \in Runners, TaskCleanup(t)
      PROVE  WorkSum'
  BY <1>12, TaskCleanupCount
<1>13. ASSUME NEW t \in Runners, NEW throws \in BOOLEAN, CompleteOp(t, throws)
      PROVE  WorkSum'
  BY <1>13, CompleteOpCount
<1>14. ASSUME NEW t \in Runners, WorkPush(t)
      PROVE  WorkSum'
  BY <1>14, SumStays DEF WorkPush, sharedVars, opVars
<1>15. ASSUME NEW p \in Procs, NEW o \in Ops, NEW c \in BOOLEAN, Post(p, o, c)
      PROVE  WorkSum'
  BY <1>15, PostCount
<1>16. ASSUME NEW p \in Procs, Push(p)
      PROVE  WorkSum'
  BY <1>16, SumStays DEF Push, sharedVars, opVars
<1>17. ASSUME NEW p \in Procs, NEW o \in Ops, StartIo(p, o)
      PROVE  WorkSum'
  BY <1>17, StartIoCount
<1>18. ASSUME NEW p \in Procs, NEW o \in Ops, CancelIo(p, o)
      PROVE  WorkSum'
  BY <1>18, SumStays DEF CancelIo, sharedVars, opVars
<1>19. ASSUME NEW p \in Procs, InitTask(p)
      PROVE  WorkSum'
  BY <1>19, SumStays DEF InitTask, sharedVars, opVars
<1>20. ASSUME NEW p \in Procs, StopCall(p)
      PROVE  WorkSum'
  BY <1>20, SumStays DEF StopCall, sharedVars, opVars
<1>21. ASSUME NEW p \in Procs, Restart(p)
      PROVE  WorkSum'
  BY <1>21, SumStays DEF Restart, sharedVars, opVars
<1>22. ASSUME NEW p \in Procs, AcquireGuard(p)
      PROVE  WorkSum'
  BY <1>22, AcquireGuardCount
<1>23. ASSUME NEW p \in Procs, ReleaseGuard(p)
      PROVE  WorkSum'
  BY <1>23, ReleaseGuardCount
<1>24. ASSUME NEW p \in Procs, BeginShutdown(p)
      PROVE  WorkSum'
  BY <1>24, SumStays DEF BeginShutdown, sharedVars, opVars
<1>25. ASSUME NEW p \in Procs, FinishShutdown(p)
      PROVE  WorkSum'
  BY <1>25, SumStays DEF FinishShutdown, sharedVars, opVars
<1>26. CASE UNCHANGED vars
  BY <1>26, SumStays DEF vars, sharedVars, opVars
<1>27. QED
  BY <1>1, <1>2, <1>3, <1>4, <1>5, <1>6, <1>7, <1>8, <1>9, <1>10, <1>11,
     <1>12, <1>13, <1>14, <1>15, <1>16, <1>17, <1>18, <1>19, <1>20, <1>21,
     <1>22, <1>23, <1>24, <1>25, <1>26
  DEF Next, RunStep, CallStep, Call

LEMMA InitSum == Finite /\ Init => WorkSum
<1> SUFFICES ASSUME Finite, Init PROVE WorkSum
  OBVIOUS
<1>1. Unsettled = {} /\ Counted = {} /\ guard = {}
  BY DEF Init, Unsettled, Counted
<1>2. Cardinality(OwnThread) = outstanding
  <2>1. CASE OwnThread = {}
    BY <2>1, FS_EmptySet DEF Init
  <2>2. CASE OwnThread # {}
    <3>1. PICK t \in OwnThread : OwnThread = {t}
      BY <2>2, OwnThreadAssumption DEF OwnThreadAssumption
    <3>2. QED
      BY <2>2, <3>1, FS_Singleton DEF Init
  <2>3. QED
    BY <2>1, <2>2
<1>3. QED
  BY <1>1, <1>2, FS_EmptySet DEF WorkSum, Init

\* For finitely many threads and operations the invariant of the count holds
\* with the places of the operations.
THEOREM SchedulerWork ==
  ASSUME Finite
  PROVE  Spec => [](IInv /\ OpsInv /\ WorkSum)
<1>1. Init => IInv /\ OpsInv /\ WorkSum
  BY InitIInv, InitOps, InitSum
<1>2. IInv /\ OpsInv /\ WorkSum /\ [Next]_vars => (IInv /\ OpsInv /\ WorkSum)'
  BY NextIInv, NextOps, NextSum
<1>3. QED
  BY <1>1, <1>2, PTL DEF Spec

\* outstanding_work_ never loses or gains a unit, and never drops below zero,
\* for any finite number of threads and operations.
THEOREM WorkCountAlways ==
  ASSUME Finite
  PROVE  Spec => []WorkCount
<1>1. IInv /\ OpsInv /\ WorkSum => WorkCount
  BY NoWork DEF WorkCount, WorkSum
<1>2. QED
  BY <1>1, SchedulerWork, PTL

\* The count tells when there is nothing left: run() ends when it is zero, and
\* it is zero only when each operation has run and no guard is held.
THEOREM ZeroIsIdle ==
  ASSUME Finite
  PROVE  Spec => [](outstanding = 0 <=> Counted = {} /\ guard = {} /\ OwnThread = {})
<1>1. IInv /\ OpsInv /\ WorkSum =>
        (outstanding = 0 <=> Counted = {} /\ guard = {} /\ OwnThread = {})
  BY NoWork
<1>2. QED
  BY <1>1, SchedulerWork, PTL

----------------------------------------------------------------------------
(* The scheduler implements Executor *)

Deciding == {p \in Procs : pc[p] \in {"stop", "wstop"}}

\* Only a thread that comes to stop, or has stopped, changes who decides.
LEMMA DecidingStays ==
  ASSUME NEW p \in Procs, OnlyMoves(p), pc[p] \notin {"stop", "wstop"},
         pc'[p] \notin {"stop", "wstop"}
  PROVE  Deciding' = Deciding
BY DEF Deciding, OnlyMoves, Procs

LEMMA DecidingGrows ==
  ASSUME NEW p \in Procs, OnlyMoves(p), pc'[p] \in {"stop", "wstop"}
  PROVE  Deciding' = Deciding \cup {p}
BY DEF Deciding, OnlyMoves, Procs

LEMMA DecidingShrinks ==
  ASSUME NEW p \in Procs, OnlyMoves(p), pc[p] \in {"stop", "wstop"},
         pc'[p] \notin {"stop", "wstop"}
  PROVE  Deciding' = Deciding \ {p}
BY DEF Deciding, OnlyMoves, Procs

\* The status of an operation tells its place.
LEMMA StatusIs ==
  ASSUME IInv, OpsInv, NEW o \in Ops
  PROVE  /\ Status[o] = "new" <=> o \in unposted
         /\ Status[o] = "done" <=> o \in done
         /\ Status[o] = "destroyed" <=> o \in destroyed
         /\ Status[o] = "running" <=> \E t \in Runners : cur[t] = o
         /\ Status[o] \in {"new", "done", "destroyed", "running", "pending"}
<1>1. PICK k \in Places : o \in Holding[k]
  BY DEF OpsInv, OneForEach
<1>2. /\ o \in unposted => o \notin done /\ o \notin destroyed
      /\ o \in done => o \notin destroyed
      /\ o \in unposted \cup done \cup destroyed => \A t \in Runners : cur[t] # o
  BY <1>1, OnlyAt, PlacesAre, PlacesDiffer, SubProcs DEF OpsInv
<1>3. QED
  BY <1>2 DEF Status

LEMMA StatusStays ==
  ASSUME UNCHANGED <<unposted, done, destroyed, cur>>
  PROVE  Status' = Status
BY DEF Status

\* An operation is submitted.
LEMMA StatusSubmit ==
  ASSUME IInv, OpsInv, NEW o \in unposted, unposted' = unposted \ {o},
         UNCHANGED <<done, destroyed, cur>>
  PROVE  /\ o \in Ops /\ Status[o] = "new"
         /\ Status' = [Status EXCEPT ![o] = "pending"]
<1>1. o \in Ops
  BY DEF IInv, TypeOK
<1>2. o \in Holding[At("unposted")] /\ OneForEach
  BY <1>1, HoldingIs DEF OpsInv
<1>3. o \notin done /\ o \notin destroyed /\ \A t \in Runners : cur[t] # o
  BY <1>1, <1>2, OnlyAt, PlacesAre, PlacesDiffer, SubProcs
<1>4. QED
  BY <1>1, <1>3 DEF Status

\* A step that leaves what is abstract.
LEMMA Stutter ==
  ASSUME UNCHANGED <<unposted, done, destroyed, cur, guard, stopped>>,
         NEW p \in Procs, OnlyMoves(p), pc[p] \notin {"stop", "wstop"},
         pc'[p] \notin {"stop", "wstop"}
  PROVE  UNCHANGED Abstract!vars
<1>1. Status' = Status /\ Deciding' = Deciding
  BY StatusStays, DecidingStays
<1>2. QED
  BY <1>1 DEF Abstract!vars, Deciding

\* Before the end of shutdown the abstract executor is idle exactly when the
\* count is zero.
LEMMA IdleIsZero ==
  Finite /\ IInv /\ OpsInv /\ WorkSum /\ destroyed = {} =>
    (Abstract!Idle <=> outstanding = 0)
<1> SUFFICES ASSUME Finite, IInv, OpsInv, WorkSum, destroyed = {}
             PROVE  Abstract!Idle <=> outstanding = 0
  OBVIOUS
<1>1. (\A o \in Ops : Status[o] \notin {"pending", "running"}) <=> Counted = {}
  BY StatusIs DEF Counted
<1>2. QED
  BY <1>1, NoWork DEF Abstract!Idle

LEMMA NoWorkNow ==
  Finite /\ IInv /\ OpsInv /\ WorkSum =>
    (outstanding = 0 <=> Counted = {} /\ guard = {} /\ OwnThread = {})
BY NoWork

LEMMA NoneDestroyed ==
  ASSUME OpsInv, NEW p \in Procs, pc[p] \notin {"out", "end"} \/ ~shut
  PROVE  destroyed = {}
BY DEF OpsInv, CloseOK

Sound == Finite /\ IInv /\ OpsInv /\ WorkSum
AbstractStep == Abstract!Next \/ UNCHANGED Abstract!vars

LEMMA EnterImplements ==
  ASSUME Sound, NEW t \in Runners, NEW m \in Modes, Enter(t, m)
  PROVE  AbstractStep
<1>1. /\ pc[t] = "out" /\ ~shut /\ t \in Procs /\ OnlyMoves(t)
      /\ UNCHANGED <<unposted, done, destroyed, cur, guard, stopped>>
  BY DEF Enter, OnlyMoves, Procs, sharedVars, opVars, Sound, IInv, TypeOK
<1>2. CASE outstanding = 0
  <2>1. pc'[t] = "stop"
    BY <1>1, <1>2 DEF Enter, Sound, IInv, TypeOK
  <2>2. Deciding' = Deciding \cup {t} /\ Status' = Status
    BY <1>1, <2>1, DecidingGrows, StatusStays
  <2>3. Abstract!Idle
    BY <1>1, <1>2, NoneDestroyed, IdleIsZero DEF Sound
  <2>4. Abstract!FindIdle(t)
    BY <1>1, <2>2, <2>3 DEF Abstract!FindIdle, Deciding
  <2>5. QED
    BY <1>1, <2>4 DEF AbstractStep, Abstract!Next
<1>3. CASE outstanding # 0
  <2>1. pc'[t] = "loop"
    BY <1>1, <1>3 DEF Enter, Sound, IInv, TypeOK
  <2>2. QED
    BY <1>1, <2>1, Stutter DEF AbstractStep
<1>4. QED
  BY <1>2, <1>3

LEMMA SubmitImplements ==
  ASSUME Sound, NEW p \in Procs, NEW o \in unposted, unposted' = unposted \ {o},
         UNCHANGED <<done, destroyed, cur, guard, stopped>>, OnlyMoves(p),
         pc[p] \notin {"stop", "wstop"}, pc'[p] \notin {"stop", "wstop"}
  PROVE  AbstractStep
<1>1. /\ o \in Ops /\ Status[o] = "new"
      /\ Status' = [Status EXCEPT ![o] = "pending"]
  BY StatusSubmit DEF Sound
<1>2. Deciding' = Deciding
  BY DecidingStays
<1>3. Abstract!Submit(o)
  BY <1>1, <1>2 DEF Abstract!Submit, Deciding
<1>4. QED
  BY <1>1, <1>3 DEF AbstractStep, Abstract!Next

LEMMA PostImplements ==
  ASSUME Sound, NEW p \in Procs, NEW o \in Ops, NEW c \in BOOLEAN, Post(p, o, c)
  PROVE  AbstractStep
<1>1. /\ o \in unposted /\ unposted' = unposted \ {o}
      /\ UNCHANGED <<done, destroyed, cur, guard, stopped>>
      /\ pc[p] \in {"out", "exec"}
      /\ \/ UNCHANGED <<pc, ret>>
         \/ pc' = [pc EXCEPT ![p] = "push"] /\ ret' = [ret EXCEPT ![p] = pc[p]]
  BY DEF Post, CanCall, ctlVars
<1>2. OnlyMoves(p) /\ pc'[p] \notin {"stop", "wstop"}
  BY <1>1 DEF OnlyMoves, Sound, IInv, TypeOK
<1>3. QED
  BY <1>1, <1>2, SubmitImplements

LEMMA StartIoImplements ==
  ASSUME Sound, NEW p \in Procs, NEW o \in Ops, StartIo(p, o)
  PROVE  AbstractStep
<1>1. /\ o \in unposted /\ unposted' = unposted \ {o}
      /\ UNCHANGED <<done, destroyed, cur, guard, stopped, pc, ret>>
      /\ pc[p] \in {"out", "exec"}
  BY DEF StartIo, CanCall, ctlVars
<1>2. OnlyMoves(p)
  BY <1>1 DEF OnlyMoves
<1>3. QED
  BY <1>1, <1>2, SubmitImplements

LEMMA TakeOpImplements ==
  ASSUME Sound, NEW t \in Runners, TakeOp(t)
  PROVE  AbstractStep
<1>1. /\ pc[t] \in {"loop", "loop2", "loop3"} /\ queue # <<>>
      /\ Head(queue) # TaskOp
      /\ cur' = [cur EXCEPT ![t] = Head(queue)]
      /\ UNCHANGED <<unposted, done, destroyed, guard, stopped>>
      /\ \/ UnlockAndGo(t, "exec")
         \/ \E task \in BOOLEAN : WakeOneThreadAndUnlock(t, "exec", task)
  BY DEF TakeOp, AtFront, IsOperation, Sound, IInv, TypeOK
<1>2. /\ t \in Procs /\ OnlyMoves(t) /\ pc'[t] \in {"exec", "signal"}
  BY <1>1, UnlockFacts DEF Sound, IInv, Procs
<1>3. /\ Head(queue) \in Ops /\ Head(queue) \in ReadyOps(queue)
  BY <1>1, TailOld DEF Sound, IInv, TypeOK
<1>4. Head(queue) \in Holding[At("queue")] /\ OneForEach
  BY <1>3, HoldingIs DEF Sound, OpsInv
<1>5. /\ Head(queue) \notin unposted /\ Head(queue) \notin done
      /\ Head(queue) \notin destroyed /\ \A u \in Runners : cur[u] # Head(queue)
  BY <1>3, <1>4, OnlyAt, PlacesAre, PlacesDiffer, SubProcs
<1>6. cur[t] = NoOp /\ NoOp \notin Ops /\ cur \in [Runners -> Ops \cup {NoOp}]
  BY <1>1, SchedulerAssumption
  DEF SchedulerAssumption, Sound, OpsInv, KeepsOK, InHandler, IInv, TypeOK
<1>7. Status[Head(queue)] = "pending"
  BY <1>3, <1>5 DEF Status
<1>8. Status' = [Status EXCEPT ![Head(queue)] = "running"]
  <2>1. ASSUME NEW o \in Ops
        PROVE  (\E u \in Runners : cur'[u] = o)
                 <=> (\E u \in Runners : cur[u] = o) \/ o = Head(queue)
    BY <1>1, <1>6
  <2>2. QED
    BY <1>1, <1>3, <1>5, <2>1 DEF Status
<1>9. Deciding' = Deciding
  BY <1>1, <1>2, DecidingStays
<1>10. Abstract!Start(t, Head(queue))
  BY <1>1, <1>6, <1>7, <1>8, <1>9 DEF Abstract!Start, Deciding
<1>11. QED
  BY <1>3, <1>10 DEF AbstractStep, Abstract!Next

LEMMA CompleteOpImplements ==
  ASSUME Sound, Sound', NEW t \in Runners, NEW throws \in BOOLEAN,
         CompleteOp(t, throws)
  PROVE  AbstractStep
<1>1. /\ pc[t] = "exec" /\ cur' = [cur EXCEPT ![t] = NoOp]
      /\ done' = done \cup {cur[t]} /\ pw' = [pw EXCEPT ![t] = 0]
      /\ outstanding' = outstanding + WorkDelta(pw[t])
      /\ pc' = [pc EXCEPT ![t] =
                        IF LastWork(WorkDelta(pw[t])) THEN "wstop" ELSE "wpush"]
      /\ ret' = [ret EXCEPT ![t] = IF ~throws /\ mode[t] \in Repeating
                                     THEN "loop" ELSE "out"]
      /\ UNCHANGED <<unposted, destroyed, guard, stopped, pq>>
  BY DEF CompleteOp
<1>2. t \in Procs /\ OnlyMoves(t) /\ pw[t] \in Nat
  BY <1>1 DEF OnlyMoves, Sound, IInv, TypeOK, Procs
<1>3. cur[t] \in Ops /\ cur[t] # NoOp
  BY <1>1, SchedulerAssumption
  DEF SchedulerAssumption, Sound, IInv, TypeOK, ControlOK, HandlerOK, InHandler
<1>4. cur[t] \in Holding[With("running", t)] /\ OneForEach
  BY <1>3, HoldingIs DEF Sound, OpsInv
<1>5. /\ cur[t] \notin unposted /\ cur[t] \notin destroyed
      /\ \A u \in Runners \ {t} : cur[u] # cur[t]
  BY <1>3, <1>4, OnlyAt, PlacesAre, PlacesDiffer, SubProcs
<1>6. Status' = [Status EXCEPT ![cur[t]] = "done"]
  <2>1. ASSUME NEW o \in Ops
        PROVE  (\E u \in Runners : cur'[u] = o)
                 <=> (\E u \in Runners : cur[u] = o) /\ o # cur[t]
    BY <1>1, <1>3, <1>5, SchedulerAssumption
    DEF SchedulerAssumption, Sound, IInv, TypeOK
  <2>2. QED
    BY <1>1, <1>3, <1>5, <2>1 DEF Status
<1>7. Abstract!Idle' <=> outstanding' = 0
  <2>1. destroyed' = {}
    BY <1>1, <1>2, NoneDestroyed DEF Sound
  <2>2. (Finite /\ IInv /\ OpsInv /\ WorkSum /\ destroyed = {})' =>
          (Abstract!Idle <=> outstanding = 0)'
    BY IdleIsZero, PTL
  <2>3. QED
    BY <2>1, <2>2 DEF Sound
<1>8. outstanding' = 0 <=> pc'[t] = "wstop"
  <2>1. ASSUME pw[t] >= 1 PROVE outstanding' # 0
    <3>1. pq[t] # <<>> /\ pq[t] \in Seq(Ops)
      <4>1. pw[t] <= Len(pq[t]) /\ pq[t] \in Seq(Ops)
        BY DEF Sound, OpsInv, KeepsOK, IInv, TypeOK
      <4>2. QED
        BY <1>2, <2>1, <4>1
    <3>2. pq[t][1] \in ReadyOps(pq[t]) /\ pq[t][1] \in Ops
      BY <3>1 DEF ReadyOps
    <3>3. pq[t][1] \in Holding[With("private", t)] /\ OneForEach
      BY <3>2, HoldingIs DEF Sound, OpsInv
    <3>4. pq[t][1] \in Counted'
      BY <1>1, <3>2, <3>3, OnlyAt, PlacesAre, PlacesDiffer, SubProcs DEF
         Counted
    <3>5. (Finite /\ IInv /\ OpsInv /\ WorkSum)' => 
          (outstanding = 0 <=> Counted = {} /\ guard = {} /\ OwnThread = {})'
      BY NoWorkNow, PTL
    <3>6. QED
      BY <3>4, <3>5 DEF Sound
  <2>2. pw[t] = 0 => (outstanding' = 0 <=> LastWork(WorkDelta(pw[t])))
    BY <1>1 DEF LastWork, WorkDelta
  <2>3. pw[t] >= 1 => ~LastWork(WorkDelta(pw[t]))
    BY <1>2 DEF LastWork, WorkDelta
  <2>4. pc'[t] = IF LastWork(WorkDelta(pw[t])) THEN "wstop" ELSE "wpush"
    BY <1>1, <1>2 DEF Sound, IInv, TypeOK
  <2>5. QED
    BY <1>2, <2>1, <2>2, <2>3, <2>4
<1>9. Deciding' = IF Abstract!Idle' THEN Deciding \cup {t} ELSE Deciding
  <2>1. CASE pc'[t] = "wstop"
    BY <1>2, <1>7, <1>8, <2>1, DecidingGrows
  <2>2. CASE pc'[t] # "wstop"
    <3>1. pc'[t] = "wpush"
      BY <1>1, <1>2, <2>2 DEF Sound, IInv, TypeOK
    <3>2. QED
      BY <1>1, <1>2, <1>7, <1>8, <3>1, DecidingStays
  <2>3. QED
    BY <2>1, <2>2
<1>10. Abstract!Finish(t)
  BY <1>1, <1>3, <1>6, <1>9 DEF Abstract!Finish, Deciding
<1>11. QED
  BY <1>10 DEF AbstractStep, Abstract!Next

LEMMA AcquireGuardImplements ==
  ASSUME Sound, NEW p \in Procs, AcquireGuard(p)
  PROVE  AbstractStep
<1>1. /\ guard' # {}
      /\ UNCHANGED <<unposted, done, destroyed, cur, stopped, pc>>
  BY DEF AcquireGuard, ctlVars
<1>2. Status' = Status /\ Deciding' = Deciding
  BY <1>1, StatusStays DEF Deciding
<1>3. Abstract!Hold
  BY <1>1, <1>2 DEF Abstract!Hold, Deciding
<1>4. QED
  BY <1>3 DEF AbstractStep, Abstract!Next

LEMMA ReleaseGuardImplements ==
  ASSUME Sound, Sound', NEW p \in Procs, ReleaseGuard(p)
  PROVE  AbstractStep
<1>1. /\ guard' = guard \ {p} /\ p \in guard /\ outstanding' = outstanding - 1
      /\ (pc[p] = "out" /\ ~shut) \/ pc[p] = "exec"
      /\ IF outstanding = 1
           THEN pc' = [pc EXCEPT ![p] = "stop"] /\ ret' = [ret EXCEPT ![p] = pc[p]]
           ELSE UNCHANGED <<pc, ret>>
      /\ UNCHANGED <<unposted, done, destroyed, cur, stopped>>
  BY DEF ReleaseGuard, CanCall
<1>2. /\ OnlyMoves(p) /\ Status' = Status
      /\ outstanding' = 0 => pc'[p] = "stop"
      /\ outstanding' # 0 => UNCHANGED pc
  BY <1>1, StatusStays DEF OnlyMoves, Sound, IInv, TypeOK
<1>3. Abstract!Idle' <=> outstanding' = 0
  <2>1. destroyed' = {}
    BY <1>1, NoneDestroyed DEF Sound
  <2>2. (Finite /\ IInv /\ OpsInv /\ WorkSum /\ destroyed = {})' =>
          (Abstract!Idle <=> outstanding = 0)'
    BY IdleIsZero, PTL
  <2>3. QED
    BY <2>1, <2>2 DEF Sound
<1>4. CASE guard' = {} /\ OwnThread = {}
  <2>1. Deciding' = IF Abstract!Idle' THEN Deciding \cup {p} ELSE Deciding
    BY <1>2, <1>3, DecidingGrows DEF Deciding
  <2>2. Abstract!Release(p)
    BY <1>1, <1>2, <1>4, <2>1 DEF Abstract!Release, Deciding
  <2>3. QED
    BY <2>2 DEF AbstractStep, Abstract!Next
<1>5. CASE guard' # {} \/ OwnThread # {}
  <2>1. ~Abstract!Idle'
    BY <1>5 DEF Abstract!Idle
  <2>2. Deciding' = Deciding
    BY <1>2, <1>3, <2>1 DEF Deciding
  <2>3. UNCHANGED Abstract!vars
    BY <1>1, <1>2, <1>5, <2>2 DEF Abstract!vars, Deciding
  <2>4. QED
    BY <2>3 DEF AbstractStep
<1>6. QED
  BY <1>4, <1>5

LEMMA StopImplements ==
  ASSUME Sound, NEW p \in Procs, Stop(p)
  PROVE  AbstractStep
<1>1. /\ pc[p] \in {"stop", "wstop"} /\ stopped' = TRUE
      /\ StopAllThreads(p, IF pc[p] = "stop" THEN ret[p] ELSE "wpush")
      /\ UNCHANGED <<unposted, done, destroyed, cur, guard, ret>>
  BY DEF Stop, StopAllThreads, opVars
<1>2. OnlyMoves(p) /\ pc'[p] \notin {"stop", "wstop"}
  BY <1>1, StopFacts DEF Sound, IInv, ControlOK, CallOK
<1>3. Status' = Status /\ Deciding' = Deciding \ {p} /\ p \in Deciding
  BY <1>1, <1>2, StatusStays, DecidingShrinks DEF Deciding
<1>4. Abstract!StopIdle(p)
  BY <1>1, <1>3 DEF Abstract!StopIdle, Deciding
<1>5. QED
  BY <1>4 DEF AbstractStep, Abstract!Next

\* stop() called from outside, or when the context is destroyed.
LEMMA StopCallFacts ==
  ASSUME Sound, NEW p \in Procs, NEW next, StopAllThreads(p, next),
         UNCHANGED <<unposted, done, destroyed, cur, guard, ret>>,
         pc[p] \notin {"stop", "wstop"}, next \notin {"stop", "wstop"}
  PROVE  AbstractStep
<1>1. OnlyMoves(p) /\ pc'[p] = next /\ stopped' = TRUE
  BY StopFacts DEF StopAllThreads
<1>2. Status' = Status /\ Deciding' = Deciding
  BY <1>1, StatusStays, DecidingStays
<1>3. Abstract!StopCall
  BY <1>1, <1>2 DEF Abstract!StopCall, Deciding
<1>4. QED
  BY <1>3 DEF AbstractStep, Abstract!Next

LEMMA StopCallImplements ==
  ASSUME Sound, NEW p \in Procs, StopCall(p)
  PROVE  AbstractStep
<1>1. /\ pc[p] \in {"out", "exec"} /\ StopAllThreads(p, pc[p])
      /\ UNCHANGED <<unposted, done, destroyed, cur, guard, ret>>
  BY DEF StopCall, CanCall, opVars
<1>2. QED
  BY <1>1, StopCallFacts

LEMMA RestartImplements ==
  ASSUME Sound, NEW p \in Procs, Restart(p)
  PROVE  AbstractStep
<1>1. /\ stopped' = FALSE /\ \A t \in Runners : pc[t] = "out"
      /\ UNCHANGED <<unposted, done, destroyed, cur, guard, pc>>
  BY DEF Restart, ctlVars, opVars
<1>2. Status' = Status /\ Deciding' = Deciding
  BY <1>1, StatusStays DEF Deciding
<1>3. \A t \in Runners : cur[t] = NoOp
  BY <1>1 DEF Sound, OpsInv, KeepsOK, InHandler
<1>4. Abstract!Restart
  BY <1>1, <1>2, <1>3 DEF Abstract!Restart, Deciding
<1>5. QED
  BY <1>4 DEF AbstractStep, Abstract!Next

LEMMA BeginShutdownImplements ==
  ASSUME Sound, NEW p \in Procs, BeginShutdown(p)
  PROVE  AbstractStep
<1>1. /\ pc[p] \in {"out", "exec"}
      /\ UNCHANGED <<unposted, done, destroyed, cur, guard, ret>>
      /\ \/ pc' = [pc EXCEPT ![p] = "join"] /\ UNCHANGED stopped
         \/ StopAllThreads(p, "join")
  BY DEF BeginShutdown, CanCall, opVars
<1>2. CASE pc' = [pc EXCEPT ![p] = "join"] /\ UNCHANGED stopped
  <2>1. OnlyMoves(p) /\ pc'[p] = "join"
    BY <1>1, <1>2 DEF OnlyMoves, Sound, IInv, TypeOK
  <2>2. QED
    BY <1>1, <1>2, <2>1, Stutter DEF AbstractStep
<1>3. CASE StopAllThreads(p, "join")
  BY <1>1, <1>3, StopCallFacts
<1>4. QED
  BY <1>1, <1>2, <1>3

LEMMA FinishShutdownImplements ==
  ASSUME Sound, NEW p \in Procs, FinishShutdown(p)
  PROVE  AbstractStep
<1> DEFINE S == ReadyOps(queue) \ {TaskOp}
<1>1. /\ pc[p] = "join" /\ Joined /\ destroyed' = destroyed \cup S
      /\ pc' = [pc EXCEPT ![p] = "end"]
      /\ UNCHANGED <<unposted, done, cur, guard, stopped, ret>>
  BY DEF FinishShutdown
<1>2. OnlyMoves(p) /\ pc'[p] = "end"
  BY <1>1 DEF OnlyMoves, Sound, IInv, TypeOK
<1>3. \A t \in Runners : cur[t] = NoOp
  <2>1. \A t \in Runners : pc[t] \in {"out", "join", "end"}
    BY <1>1 DEF Sound, IInv, ShutOK, JoinOK, Joined, Procs
  <2>2. QED
    BY <2>1 DEF Sound, OpsInv, KeepsOK, InHandler
<1>4. S \subseteq Ops
  BY DEF ReadyOps, Sound, IInv, TypeOK
<1>5. \A o \in S : Status[o] = "pending" /\ o \notin unposted /\ o \notin done
  <2>1. SUFFICES ASSUME NEW o \in S
                 PROVE  Status[o] = "pending" /\ o \notin unposted /\ o \notin done
    OBVIOUS
  <2>2. o \in Holding[At("queue")] /\ OneForEach
    BY <1>4, HoldingIs DEF Sound, OpsInv
  <2>3. /\ o \notin unposted /\ o \notin done /\ o \notin destroyed
        /\ \A t \in Runners : cur[t] # o
    BY <1>4, <2>2, OnlyAt, PlacesAre, PlacesDiffer, SubProcs
  <2>4. QED
    BY <1>4, <2>3 DEF Status
<1>6. Status' = [o \in Ops |-> IF o \in S THEN "destroyed" ELSE Status[o]]
  <2> HIDE DEF S
  <2>1. QED
    BY <1>1, <1>4, <1>5 DEF Status
<1>7. Deciding' = Deciding
  BY <1>1, <1>2, DecidingStays
<1>8. Abstract!Destroy(S)
  <2> HIDE DEF S
  <2>1. QED
    BY <1>1, <1>3, <1>5, <1>6, <1>7 DEF Abstract!Destroy, Deciding
<1>9. QED
  BY <1>4, <1>8 DEF AbstractStep, Abstract!Next

LEMMA LeaveStoppedStutters ==
  ASSUME Sound, NEW t \in Runners, LeaveStopped(t)
  PROVE  AbstractStep
<1>1. /\ pc[t] = "loop" /\ pc' = [pc EXCEPT ![t] = "out"] /\ UNCHANGED ret
      /\ UNCHANGED <<unposted, done, destroyed, cur, guard, stopped>>
  BY DEF LeaveStopped, UnlockAndGo, sharedVars, opVars
<1>2. /\ t \in Procs /\ OnlyMoves(t) /\ pc[t] \notin {"stop", "wstop"}
      /\ pc'[t] \notin {"stop", "wstop"}
  BY <1>1 DEF OnlyMoves, Sound, IInv, TypeOK, Procs
<1>3. QED
  BY <1>1, <1>2, Stutter DEF AbstractStep

LEMMA FindNothingStutters ==
  ASSUME Sound, NEW t \in Runners, FindNothing(t)
  PROVE  AbstractStep
<1>1. /\ pc[t] \in {"loop", "loop2"} /\ UNCHANGED ret
      /\ pc' = [pc EXCEPT ![t] = "wait"] \/ pc' = [pc EXCEPT ![t] = "out"]
      /\ UNCHANGED <<unposted, done, destroyed, cur, guard, stopped>>
  BY DEF FindNothing, sharedVars, opVars
<1>2. /\ t \in Procs /\ OnlyMoves(t) /\ pc[t] \notin {"stop", "wstop"}
      /\ pc'[t] \notin {"stop", "wstop"}
  BY <1>1 DEF OnlyMoves, Sound, IInv, TypeOK, Procs
<1>3. QED
  BY <1>1, <1>2, Stutter DEF AbstractStep

LEMMA WakeUpStutters ==
  ASSUME Sound, NEW t \in Runners, WakeUp(t)
  PROVE  AbstractStep
<1>1. /\ pc[t] = "wait" /\ pc' = [pc EXCEPT ![t] = "woken"] /\ UNCHANGED ret
      /\ UNCHANGED <<unposted, done, destroyed, cur, guard, stopped>>
  BY DEF WakeUp, sharedVars, opVars
<1>2. /\ t \in Procs /\ OnlyMoves(t) /\ pc[t] \notin {"stop", "wstop"}
      /\ pc'[t] \notin {"stop", "wstop"}
  BY <1>1 DEF OnlyMoves, Sound, IInv, TypeOK, Procs
<1>3. QED
  BY <1>1, <1>2, Stutter DEF AbstractStep

LEMMA ReacquireStutters ==
  ASSUME Sound, NEW t \in Runners, Reacquire(t)
  PROVE  AbstractStep
<1>1. /\ pc[t] = "woken" /\ UNCHANGED ret
      /\ \E next \in {"loop", "loop2", "wait"} : pc' = [pc EXCEPT ![t] = next]
      /\ UNCHANGED <<unposted, done, destroyed, cur, guard, stopped>>
  BY DEF Reacquire, sharedVars, opVars
<1>2. /\ t \in Procs /\ OnlyMoves(t) /\ pc[t] \notin {"stop", "wstop"}
      /\ pc'[t] \notin {"stop", "wstop"}
  BY <1>1 DEF OnlyMoves, Sound, IInv, TypeOK, Procs
<1>3. QED
  BY <1>1, <1>2, Stutter DEF AbstractStep

LEMMA TaskReturnStutters ==
  ASSUME Sound, NEW t \in Runners, NEW q, TaskReturn(t, q)
  PROVE  AbstractStep
<1>1. /\ pc[t] \in {"task", "taskpoll"} /\ UNCHANGED ret
      /\ pc' = [pc EXCEPT ![t] = "tclean"]
      /\ UNCHANGED <<unposted, done, destroyed, cur, guard, stopped>>
  BY DEF TaskReturn, sharedVars, opVars
<1>2. /\ t \in Procs /\ OnlyMoves(t) /\ pc[t] \notin {"stop", "wstop"}
      /\ pc'[t] \notin {"stop", "wstop"}
  BY <1>1 DEF OnlyMoves, Sound, IInv, TypeOK, Procs
<1>3. QED
  BY <1>1, <1>2, Stutter DEF AbstractStep

LEMMA TaskCleanupStutters ==
  ASSUME Sound, NEW t \in Runners, TaskCleanup(t)
  PROVE  AbstractStep
<1>1. /\ pc[t] = "tclean" /\ UNCHANGED ret
      /\ \E next \in {"loop", "loop3"} : pc' = [pc EXCEPT ![t] = next]
      /\ UNCHANGED <<unposted, done, destroyed, cur, guard, stopped>>
  BY DEF TaskCleanup, sharedVars, opVars
<1>2. /\ t \in Procs /\ OnlyMoves(t) /\ pc[t] \notin {"stop", "wstop"}
      /\ pc'[t] \notin {"stop", "wstop"}
  BY <1>1 DEF OnlyMoves, Sound, IInv, TypeOK, Procs
<1>3. QED
  BY <1>1, <1>2, Stutter DEF AbstractStep

LEMMA SignalStutters ==
  ASSUME Sound, NEW p \in Procs, Signal(p)
  PROVE  AbstractStep
<1>1. /\ pc[p] = "signal"
      /\ UNCHANGED <<unposted, done, destroyed, cur, guard, stopped, ret>>
      /\ \/ pc' = [pc EXCEPT ![p] = ret[p]]
         \/ \E q \in Procs : /\ pc[q] = "wait"
                             /\ pc' = [pc EXCEPT ![p] = ret[p], ![q] = "woken"]
  BY DEF Signal, sharedVars, opVars
<1>2. OnlyMoves(p) /\ pc'[p] \notin {"stop", "wstop"}
  BY <1>1 DEF OnlyMoves, Sound, IInv, TypeOK
<1>3. QED
  BY <1>1, <1>2, Stutter DEF AbstractStep

LEMMA WorkPushStutters ==
  ASSUME Sound, NEW t \in Runners, WorkPush(t)
  PROVE  AbstractStep
<1>1. /\ pc[t] = "wpush" /\ pc' = [pc EXCEPT ![t] = ret[t]]
      /\ UNCHANGED <<unposted, done, destroyed, cur, guard, stopped, ret>>
  BY DEF WorkPush
<1>2. t \in Procs /\ ret[t] \in {"out", "loop"}
  BY <1>1 DEF Sound, IInv, ControlOK, CleanOK, Procs
<1>3. OnlyMoves(t) /\ pc'[t] \notin {"stop", "wstop"}
  BY <1>1, <1>2 DEF OnlyMoves, Sound, IInv, TypeOK
<1>4. QED
  BY <1>1, <1>2, <1>3, Stutter DEF AbstractStep

LEMMA CancelIoStutters ==
  ASSUME Sound, NEW p \in Procs, NEW o \in Ops, CancelIo(p, o)
  PROVE  AbstractStep
<1>1. /\ pc[p] \in {"out", "exec"}
      /\ UNCHANGED <<unposted, done, destroyed, cur, guard, stopped>>
      /\ \/ UNCHANGED <<pc, ret>>
         \/ pc' = [pc EXCEPT ![p] = "push"] /\ ret' = [ret EXCEPT ![p] = pc[p]]
  BY DEF CancelIo, CanCall, sharedVars, ctlVars
<1>2. OnlyMoves(p) /\ pc'[p] \notin {"stop", "wstop"}
  BY <1>1 DEF OnlyMoves, Sound, IInv, TypeOK
<1>3. QED
  BY <1>1, <1>2, Stutter DEF AbstractStep

\* The actions that give up the lock.
LEMMA UnlockStutters ==
  ASSUME Sound, NEW p \in Procs, pc[p] \notin {"stop", "wstop"},
         NEW next \in {"task", "taskpoll", "out", "exec"},
         \/ \E task \in BOOLEAN : WakeOneThreadAndUnlock(p, next, task)
         \/ SignalOneAndUnlock(p, next)
         \/ UnlockAndGo(p, next),
         UNCHANGED <<unposted, done, destroyed, cur, guard, stopped>>
  PROVE  AbstractStep
<1>1. OnlyMoves(p) /\ pc'[p] \notin {"stop", "wstop"}
  BY UnlockFacts DEF Sound, IInv
<1>2. QED
  BY <1>1, Stutter DEF AbstractStep

LEMMA TakeTaskStutters ==
  ASSUME Sound, NEW t \in Runners, TakeTask(t)
  PROVE  AbstractStep
<1>1. /\ pc[t] \in {"loop", "loop2"}
      /\ UNCHANGED <<unposted, done, destroyed, cur, guard, stopped>>
      /\ \E next \in {"task", "taskpoll"} :
           SignalOneAndUnlock(t, next) \/ UnlockAndGo(t, next)
  BY DEF TakeTask, AtFront, opVars
<1>2. QED
  BY <1>1, UnlockStutters, SubProcs

LEMMA PassTaskOnStutters ==
  ASSUME Sound, NEW t \in Runners, PassTaskOn(t)
  PROVE  AbstractStep
<1>1. /\ pc[t] = "loop3"
      /\ UNCHANGED <<unposted, done, destroyed, cur, guard, stopped>>
      /\ SignalOneAndUnlock(t, "out") \/ UnlockAndGo(t, "out")
  BY DEF PassTaskOn, sharedVars, opVars
<1>2. QED
  BY <1>1, UnlockStutters, SubProcs

LEMMA PushStutters ==
  ASSUME Sound, NEW p \in Procs, Push(p)
  PROVE  AbstractStep
<1>1. /\ pc[p] = "push"
      /\ UNCHANGED <<unposted, done, destroyed, cur, guard, stopped>>
      /\ \E task \in BOOLEAN : WakeOneThreadAndUnlock(p, ret[p], task)
  BY DEF Push, Sound, IInv, TypeOK
<1>2. ret[p] \in {"out", "exec"}
  BY <1>1 DEF Sound, IInv, ControlOK, CallOK
<1>3. QED
  BY <1>1, <1>2, UnlockStutters

LEMMA InitTaskStutters ==
  ASSUME Sound, NEW p \in Procs, InitTask(p)
  PROVE  AbstractStep
<1>1. /\ pc[p] \in {"out", "exec"}
      /\ UNCHANGED <<unposted, done, destroyed, cur, guard, stopped>>
      /\ \E task \in BOOLEAN : WakeOneThreadAndUnlock(p, pc[p], task)
  BY DEF InitTask, CanCall, opVars
<1>2. QED
  BY <1>1, UnlockStutters

LEMMA InitImplements == Init => Abstract!Init
<1> SUFFICES ASSUME Init PROVE Abstract!Init
  OBVIOUS
<1>1. Status = [o \in Ops |-> "new"] /\ Deciding = {}
  BY DEF Init, Status, Deciding
<1>2. QED
  BY <1>1 DEF Init, Abstract!Init, Deciding

LEMMA NextImplements == Sound /\ Sound' /\ [Next]_vars => AbstractStep
<1> SUFFICES ASSUME Sound, Sound', [Next]_vars PROVE AbstractStep
  OBVIOUS
<1>1. ASSUME NEW t \in Runners, NEW m \in Modes, Enter(t, m)
      PROVE  AbstractStep
  BY <1>1, EnterImplements
<1>2. ASSUME NEW t \in Runners, LeaveStopped(t)
      PROVE  AbstractStep
  BY <1>2, LeaveStoppedStutters
<1>3. ASSUME NEW t \in Runners, FindNothing(t)
      PROVE  AbstractStep
  BY <1>3, FindNothingStutters
<1>4. ASSUME NEW t \in Runners, WakeUp(t)
      PROVE  AbstractStep
  BY <1>4, WakeUpStutters
<1>5. ASSUME NEW t \in Runners, Reacquire(t)
      PROVE  AbstractStep
  BY <1>5, ReacquireStutters
<1>6. ASSUME NEW p \in Procs, Signal(p)
      PROVE  AbstractStep
  BY <1>6, SignalStutters
<1>7. ASSUME NEW p \in Procs, Stop(p)
      PROVE  AbstractStep
  BY <1>7, StopImplements
<1>8. ASSUME NEW t \in Runners, TakeTask(t)
      PROVE  AbstractStep
  BY <1>8, TakeTaskStutters
<1>9. ASSUME NEW t \in Runners, TakeOp(t)
      PROVE  AbstractStep
  BY <1>9, TakeOpImplements
<1>10. ASSUME NEW t \in Runners, PassTaskOn(t)
      PROVE  AbstractStep
  BY <1>10, PassTaskOnStutters
<1>11. ASSUME NEW t \in Runners, NEW q, TaskReturn(t, q)
      PROVE  AbstractStep
  BY <1>11, TaskReturnStutters
<1>12. ASSUME NEW t \in Runners, TaskCleanup(t)
      PROVE  AbstractStep
  BY <1>12, TaskCleanupStutters
<1>13. ASSUME NEW t \in Runners, NEW throws \in BOOLEAN, CompleteOp(t, throws)
      PROVE  AbstractStep
  BY <1>13, CompleteOpImplements
<1>14. ASSUME NEW t \in Runners, WorkPush(t)
      PROVE  AbstractStep
  BY <1>14, WorkPushStutters
<1>15. ASSUME NEW p \in Procs, NEW o \in Ops, NEW c \in BOOLEAN, Post(p, o, c)
      PROVE  AbstractStep
  BY <1>15, PostImplements
<1>16. ASSUME NEW p \in Procs, Push(p)
      PROVE  AbstractStep
  BY <1>16, PushStutters
<1>17. ASSUME NEW p \in Procs, NEW o \in Ops, StartIo(p, o)
      PROVE  AbstractStep
  BY <1>17, StartIoImplements
<1>18. ASSUME NEW p \in Procs, NEW o \in Ops, CancelIo(p, o)
      PROVE  AbstractStep
  BY <1>18, CancelIoStutters
<1>19. ASSUME NEW p \in Procs, InitTask(p)
      PROVE  AbstractStep
  BY <1>19, InitTaskStutters
<1>20. ASSUME NEW p \in Procs, StopCall(p)
      PROVE  AbstractStep
  BY <1>20, StopCallImplements
<1>21. ASSUME NEW p \in Procs, Restart(p)
      PROVE  AbstractStep
  BY <1>21, RestartImplements
<1>22. ASSUME NEW p \in Procs, AcquireGuard(p)
      PROVE  AbstractStep
  BY <1>22, AcquireGuardImplements
<1>23. ASSUME NEW p \in Procs, ReleaseGuard(p)
      PROVE  AbstractStep
  BY <1>23, ReleaseGuardImplements
<1>24. ASSUME NEW p \in Procs, BeginShutdown(p)
      PROVE  AbstractStep
  BY <1>24, BeginShutdownImplements
<1>25. ASSUME NEW p \in Procs, FinishShutdown(p)
      PROVE  AbstractStep
  BY <1>25, FinishShutdownImplements
<1>26. CASE UNCHANGED vars
  BY <1>26 DEF AbstractStep, Abstract!vars, Status, vars, sharedVars, ctlVars,
     opVars
<1>27. QED
  BY <1>1, <1>2, <1>3, <1>4, <1>5, <1>6, <1>7, <1>8, <1>9, <1>10, <1>11,
     <1>12, <1>13, <1>14, <1>15, <1>16, <1>17, <1>18, <1>19, <1>20, <1>21,
     <1>22, <1>23, <1>24, <1>25, <1>26
  DEF Next, RunStep, CallStep, Call

\* The scheduler implements the executor, for any finite number of threads and
\* operations: each operation runs once, on one thread, or is destroyed at the
\* end; and the scheduler stops by itself only on a decision that was taken when
\* nothing was left to do.
THEOREM SchedulerImplementsExecutor ==
  ASSUME Finite
  PROVE  Spec => ImplementsExecutor
<1>1. Init => Abstract!Init
  BY InitImplements
<1>2. /\ IInv /\ OpsInv /\ WorkSum /\ (IInv /\ OpsInv /\ WorkSum)' /\ [Next]_vars
      => [Abstract!Next]_(Abstract!vars)
  BY NextImplements DEF Sound, AbstractStep
<1>3. QED
  BY <1>1, <1>2, SchedulerWork, PTL DEF Spec, ImplementsExecutor, Abstract!Spec
============================================================================
