--------------------------- MODULE MCTimerService ---------------------------
(* Instances of TimerService for TLC: timers are numbers, all but the last *)
(* on one clock.                                                           *)
EXTENDS TimerService

MCQueueOf == [t \in Timers |-> IF t = 7 THEN "system" ELSE "steady"]

Program(uses, waits, times, after, calls, fds) ==
  [uses |-> uses, waits |-> waits, times |-> times, after |-> after,
   calls |-> calls, fds |-> fds]

Unordered == [t \in Timers |-> {}]

\* Two timers on one clock, with every call on them.
EveryCall ==
  Program({1, 2}, [t \in Timers |-> IF t = 1 THEN 2 ELSE 1],
          [t \in Timers |-> IF t = 1 THEN {1, 2} ELSE {1}], Unordered,
          AllCalls \ {"fork", "shutdown"}, {TRUE})

\* Timers on two clocks, a fork, and the end.
TwoClocks ==
  Program({1, 2, 7}, [t \in Timers |-> 1],
          [t \in Timers |-> IF t = 1 THEN {2} ELSE {1}], Unordered,
          {"cancel", "fork", "shutdown"}, BOOLEAN)

\* A heap of six, filled in one order, from which any timer is removed: the
\* sixth entry may take the place of one with a later parent.
Deep ==
  Program(1 .. 6, [t \in Timers |-> 1],
          [t \in Timers |-> CASE t \in {2, 4, 5} -> {2} [] t \in {3, 6} -> {1}
                              [] OTHER -> {0}],
          [t \in Timers |-> 1 .. t - 1], {"cancel"}, {TRUE})

MCPrograms == {EveryCall, TwoClocks, Deep}
============================================================================
