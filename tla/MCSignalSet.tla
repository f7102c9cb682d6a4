---------------------------- MODULE MCSignalSet ----------------------------
(* Instances of SignalSet for TLC: two contexts, for the first of which two*)
(* services are made, and three sets.                                      *)
EXTENDS SignalSet

MCKeptFor == [s \in Services |-> IF s = "A2" THEN "A" ELSE s]
MCServiceOf == [x \in Sets |-> IF x = 3 THEN "B" ELSE "A"]

Program(services, sets, signals, waits, raises, forks, calls) ==
  [services |-> services, sets |-> sets, signals |-> signals,
   waits |-> waits, raises |-> raises, forks |-> forks,
   calls |-> calls]

\* Two sets of one context, with every call on them.
EveryCall ==
  Program({"A"}, {1, 2}, SignalNumbers,
          [x \in Sets |-> IF x = 1 THEN 2 ELSE 1], 2, 0,
          {"remove", "clear", "cancel", "cancel_by_key"})

\* Two contexts that come and go, and a service that is made twice.
TwoContexts ==
  Program({"A", "A2", "B"}, {1, 3}, {15}, [x \in Sets |-> 1], 2, 0,
          {"shutdown"})

\* A fork with signals in the pipe, which may be full.
Forked == Program({"A"}, {1}, SignalNumbers, [x \in Sets |-> 2], 3, 1, {"cancel"})

MCPrograms == {EveryCall, TwoContexts, Forked}
============================================================================
