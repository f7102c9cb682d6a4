--------------------------- MODULE MCEpollReactor ---------------------------
(* Instances of EpollReactor for TLC. *)
EXTENDS EpollReactor, TLC

\* Threads, and descriptor_states, are alike.
Symmetry == Permutations(Workers) \cup Permutations(States)

\* Three operations of any kinds but urgent receives, or an urgent receive and
\* one of any kind, in either order.
Three ==
  <<{"read", "wait", "write"}, {"read", "wait", "write"}, {"read", "write"}>>
UrgentFirst == <<{"urgent"}, AllKinds, {}>>
UrgentLast == <<{"read", "wait", "write"}, {"urgent"}, {}>>
MCPrograms == {Three, UrgentFirst, UrgentLast}
============================================================================
