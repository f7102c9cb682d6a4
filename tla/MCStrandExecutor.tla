-------------------------- MODULE MCStrandExecutor --------------------------
(* Instances of StrandExecutor for TLC.  Workers and strands are alike, but  *)
(* the run checks liveness, for which symmetry is not sound.                 *)
EXTENDS StrandExecutor, TLC
============================================================================
