----------------------- MODULE MCBackgroundExecution -----------------------
(* Instances of BackgroundExecution for TLC. *)
EXTENDS BackgroundExecution, TLC

Symmetric == Permutations(Supervisor) \cup Permutations(Execution)
=============================================================================
