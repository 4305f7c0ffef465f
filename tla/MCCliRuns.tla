----------------------------- MODULE MCCliRuns -----------------------------
(* Instances of CliRuns for TLC. *)
EXTENDS CliRuns

CONSTANTS p1, p2

\* p1 dies once and comes back; p2 lives on, and may start at any time.
FirstDiesOnce == [p \in Process |-> IF p = p1 THEN 2 ELSE 1]

NobodyDies == [p \in Process |-> 1]
=============================================================================
