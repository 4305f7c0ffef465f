----------------------------- MODULE MCRunStore -----------------------------
(* Instances of RunStore for TLC. *)
EXTENDS RunStore, TLC

\* A chain: every task depends on the one before it.
ChainDeps == [t \in Task |-> IF t = 1 THEN {} ELSE {t - 1}]

\* Tasks that are ready together.
NoDeps == [t \in Task |-> {}]

NoRetry == [t \in Task |-> 0]
FirstRetries == [t \in Task |-> IF t = 1 THEN 1 ELSE 0]

Symmetric == Permutations(Supervisor)
=============================================================================
