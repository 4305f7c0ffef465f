--------------------------- MODULE ApprovalLedger ---------------------------
(***************************************************************************)
(* What every kind of approval promises, whatever stores it and whoever    *)
(* claims it: somebody asks, somebody answers once, one operation uses the *)
(* yes up, and that operation acts at most once.                           *)
(***************************************************************************)
EXTENDS Naturals

CONSTANT Approval

VARIABLES
    status,     \* status[a]: what has become of a
    acts        \* acts[a]: how many operations have acted on the strength of a

ledgerVars == <<status, acts>>

Moves(a, from, to) ==
    /\ status[a] = from /\ status'[a] = to
    /\ status' = [status EXCEPT ![a] = to]
    /\ UNCHANGED acts

Ask(a) == Moves(a, "absent", "pending")
Answer(a) == Moves(a, "pending", "approved") \/ Moves(a, "pending", "denied")
UseUp(a) == Moves(a, "approved", "executed")

Act(a) ==
    /\ status[a] = "executed"
    /\ acts[a] = 0 /\ acts'[a] = 1
    /\ acts' = [acts EXCEPT ![a] = 1]
    /\ UNCHANGED status

LedgerInit ==
    /\ status = [a \in Approval |-> "absent"]
    /\ acts = [a \in Approval |-> 0]

LedgerSpec ==
    LedgerInit /\ [][\E a \in Approval : Ask(a) \/ Answer(a) \/ UseUp(a) \/ Act(a)]_ledgerVars
=============================================================================
