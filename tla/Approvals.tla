----------------------------- MODULE Approvals -----------------------------
(***************************************************************************)
(* What the approvals of the five gated operations (files, commands,       *)
(* generated tools, provider calls, network access) have in common: a      *)
(* record that is pending, then approved or denied once, and executed by   *)
(* the one operation that claims it.  A record binds what was asked for    *)
(* and what the policies and the world looked like then; the code keeps    *)
(* digests of it, here the bound value itself is kept.                     *)
(***************************************************************************)
EXTENDS Naturals, FiniteSets

CONSTANT None

Modes == {"safe", "approval", "blocked"}

NoApproval == [status |-> "absent", expired |-> FALSE, bound |-> None]

NewApproval(b) == [status |-> "pending", expired |-> FALSE, bound |-> b]

Approvable(a) == a.status = "pending" /\ ~a.expired

\* An expired approval can still be denied.
Deniable(a) == a.status = "pending"

\* Variant: a record that has been used is as good as one that is approved.
ClaimableAgain(a, b) ==
    /\ a.status \in {"approved", "executed"}
    /\ ~a.expired /\ a.bound = b

\* Variant: the id of an approved record will do.
ClaimableByAnybody(a, b) == a.status = "approved" /\ ~a.expired

\* The status, the deadline and every bound field are compared.
Claimable(a, b) == a.status = "approved" /\ ~a.expired /\ a.bound = b

\* The deadline of a record that is denied or executed means nothing any more.
Decided(a, verdict) ==
    [a EXCEPT !.status = verdict, !.expired = verdict = "approved" /\ @]

Claimed(a) == [a EXCEPT !.status = "executed", !.expired = FALSE]
=============================================================================
