----------------------------- MODULE TaskBoard -----------------------------
(***************************************************************************)
(* What an orchestration run promises, without its files, leases, agents   *)
(* and handlers: a board of tasks that are claimed in dependency order,    *)
(* handed back, finished or blocked one by one, and closed when all are    *)
(* done.  RunStore implements it.                                          *)
(***************************************************************************)
CONSTANTS Task, Deps

\* What the theorems assume of the graph; RunStore's graphs satisfy it.
BoardAssumption == Deps \in [Task -> SUBSET Task]

VARIABLES
    st,     \* st[t]: the status of task t
    open    \* the run has not been closed

vars == <<st, open>>

BoardStatus == {"pending", "running", "completed", "blocked"}

TypeOK == st \in [Task -> BoardStatus] /\ open \in BOOLEAN

Init == st \in [Task -> {"pending", "blocked"}] /\ open = TRUE

Move(S, from, to) ==
    /\ open
    /\ S # {}
    /\ \A t \in S : st[t] = from
    /\ st' = [t \in Task |-> IF t \in S THEN to ELSE st[t]]
    /\ UNCHANGED open

\* The scheduler starts ready tasks.
Claim ==
    \E S \in SUBSET Task :
        /\ \A t \in S : \A d \in Deps[t] : st[d] = "completed"
        /\ Move(S, "pending", "running")

\* Started tasks whose agents never came up go back.
HandBack == \E S \in SUBSET Task : Move(S, "running", "pending")

\* The outcome of a task: done, to be tried again, or blocked.
Finish(t) == Move({t}, "running", "completed")
Retry(t) == Move({t}, "running", "pending")
Block(t) == Move({t}, "running", "blocked")

\* A person recovers the task or resolves what blocks it.
Unblock(t) == Move({t}, "blocked", "pending")

Close ==
    /\ open
    /\ \A t \in Task : st[t] = "completed"
    /\ open' = FALSE
    /\ UNCHANGED st

Next ==
    \/ Claim \/ HandBack \/ Close
    \/ \E t \in Task : Finish(t) \/ Retry(t) \/ Block(t) \/ Unblock(t)

Spec == Init /\ [][Next]_vars

----------------------------------------------------------------------------
\* A task has started only if everything it depends on is done.
StartedInOrder ==
    \A t \in Task :
        st[t] \in {"running", "completed"} => \A d \in Deps[t] : st[d] = "completed"

\* A closed board has nothing left to do.
ClosedIsDone == ~open => \A t \in Task : st[t] = "completed"
=============================================================================
