------------------------- MODULE ExecutionLifecycle -------------------------
(***************************************************************************)
(* What the detached executions of one orchestration run promise, without  *)
(* their processes, threads, leases and heartbeats: at most one of them is *)
(* active, an outcome is final, and a cancellation that was accepted is    *)
(* never turned into success or failure.  BackgroundExecution implements   *)
(* it.                                                                     *)
(***************************************************************************)
CONSTANT Execution

VARIABLE st     \* st[e]: status of execution e, "absent" before it is recorded

Active == {"starting", "running", "cancelling"}
Outcome == {"cancelled", "completed", "failed", "stale"}
ExecutionStatus == {"absent"} \cup Active \cup Outcome

TypeOK == st \in [Execution -> ExecutionStatus]

Init == st = [e \in Execution |-> "absent"]

Move(e, to) == st' = [st EXCEPT ![e] = to]

\* start_background_execution records the launch.
Record(e) ==
    /\ st[e] = "absent"
    /\ \A x \in Execution : st[x] \notin Active
    /\ Move(e, "starting")

Begin(e) == st[e] = "starting" /\ Move(e, "running")

\* A restarted process takes over what a dead one was running.
Adopt(e) == st[e] = "running" /\ Move(e, "starting")

RequestCancel(e) == st[e] = "running" /\ Move(e, "cancelling")

End(e) ==
    \E outcome \in Outcome :
        /\ st[e] \in Active
        /\ st[e] = "cancelling" => outcome \in {"cancelled", "stale"}
        /\ Move(e, outcome)

Next ==
    \E e \in Execution :
        Record(e) \/ Begin(e) \/ Adopt(e) \/ RequestCancel(e) \/ End(e)

Spec == Init /\ [][Next]_st

----------------------------------------------------------------------------
\* Two executions never drive the same run.
OneActive ==
    \A e, x \in Execution : st[e] \in Active /\ st[x] \in Active => e = x

\* What a client has been told of a finished execution stays true, and an
\* accepted cancellation is never answered by success or failure.
OutcomesHold ==
    [][\A e \in Execution :
        /\ st[e] \in Outcome => st'[e] = st[e]
        /\ st[e] = "cancelling" => st'[e] \in {"cancelling", "cancelled", "stale"}]_st
=============================================================================
