----------------------------- MODULE RunRecord -----------------------------
(***************************************************************************)
(* One OrchestrationRun as a value, and what each operation of             *)
(* orchestration.py makes of it.  Nothing here is concurrent: RunStore     *)
(* says who reads and writes the record, and when.                         *)
(*                                                                         *)
(* Tasks are their positions in run.tasks.  The agent uuid of the n-th     *)
(* claim of task t is the pair <<t, n>>, of which the record keeps n (0    *)
(* when task.agent_id is None).  A blocker and the follow-up created with  *)
(* it share a number, which no other blocker of the record has.            *)
(***************************************************************************)
EXTENDS Naturals, FiniteSets

CONSTANTS
    TaskCount,      \* number of tasks of the graph
    Deps,           \* Deps[t]: the dependencies of task t
    RetryLimit,     \* RetryLimit[t]: task.retry_limit
    Gates,          \* required_dod_evidence
    Note,           \* texts a close request may give for a gate
    NoNote,         \* a gate without evidence
    MaxReady,       \* MAX_READY_TASKS_PER_ADVANCE
    MaxIssue,       \* bound: claims (agent ids) of one task
    MaxBlockers     \* bound: blockers created in the life of the run

Task == 1..TaskCount
Attempt == 1..MaxIssue

\* The graph _validate_graph lets through: known, acyclic dependencies.  Every
\* acyclic graph can be listed so that dependencies come first.
ASSUME RunAssumption ==
    /\ TaskCount \in Nat \ {0}
    /\ Deps \in [Task -> SUBSET Task]
    /\ \A t \in Task : \A d \in Deps[t] : d < t
    /\ RetryLimit \in [Task -> Nat]
    /\ MaxReady \in Nat \ {0}
    /\ MaxIssue \in Nat \ {0}
    /\ MaxBlockers \in Nat
    /\ NoNote \notin Note

TaskStatus == {"pending", "running", "completed", "blocked"}
Severity == {"role_boundary", "retry_exhausted", "blocked"}
Recoverable == {"role_boundary", "retry_exhausted"}
Resolvable == {"blocked"}
UpdateStatus == {"completed", "failed", "blocked"}

Blocker == [id : Nat, task : Task, sev : Severity, open : BOOLEAN]
FollowUp == [id : Nat, task : Task]

Evidence == [Gates -> Note \cup {NoNote}]

Run == [open     : BOOLEAN,                   \* status not in TERMINAL_RUN_STATUSES
        st       : [Task -> TaskStatus],
        agent    : [Task -> 0..MaxIssue],
        retries  : [Task -> Nat],
        issued   : [Task -> 0..MaxIssue],     \* ghost: uuids drawn for the task
        inBounds : [Task -> BOOLEAN],         \* _role_boundary_decision(task).allowed
        blockers : SUBSET Blocker,
        followUps: SUBSET FollowUp,
        nextId   : Nat,                       \* ghost: the number of the next blocker
        evidence : Evidence]

----------------------------------------------------------------------------
(* What the code derives from a run.                                       *)

Unresolved(r) == {b \in r.blockers : b.open}
UnresolvedOf(r, t) == {b \in Unresolved(r) : b.task = t}

\* Variant: only what people see of a run is compared.
SignatureOfBlockers(r) == <<r.blockers, r.followUps>>

\* _progress_signature: everything an optimistic writer compares.  The run's
\* status, its evidence and the role decisions are not part of it.
Signature(r) ==
    <<r.st, r.agent, r.retries, r.blockers, r.followUps>>

\* Variant: a dependency that is under way is good enough.
ReadyWhenDepsStarted(r) ==
    {t \in Task : r.st[t] = "pending" /\ \A d \in Deps[t] : r.st[d] \in {"running", "completed"}}

Ready(r) ==
    {t \in Task : r.st[t] = "pending" /\ \A d \in Deps[t] : r.st[d] = "completed"}

\* The first MAX_READY_TASKS_PER_ADVANCE ready tasks, in list order.
Claimed(r) ==
    {t \in Ready(r) : Cardinality({u \in Ready(r) : u < t}) < MaxReady}

\* {**run.dod_evidence, **request.evidence}
Merged(r, given) ==
    [g \in Gates |-> IF given[g] # NoNote THEN given[g] ELSE r.evidence[g]]

\* Variant: blocked tasks do not stand in the way.
CloseableWhenQuiet(r, given) ==
    /\ \A t \in Task : r.st[t] \notin {"pending", "running"}
    /\ \A g \in Gates : Merged(r, given)[g] # NoNote

Closeable(r, given) ==
    /\ \A t \in Task : r.st[t] = "completed"
    /\ Unresolved(r) = {}
    /\ \A g \in Gates : Merged(r, given)[g] # NoNote

----------------------------------------------------------------------------
(* The transitions.                                                        *)

\* create_run: tasks outside their role's paths start blocked.
Created(inBounds) ==
    LET out == {t \in Task : ~inBounds[t]} IN
    [open      |-> TRUE,
     st        |-> [t \in Task |-> IF inBounds[t] THEN "pending" ELSE "blocked"],
     agent     |-> [t \in Task |-> 0],
     retries   |-> [t \in Task |-> 0],
     issued    |-> [t \in Task |-> 0],
     inBounds  |-> inBounds,
     blockers  |-> {[id |-> t, task |-> t, sev |-> "role_boundary", open |-> TRUE] : t \in out},
     followUps |-> {[id |-> t, task |-> t] : t \in out},
     nextId    |-> TaskCount + 1,
     evidence  |-> [g \in Gates |-> NoNote]]

WithBlocker(r, t, sev) ==
    [r EXCEPT !.st[t] = "blocked",
              !.blockers = @ \cup {[id |-> r.nextId, task |-> t, sev |-> sev, open |-> TRUE]},
              !.followUps = @ \cup {[id |-> r.nextId, task |-> t]},
              !.nextId = @ + 1]

\* update_task: a failure is retried while the budget lasts, then blocks.
Failed(r, t) ==
    LET counted == [r EXCEPT !.retries[t] = @ + 1] IN
    IF counted.retries[t] <= RetryLimit[t]
    THEN [counted EXCEPT !.st[t] = "pending", !.agent[t] = 0]
    ELSE WithBlocker(counted, t, "retry_exhausted")

\* Variant: the reported status is stored as it is.
UpdatedVerbatim(r, t, upd) == [r EXCEPT !.st[t] = upd]

Updated(r, t, upd) ==
    CASE upd = "completed" -> [r EXCEPT !.st[t] = "completed"]
      [] upd = "failed"    -> Failed(r, t)
      [] upd = "blocked"   -> WithBlocker(r, t, "blocked")

\* Variant: the follow-ups stay behind.
UnblockedOnly(r, t) == [r EXCEPT !.st[t] = "pending", !.agent[t] = 0]

\* A blocked task handed back to the scheduler: its follow-ups go with it.
Unblocked(r, t) ==
    [r EXCEPT !.st[t] = "pending",
              !.agent[t] = 0,
              !.followUps = {f \in @ : f.task # t}]

\* recover_task drops every recoverable blocker of the task, resolved or not.
Recovered(r, t, resetRetries) ==
    [Unblocked(r, t) EXCEPT
        !.blockers = {b \in @ : ~(b.task = t /\ b.sev \in Recoverable)},
        !.inBounds[t] = TRUE,
        !.retries[t] = IF resetRetries THEN 0 ELSE @]

\* resolve_blocker keeps the blocker, marked resolved, and unblocks the task
\* when nothing else holds it.
Resolved(r, b) ==
    LET marked == [r EXCEPT !.blockers = (@ \ {b}) \cup {[b EXCEPT !.open = FALSE]}] IN
    IF r.st[b.task] = "blocked" /\ UnresolvedOf(marked, b.task) = {}
    THEN Unblocked(marked, b.task)
    ELSE marked

Closed(r, given) == [r EXCEPT !.open = FALSE, !.evidence = Merged(r, given)]

\* _claim_ready_tasks_for_schedule: a task that kept an agent id keeps it.
AfterClaim(r) ==
    LET fresh == {t \in Claimed(r) : r.agent[t] = 0} IN
    [r EXCEPT !.st     = [t \in Task |-> IF t \in Claimed(r) THEN "running" ELSE @[t]],
              !.agent  = [t \in Task |-> IF t \in fresh THEN r.issued[t] + 1 ELSE @[t]],
              !.issued = [t \in Task |-> IF t \in fresh THEN @[t] + 1 ELSE @[t]]]

\* Variant: the task is taken back whatever became of it meanwhile.
RolledBackBlindly(r, unspawned) ==
    LET undone == {t \in Task : <<t, r.agent[t]>> \in unspawned} IN
    [r EXCEPT !.st    = [t \in Task |-> IF t \in undone THEN "pending" ELSE @[t]],
              !.agent = [t \in Task |-> IF t \in undone THEN 0 ELSE @[t]]]

\* _rollback_unspawned_schedule_claims, for the agents that never came up.
RolledBack(r, unspawned) ==
    LET undone == {t \in Task : r.st[t] = "running" /\ <<t, r.agent[t]>> \in unspawned} IN
    [r EXCEPT !.st    = [t \in Task |-> IF t \in undone THEN "pending" ELSE @[t]],
              !.agent = [t \in Task |-> IF t \in undone THEN 0 ELSE @[t]]]
=============================================================================
