------------------------------ MODULE RunStore ------------------------------
(***************************************************************************)
(* The foreground handlers of OrchestrationService over one run shared by  *)
(* several supervisors (one backend process each) through the JSON files   *)
(* of the run, of its agents and of its scheduler lease.                   *)
(*                                                                         *)
(* A supervisor runs one handler at a time (_locked_mutation); a handler   *)
(* is a chain of reads and writes of the three files, and every gap        *)
(* between two of them is a gap between two actions here.  op[s].pc says   *)
(* what the handler of s does next:                                        *)
(*                                                                         *)
(*   cycle -> persist -> agent -> agentWrite -> acquire -> claim -> spawn  *)
(*         -> spawnWrite -> (rollback ->) release -> cycle or idle         *)
(*                                                                         *)
(* A handler that raises goes to idle and drops what it had left to do.    *)
(***************************************************************************)
EXTENDS RunRecord

CONSTANTS
    Supervisor,     \* backend processes that share the data directory
    Cycler,         \* those of them that run cycles
    Nobody,         \* no lease, or an expired one
    Orphan,         \* a live lease whose process has died
    MaxCrashes,     \* bound: process crashes in a behaviour
    MaxFailing,     \* bound: agents of one task that may report no success
    LeaseMayLapse,  \* a living holder may outlast SCHEDULER_LEASE_SECONDS
    AuditMayFail,   \* spawn_agent may raise after it wrote the agent
    ManualUpdates   \* operators report task results besides the agents

ASSUME StoreAssumption ==
    /\ {Nobody, Orphan} \cap Supervisor = {}
    /\ Nobody # Orphan
    /\ Cycler \subseteq Supervisor
    /\ MaxCrashes \in Nat
    /\ MaxFailing \in Nat
    /\ {LeaseMayLapse, AuditMayFail, ManualUpdates} \subseteq BOOLEAN

VARIABLES
    run,        \* the OrchestrationRun in orchestration-runs.json
    agents,     \* agents[a]: status of the agent record a, or "absent"
    lease,      \* holder of the run's scheduler lease
    op,         \* op[s]: the handler supervisor s is executing
    crashes     \* crashes so far

vars == <<run, agents, lease, op, crashes>>

AgentId == Task \X Attempt
Terminal == {"completed", "failed", "cancelled"}
AgentStatus == {"absent", "running"} \cup Terminal

Phase == {"idle", "cycle", "persist", "agent", "agentWrite", "acquire",
          "claim", "spawn", "spawnWrite", "rollback", "release"}

\* What a handler will write once it has validated its request.
Request ==
    [kind : {"none"}]
        \cup [kind : {"update"}, task : Task, upd : UpdateStatus]
        \cup [kind : {"recover"}, task : Task, reset : BOOLEAN]
        \cup [kind : {"resolve"}, blocker : Blocker, again : BOOLEAN]
        \cup [kind : {"close"}, given : Evidence]

Handler == [pc      : Phase,
            req     : Request,
            base    : Run,                       \* the run as it was read
            queue   : [Task -> {"none"} \cup UpdateStatus],
            skip    : BOOLEAN,                   \* skip_foreground_conflict
            claims  : SUBSET AgentId,
            spawned : SUBSET AgentId]

TypeOK ==
    /\ run \in Run
    /\ agents \in [AgentId -> AgentStatus]
    /\ lease \in Supervisor \cup {Nobody, Orphan}
    /\ op \in [Supervisor -> Handler]
    /\ crashes \in 0..MaxCrashes

NoQueue == [t \in Task |-> "none"]

Idle == [pc      |-> "idle",
         req     |-> [kind |-> "none"],
         base    |-> Created([t \in Task |-> TRUE]),
         queue   |-> NoQueue,
         skip    |-> FALSE,
         claims  |-> {},
         spawned |-> {}]

\* The record that request q makes of the run it was validated against.
Result(r, q) ==
    CASE q.kind = "update"  -> Updated(r, q.task, q.upd)
      [] q.kind = "recover" -> Recovered(r, q.task, q.reset)
      [] q.kind = "resolve" -> Resolved(r, q.blocker)
      [] q.kind = "close"   -> Closed(r, q.given)
      [] OTHER              -> r

\* The agent of the task an update is about.
AgentOf(o) == <<o.req.task, o.base.agent[o.req.task]>>

Goto(s, o) == op' = [op EXCEPT ![s] = o]

\* What is left of a cycle once one of its updates is through.
Continue(o) ==
    IF o.queue = NoQueue THEN Idle
    ELSE [Idle EXCEPT !.pc = "cycle", !.queue = o.queue]

Scheduling(o, skip) ==
    [Idle EXCEPT !.pc = "acquire", !.queue = o.queue, !.skip = skip]

\* Bounds: an agent id and a blocker id are left for what t may need next.
Room(t) ==
    /\ run.issued[t] < MaxIssue
    /\ run.nextId <= TaskCount + MaxBlockers

----------------------------------------------------------------------------
(* Requests: the run is read and validated, nothing is written yet.        *)

Begin(s, q) ==
    /\ op[s].pc = "idle"
    /\ run.open
    /\ Goto(s, [Idle EXCEPT !.pc = "persist", !.req = q, !.base = run])
    /\ UNCHANGED <<run, agents, lease, crashes>>

\* update_task called by an operator.
StartUpdate(s) ==
    \E t \in Task, u \in UpdateStatus :
        /\ ManualUpdates
        /\ run.st[t] = "running"
        /\ u = "completed" \/ Room(t)
        /\ Begin(s, [kind |-> "update", task |-> t, upd |-> u])

StartRecover(s) ==
    \E t \in Task, reset \in BOOLEAN :
        /\ run.st[t] = "blocked"
        /\ UnresolvedOf(run, t) # {}
        /\ \A b \in UnresolvedOf(run, t) : b.sev \in Recoverable
        /\ Begin(s, [kind |-> "recover", task |-> t, reset |-> reset])

StartResolve(s) ==
    \E b \in Unresolved(run), again \in BOOLEAN :
        /\ b.sev \in Resolvable
        /\ Begin(s, [kind |-> "resolve", blocker |-> b, again |-> again])

StartClose(s) ==
    \E given \in Evidence :
        /\ Closeable(run, given)
        /\ Begin(s, [kind |-> "close", given |-> given])

StartAdvance(s) ==
    /\ op[s].pc = "idle"
    /\ run.open
    /\ Goto(s, Scheduling(Idle, FALSE))
    /\ UNCHANGED <<run, agents, lease, crashes>>

\* _task_update_from_agent_status for every running task.
Reported(t) ==
    IF run.st[t] # "running" \/ run.agent[t] = 0 THEN "none"
    ELSE CASE agents[<<t, run.agent[t]>>] = "completed" -> "completed"
           [] agents[<<t, run.agent[t]>>] = "failed"    -> "failed"
           [] agents[<<t, run.agent[t]>>] = "cancelled" -> "blocked"
           [] OTHER                                     -> "none"

\* run_cycle: with nothing reported it only schedules.
StartCycle(s) ==
    LET queue == [t \in Task |-> Reported(t)] IN
    /\ s \in Cycler
    /\ op[s].pc = "idle"
    /\ run.open
    /\ Goto(s, IF queue = NoQueue THEN Scheduling(Idle, FALSE)
               ELSE [Idle EXCEPT !.pc = "cycle", !.queue = queue])
    /\ UNCHANGED <<run, agents, lease, crashes>>

\* update_task called by run_cycle: the run is read again, and it is the task,
\* not the agent that reported, that must still be running.
CycleNext(s) ==
    /\ op[s].pc = "cycle"
    /\ \E t \in Task :
        LET u == op[s].queue[t] IN
        /\ u # "none"
        /\ \A w \in Task : w < t => op[s].queue[w] = "none"
        /\ IF run.open /\ run.st[t] = "running"
           THEN /\ u = "completed" \/ Room(t)
                /\ Goto(s, [Idle EXCEPT
                        !.pc = "persist", !.base = run,
                        !.req = [kind |-> "update", task |-> t, upd |-> u],
                        !.queue = [op[s].queue EXCEPT ![t] = "none"]])
           ELSE Goto(s, Idle)
    /\ UNCHANGED <<run, agents, lease, crashes>>

----------------------------------------------------------------------------
(* Writing the run.                                                        *)

\* An uuid once drawn stays drawn, whatever version of the run is written.
Write(r) == run' = [r EXCEPT !.issued = run.issued]

\* _persist_if_run_unchanged, and where the handler goes from there.
Persist(s) ==
    LET o == op[s]
        q == o.req
        r == Result(o.base, q) IN
    /\ o.pc = "persist"
    /\ q.kind # "close"
    /\ IF Signature(run) # Signature(o.base)
       THEN Goto(s, Idle) /\ UNCHANGED run
       ELSE /\ Write(r)
            /\ \/ q.kind = "update" /\ Goto(s, [o EXCEPT !.pc = "agent"])
               \/ q.kind = "recover" /\ Goto(s, Scheduling(Idle, FALSE))
               \/ /\ q.kind = "resolve"
                  /\ Goto(s, IF q.again /\ r.st[q.blocker.task] # o.base.st[q.blocker.task]
                             THEN Scheduling(Idle, FALSE) ELSE Idle)
    /\ UNCHANGED <<agents, lease, crashes>>

\* close_run: _persist, an upsert of the run as it was read.
Close(s) ==
    /\ op[s].pc = "persist"
    /\ op[s].req.kind = "close"
    /\ Write(Result(op[s].base, op[s].req))
    /\ Goto(s, Idle)
    /\ UNCHANGED <<agents, lease, crashes>>

----------------------------------------------------------------------------
(* _update_agent_for_task, then the scheduling an update ends with.        *)

AfterUpdate(o) ==
    IF Result(o.base, o.req).st[o.req.task] \in {"completed", "pending"}
    THEN Scheduling(o, TRUE) ELSE Continue(o)

AgentCheck(s) ==
    LET o == op[s] IN
    /\ o.pc = "agent"
    /\ Goto(s, IF agents[AgentOf(o)] \in Terminal THEN AfterUpdate(o)
               ELSE [o EXCEPT !.pc = "agentWrite"])
    /\ UNCHANGED <<run, agents, lease, crashes>>

\* update_agent_status: a missing agent is left missing, any other status
\* is overwritten.
AgentWrite(s) ==
    LET o == op[s] IN
    /\ o.pc = "agentWrite"
    /\ agents' = [agents EXCEPT ![AgentOf(o)] =
            CASE @ = "absent" -> "absent"
              [] @ # "absent" /\ o.req.upd = "completed" -> "completed"
              [] @ # "absent" /\ o.req.upd # "completed" -> "failed"]
    /\ Goto(s, AfterUpdate(o))
    /\ UNCHANGED <<run, lease, crashes>>

----------------------------------------------------------------------------
(* _schedule_ready_tasks.                                                  *)

\* Variant: whoever comes last has the lease.
AcquireAlways(s) ==
    /\ op[s].pc = "acquire"
    /\ lease' = s
    /\ Goto(s, [op[s] EXCEPT !.pc = "claim"])
    /\ UNCHANGED <<run, agents, crashes>>

Acquire(s) ==
    LET o == op[s] IN
    /\ o.pc = "acquire"
    /\ \/ /\ lease = Nobody
          /\ lease' = s
          /\ Goto(s, [o EXCEPT !.pc = "claim"])
       \/ /\ lease # Nobody
          /\ Goto(s, IF o.skip THEN Continue(o) ELSE Idle)
          /\ UNCHANGED lease
    /\ UNCHANGED <<run, agents, crashes>>

\* Variant: only ready tasks are claimed.
NoneMissing == {}

\* Running tasks whose agent never came up.
Missing == {t \in Task : /\ run.st[t] = "running"
                         /\ run.agent[t] # 0
                         /\ agents[<<t, run.agent[t]>>] = "absent"}

\* Ready tasks become running; they and the tasks without agent are claimed.
Claim(s) ==
    LET o == op[s]
        r == AfterClaim(run)
        claims == {<<t, r.agent[t]>> : t \in Claimed(run) \cup Missing} IN
    /\ o.pc = "claim"
    /\ IF lease = s /\ run.open
       THEN /\ \A t \in Claimed(run) : run.issued[t] < MaxIssue
            /\ run' = r
            /\ Goto(s, [o EXCEPT !.pc = IF claims = {} THEN "release" ELSE "spawn",
                                 !.claims = claims])
       ELSE Goto(s, [o EXCEPT !.pc = "release", !.queue = NoQueue]) /\ UNCHANGED run
    /\ UNCHANGED <<agents, lease, crashes>>

\* The claim the spawn loop is at: claims are taken in task order.
Current(o, a) ==
    /\ a \in o.claims \ o.spawned
    /\ \A c \in o.claims \ o.spawned : a[1] <= c[1]

AfterSpawn(o, a) ==
    [o EXCEPT !.spawned = @ \cup {a},
              !.pc = IF o.claims \subseteq o.spawned \cup {a} THEN "release" ELSE "spawn"]

\* get_agent: an agent that is there already is not spawned again.
SpawnCheck(s) ==
    LET o == op[s] IN
    /\ o.pc = "spawn"
    /\ \E a \in AgentId :
        /\ Current(o, a)
        /\ Goto(s, IF agents[a] # "absent" THEN AfterSpawn(o, a)
                   ELSE [o EXCEPT !.pc = "spawnWrite"])
    /\ UNCHANGED <<run, agents, lease, crashes>>

\* spawn_agent: an upsert, whatever is there by now.
SpawnWrite(s) ==
    LET o == op[s] IN
    /\ o.pc = "spawnWrite"
    /\ \E a \in AgentId :
        /\ Current(o, a)
        /\ agents' = [agents EXCEPT ![a] = "running"]
        /\ Goto(s, AfterSpawn(o, a))
    /\ UNCHANGED <<run, lease, crashes>>

\* The brief, the upsert or (AuditMayFail) the event log entry after it raises.
SpawnFail(s) ==
    LET o == op[s] IN
    /\ o.pc = "spawnWrite"
    /\ \A c \in o.claims \ o.spawned : c[2] < MaxIssue
    /\ Goto(s, [o EXCEPT !.pc = "rollback"])
    /\ \/ UNCHANGED agents
       \/ /\ AuditMayFail
          /\ \E a \in AgentId : Current(o, a) /\ agents' = [agents EXCEPT ![a] = "running"]
    /\ UNCHANGED <<run, lease, crashes>>

\* Variant: the whole schedule is taken back.
RollbackAll(s) ==
    LET o == op[s] IN
    /\ o.pc = "rollback"
    /\ run' = RolledBack(run, o.claims)
    /\ Goto(s, [o EXCEPT !.pc = "release", !.queue = NoQueue])
    /\ UNCHANGED <<agents, lease, crashes>>

Rollback(s) ==
    LET o == op[s] IN
    /\ o.pc = "rollback"
    /\ run' = RolledBack(run, o.claims \ o.spawned)
    /\ Goto(s, [o EXCEPT !.pc = "release", !.queue = NoQueue])
    /\ UNCHANGED <<agents, lease, crashes>>

\* Variant: the lease is given back only after agents were brought up.
ReleaseAfterSpawns(s) ==
    /\ op[s].pc = "release"
    /\ lease' = IF lease = s /\ op[s].spawned # {} THEN Nobody ELSE lease
    /\ Goto(s, Continue(op[s]))
    /\ UNCHANGED <<run, agents, crashes>>

\* The finally clause: only a lease with the handler's own token goes.
Release(s) ==
    /\ op[s].pc = "release"
    /\ lease' = IF lease = s THEN Nobody ELSE lease
    /\ Goto(s, Continue(op[s]))
    /\ UNCHANGED <<run, agents, crashes>>

----------------------------------------------------------------------------
(* The surroundings.                                                       *)

\* A process dies and another takes its place: its handler is gone, its lease
\* stays until it expires.
Crash(s) ==
    /\ crashes < MaxCrashes
    /\ op[s].pc # "idle"
    /\ crashes' = crashes + 1
    /\ Goto(s, Idle)
    /\ lease' = IF lease = s THEN Orphan ELSE lease
    /\ UNCHANGED <<run, agents>>

\* Variant: a lease whose process has died is never replaced.
ExpireLiving ==
    /\ LeaseMayLapse /\ lease \in Supervisor
    /\ lease' = Nobody
    /\ UNCHANGED <<run, agents, op, crashes>>

Expire ==
    /\ lease = Orphan \/ (LeaseMayLapse /\ lease \in Supervisor)
    /\ lease' = Nobody
    /\ UNCHANGED <<run, agents, op, crashes>>

\* PATCH /agents/{id}/status by the agent itself.
AgentReport(a) ==
    /\ agents[a] = "running"
    /\ \E status \in Terminal :
        /\ status = "completed" \/ a[2] <= MaxFailing
        /\ agents' = [agents EXCEPT ![a] = status]
    /\ UNCHANGED <<run, lease, op, crashes>>

----------------------------------------------------------------------------
\* create_run has written the run and goes on to schedule it.
Init ==
    /\ \E inBounds \in [Task -> BOOLEAN] : run = Created(inBounds)
    /\ agents = [a \in AgentId |-> "absent"]
    /\ lease = Nobody
    /\ \E s \in Supervisor :
        op = [x \in Supervisor |-> IF x = s THEN Scheduling(Idle, FALSE) ELSE Idle]
    /\ crashes = 0

Start(s) ==
    \/ StartUpdate(s) \/ StartRecover(s) \/ StartResolve(s)
    \/ StartClose(s) \/ StartAdvance(s) \/ StartCycle(s)

\* The steps a handler takes by itself once it has started.
Step(s) ==
    \/ CycleNext(s) \/ Persist(s) \/ Close(s)
    \/ AgentCheck(s) \/ AgentWrite(s)
    \/ Acquire(s) \/ Claim(s)
    \/ SpawnCheck(s) \/ SpawnWrite(s) \/ SpawnFail(s) \/ Rollback(s)
    \/ Release(s)

Next ==
    \/ \E s \in Supervisor : Start(s) \/ Step(s) \/ Crash(s)
    \/ Expire
    \/ \E a \in AgentId : AgentReport(a)

Spec == Init /\ [][Next]_vars

\* A started handler runs on; an orphaned lease expires; somebody keeps asking
\* the processes that run cycles for them (an operator, or the loop of a
\* background execution).
Fairness ==
    /\ \A s \in Supervisor : WF_vars(Step(s)) /\ WF_vars(StartCycle(s))
    /\ WF_vars(lease = Orphan /\ Expire)

FairSpec == Spec /\ Fairness
----------------------------------------------------------------------------
(* The promise: seen from outside, the supervisors move the tasks of one   *)
(* board.                                                                  *)

Board == INSTANCE TaskBoard WITH st <- run.st, open <- run.open

\* Whatever the supervisors do concurrently, crashing or outliving their
\* leases, every write of the run is one move of the task board or no move.
ImplementsTaskBoard == Board!Spec

----------------------------------------------------------------------------
(* Safety.                                                                 *)

\* A task is started, or done, only after everything it depends on is done:
\* the claims of _claim_ready_tasks_for_schedule survive every later write of
\* a run that was read earlier.
DependenciesRespected ==
    \A t \in Task :
        run.st[t] \in {"running", "completed"}
            => \A d \in Deps[t] : run.st[d] = "completed"

\* A task is blocked exactly while one unresolved blocker says why and a
\* follow-up says who acts: update_task, recover_task and resolve_blocker
\* keep the three lists of the run in step.
BlockersMatchTasks ==
    \A t \in Task :
        /\ run.st[t] = "blocked" <=> UnresolvedOf(run, t) # {}
        /\ run.st[t] = "blocked" <=> \E f \in run.followUps : f.task = t
        /\ \A b, c \in UnresolvedOf(run, t) : b = c

\* A closed run has all its tasks completed, nothing unresolved and every
\* required piece of evidence (close_run), although close_run writes the run
\* it read without looking again.
ClosedIsComplete ==
    ~run.open =>
        /\ \A t \in Task : run.st[t] = "completed"
        /\ Unresolved(run) = {}
        /\ \A g \in Gates : run.evidence[g] # NoNote

\* No write of a handler that read the run while it was open reopens it or
\* changes its tasks and blockers.
ClosedStaysClosed ==
    [][~run.open => ~run'.open /\ Signature(run') = Signature(run)]_vars

\* A completed task is never started, retried or blocked again.
CompletedStays ==
    [][\A t \in Task : run.st[t] = "completed" => run'.st[t] = "completed"]_vars

\* _rollback_unspawned_schedule_claims takes a task from an agent that is up
\* only when it was the spawn of that very agent that raised, after its upsert:
\* what the loop had brought up before keeps its task, and what it had not come
\* to is not up.
RollbackSparesSpawned ==
    [][\A t \in Task :
        LET a == <<t, run.agent[t]>> IN
        (/\ run.st[t] = "running" /\ run'.st[t] = "pending"
         /\ run'.retries[t] = run.retries[t]
         /\ agents[a] # "absent")
            => \E s \in Supervisor : op[s].pc = "rollback" /\ Current(op[s], a)]_vars

\* A run never hands a task to an agent that is known already: the agent left
\* running by an update that died before it reached the agent (update_task), or
\* by a spawn that was rolled back after its upsert, is not named again by any
\* handler that still holds an older version of the run.
AgentsAreNotRenamed ==
    [][\A t \in Task :
        run'.agent[t] \notin {0, run.agent[t]}
            => agents[<<t, run'.agent[t]>>] = "absent"]_vars

\* The upsert of spawn_agent never brings an agent that has ended back to
\* running: only one scheduler at a time is between get_agent and the upsert.
EndedAgentsStayEnded ==
    [][\A a \in AgentId : agents[a] \in Terminal => agents'[a] # "running"]_vars

----------------------------------------------------------------------------
(* Liveness.                                                               *)

\* A task claimed by a scheduler that died before it spawned the agent gets
\* its agent, or goes back to be claimed again.
ClaimedTasksGetAgents ==
    \A t \in Task, n \in Attempt :
        (run.st[t] = "running" /\ run.agent[t] = n /\ agents[<<t, n>>] = "absent")
            ~> (agents[<<t, n>>] # "absent" \/ run.st[t] # "running")

\* The scheduler's lease is never held for ever.
LeaseIsFreed == lease # Nobody ~> lease = Nobody

\* A ready task is started: neither a lost lease nor a failed spawn leaves it
\* pending for ever.
ReadyTasksStart == \A t \in Task : t \in Ready(run) ~> t \notin Ready(run)
=============================================================================
