--------------------------- MODULE RunStoreProofs ---------------------------
(* Theorems about RunStore, for every graph of tasks, every number of        *)
(* supervisors and every mixture of crashes, lapsed leases and failures.     *)
EXTENDS RunStore, TLAPS

----------------------------------------------------------------------------
(* What the operations of RunRecord return.                                *)

LEMMA CreatedRun == ASSUME NEW inBounds \in [Task -> BOOLEAN]
                    PROVE  Created(inBounds) \in Run
<1> DEFINE out == {t \in Task : ~inBounds[t]}
<1>1. Task \subseteq Nat /\ TaskCount + 1 \in Nat /\ 0 \in 0..MaxIssue
  BY RunAssumption DEF Task
<1>2. \A t \in Task :
        /\ [id |-> t, task |-> t, sev |-> "role_boundary", open |-> TRUE] \in Blocker
        /\ [id |-> t, task |-> t] \in FollowUp
  <2> TAKE t \in Task
  <2>1. t \in Nat /\ "role_boundary" \in Severity
    BY <1>1 DEF Severity
  <2> QED
    BY <2>1 DEF Blocker, FollowUp
<1>3. /\ {[id |-> t, task |-> t, sev |-> "role_boundary", open |-> TRUE] : t \in out}
            \in SUBSET Blocker
      /\ {[id |-> t, task |-> t] : t \in out} \in SUBSET FollowUp
  BY <1>2, Zenon
<1>4. [t \in Task |-> IF inBounds[t] THEN "pending" ELSE "blocked"] \in [Task -> TaskStatus]
  BY DEF TaskStatus
<1>5. [g \in Gates |-> NoNote] \in Evidence
  BY DEF Evidence
<1> QED
  BY <1>1, <1>2, <1>3, <1>4, <1>5 DEF Created, Run

LEMMA WithBlockerRun == ASSUME NEW r \in Run, NEW t \in Task, NEW sev \in Severity
                        PROVE  WithBlocker(r, t, sev) \in Run
<1>1. [id |-> r.nextId, task |-> t, sev |-> sev, open |-> TRUE] \in Blocker
  BY DEF Blocker, Run
<1>2. [id |-> r.nextId, task |-> t] \in FollowUp
  BY DEF FollowUp, Run
<1>3. [r.st EXCEPT ![t] = "blocked"] \in [Task -> TaskStatus]
  BY DEF Run, TaskStatus
<1>4. /\ r.blockers \cup {[id |-> r.nextId, task |-> t, sev |-> sev, open |-> TRUE]}
            \in SUBSET Blocker
      /\ r.followUps \cup {[id |-> r.nextId, task |-> t]} \in SUBSET FollowUp
  BY <1>1, <1>2 DEF Run
<1>5. r.nextId + 1 \in Nat
  BY DEF Run
<1> QED
  BY <1>3, <1>4, <1>5 DEF WithBlocker, Run

LEMMA UpdatedRun == ASSUME NEW r \in Run, NEW t \in Task, NEW u \in UpdateStatus
                    PROVE  Updated(r, t, u) \in Run
<1>1. [r EXCEPT !.retries[t] = @ + 1] \in Run
  BY DEF Run
<1>2. Failed(r, t) \in Run
  <2> DEFINE counted == [r EXCEPT !.retries[t] = @ + 1]
  <2>1. [counted.st EXCEPT ![t] = "pending"] \in [Task -> TaskStatus]
    BY <1>1 DEF Run, TaskStatus
  <2>2. [counted.agent EXCEPT ![t] = 0] \in [Task -> 0..MaxIssue]
    BY <1>1, RunAssumption DEF Run
  <2>3. [counted EXCEPT !.st[t] = "pending", !.agent[t] = 0] \in Run
    BY <1>1, <2>1, <2>2 DEF Run
  <2>4. WithBlocker(counted, t, "retry_exhausted") \in Run
    BY <1>1, WithBlockerRun DEF Severity
  <2> QED
    BY <2>3, <2>4 DEF Failed
<1>3. [r EXCEPT !.st[t] = "completed"] \in Run
  BY DEF Run, TaskStatus
<1>4. WithBlocker(r, t, "blocked") \in Run
  BY WithBlockerRun DEF Severity
<1> QED
  BY <1>2, <1>3, <1>4 DEF Updated, UpdateStatus

LEMMA UnblockedRun == ASSUME NEW r \in Run, NEW t \in Task
                      PROVE  Unblocked(r, t) \in Run
<1>1. [r.st EXCEPT ![t] = "pending"] \in [Task -> TaskStatus]
  BY DEF Run, TaskStatus
<1>2. [r.agent EXCEPT ![t] = 0] \in [Task -> 0..MaxIssue]
  BY RunAssumption DEF Run
<1> QED
  BY <1>1, <1>2 DEF Unblocked, Run

LEMMA RecoveredRun == ASSUME NEW r \in Run, NEW t \in Task, NEW reset \in BOOLEAN
                      PROVE  Recovered(r, t, reset) \in Run
<1> DEFINE u == Unblocked(r, t)
<1>1. u \in Run
  BY UnblockedRun
<1>2. [u.inBounds EXCEPT ![t] = TRUE] \in [Task -> BOOLEAN]
  BY <1>1 DEF Run
<1>3. [u.retries EXCEPT ![t] = IF reset THEN 0 ELSE @] \in [Task -> Nat]
  BY <1>1 DEF Run
<1> HIDE DEF u
<1> QED
  BY <1>1, <1>2, <1>3 DEF Recovered, Run, u

LEMMA ResolvedRun == ASSUME NEW r \in Run, NEW b \in Blocker
                     PROVE  Resolved(r, b) \in Run
<1> DEFINE marked == [r EXCEPT !.blockers = (@ \ {b}) \cup {[b EXCEPT !.open = FALSE]}]
<1>1. [b EXCEPT !.open = FALSE] \in Blocker /\ b.task \in Task
  BY DEF Blocker
<1>2. marked \in Run
  BY <1>1 DEF Run
<1> QED
  BY <1>1, <1>2, UnblockedRun DEF Resolved

LEMMA ClosedRun == ASSUME NEW r \in Run, NEW given \in Evidence
                   PROVE  Closed(r, given) \in Run
  BY DEF Closed, Merged, Run, Evidence

LEMMA AfterClaimRun == ASSUME NEW r \in Run, \A t \in Claimed(r) : r.issued[t] < MaxIssue
                       PROVE  AfterClaim(r) \in Run
<1> DEFINE fresh == {t \in Claimed(r) : r.agent[t] = 0}
<1>1. [t \in Task |-> IF t \in Claimed(r) THEN "running" ELSE r.st[t]] \in [Task -> TaskStatus]
  BY DEF Run, TaskStatus
<1>2. \A t \in Task : t \in fresh => r.issued[t] + 1 \in 0..MaxIssue
  BY RunAssumption DEF Run
<1>3. [t \in Task |-> IF t \in fresh THEN r.issued[t] + 1 ELSE r.agent[t]]
        \in [Task -> 0..MaxIssue]
  BY <1>2 DEF Run
<1>4. [t \in Task |-> IF t \in fresh THEN r.issued[t] + 1 ELSE r.issued[t]]
        \in [Task -> 0..MaxIssue]
  BY <1>2 DEF Run
<1> QED
  BY <1>1, <1>3, <1>4 DEF AfterClaim, Run

LEMMA RolledBackRun == ASSUME NEW r \in Run, NEW S
                       PROVE  RolledBack(r, S) \in Run
<1> DEFINE undone == {t \in Task : r.st[t] = "running" /\ <<t, r.agent[t]>> \in S}
<1>1. [t \in Task |-> IF t \in undone THEN "pending" ELSE r.st[t]] \in [Task -> TaskStatus]
  BY DEF Run, TaskStatus
<1>2. [t \in Task |-> IF t \in undone THEN 0 ELSE r.agent[t]] \in [Task -> 0..MaxIssue]
  BY RunAssumption DEF Run
<1> QED
  BY <1>1, <1>2 DEF RolledBack, Run

LEMMA ResultRun == ASSUME NEW r \in Run, NEW q \in Request
                   PROVE  Result(r, q) \in Run
  BY UpdatedRun, RecoveredRun, ResolvedRun, ClosedRun DEF Result, Request

----------------------------------------------------------------------------
(* Types.                                                                  *)

LEMMA IdleHandler == Idle \in Handler
<1>1. Created([t \in Task |-> TRUE]) \in Run
  BY CreatedRun
<1>2. NoQueue \in [Task -> {"none"} \cup UpdateStatus]
  BY DEF NoQueue
<1>3. [kind |-> "none"] \in Request
  BY DEF Request
<1> QED
  BY <1>1, <1>2, <1>3 DEF Idle, Handler, Phase

LEMMA SchedulingHandler == ASSUME NEW o \in Handler, NEW skip \in BOOLEAN
                           PROVE  Scheduling(o, skip) \in Handler
  BY IdleHandler DEF Scheduling, Handler, Phase

LEMMA ContinueHandler == ASSUME NEW o \in Handler
                         PROVE  Continue(o) \in Handler
  BY IdleHandler DEF Continue, Handler, Phase

LEMMA AfterUpdateHandler == ASSUME NEW o \in Handler
                            PROVE  AfterUpdate(o) \in Handler
  BY SchedulingHandler, ContinueHandler DEF AfterUpdate

LEMMA AfterSpawnHandler == ASSUME NEW o \in Handler, NEW a \in AgentId
                           PROVE  AfterSpawn(o, a) \in Handler
  BY DEF AfterSpawn, Handler, Phase

LEMMA GotoTyped == ASSUME op \in [Supervisor -> Handler], NEW s \in Supervisor,
                          NEW o \in Handler, Goto(s, o)
                   PROVE  op' \in [Supervisor -> Handler]
  BY DEF Goto

LEMMA WriteTyped == ASSUME run \in Run, NEW r \in Run, Write(r)
                    PROVE  run' \in Run
  BY DEF Write, Run

\* The agents a scheduler has to bring up carry ids that were drawn.
LEMMA ClaimsTyped ==
  ASSUME NEW r \in Run, \A t \in Claimed(r) : r.issued[t] < MaxIssue,
         NEW t \in Task, t \in Claimed(r) \/ (r.st[t] = "running" /\ r.agent[t] # 0)
  PROVE  <<t, AfterClaim(r).agent[t]>> \in AgentId
<1>1. t \in Claimed(r) => r.st[t] = "pending"
  BY DEF Claimed, Ready
<1>2. AfterClaim(r).agent[t] =
        IF t \in Claimed(r) /\ r.agent[t] = 0 THEN r.issued[t] + 1 ELSE r.agent[t]
  BY DEF AfterClaim, Run
<1>3. r.agent[t] \in 0..MaxIssue /\ r.issued[t] \in 0..MaxIssue
  BY DEF Run
<1>4. AfterClaim(r).agent[t] \in 1..MaxIssue
  BY <1>1, <1>2, <1>3, RunAssumption
<1> QED
  BY <1>4 DEF AgentId, Attempt

LEMMA StartTyped == ASSUME TypeOK, NEW s \in Supervisor, Start(s)
                    PROVE  TypeOK'
<1> USE DEF TypeOK
<1>1. ASSUME NEW q \in Request, Begin(s, q) PROVE TypeOK'
  <2>1. [Idle EXCEPT !.pc = "persist", !.req = q, !.base = run] \in Handler
    BY IdleHandler DEF Handler, Phase
  <2> QED
    BY <1>1, <2>1, GotoTyped DEF Begin
<1>2. CASE StartUpdate(s)
  BY <1>1, <1>2 DEF StartUpdate, Request
<1>3. CASE StartRecover(s)
  BY <1>1, <1>3 DEF StartRecover, Request
<1>4. CASE StartResolve(s)
  BY <1>1, <1>4 DEF StartResolve, Request, Unresolved, Run
<1>5. CASE StartClose(s)
  BY <1>1, <1>5 DEF StartClose, Request
<1>6. CASE StartAdvance(s)
  BY <1>6, IdleHandler, SchedulingHandler, GotoTyped DEF StartAdvance
<1>7. CASE StartCycle(s)
  <2> DEFINE queue == [t \in Task |-> Reported(t)]
  <2>1. queue \in [Task -> {"none"} \cup UpdateStatus]
    BY DEF Reported, UpdateStatus
  <2>2. [Idle EXCEPT !.pc = "cycle", !.queue = queue] \in Handler
    BY <2>1, IdleHandler DEF Handler, Phase
  <2>3. Scheduling(Idle, FALSE) \in Handler
    BY IdleHandler, SchedulingHandler
  <2> QED
    BY <1>7, <2>2, <2>3, GotoTyped DEF StartCycle
<1> QED
  BY <1>2, <1>3, <1>4, <1>5, <1>6, <1>7 DEF Start

LEMMA WritingTyped == ASSUME TypeOK, NEW s \in Supervisor,
                             CycleNext(s) \/ Persist(s) \/ Close(s)
                      PROVE  TypeOK'
<1> USE DEF TypeOK
<1> DEFINE o == op[s]
<1>0. /\ o \in Handler /\ o.req \in Request /\ o.base \in Run
      /\ o.queue \in [Task -> {"none"} \cup UpdateStatus]
  BY DEF Handler
<1>1. CASE CycleNext(s)
  <2>1. PICK t \in Task :
          /\ o.queue[t] # "none"
          /\ \/ Goto(s, [Idle EXCEPT
                    !.pc = "persist", !.base = run,
                    !.req = [kind |-> "update", task |-> t, upd |-> o.queue[t]],
                    !.queue = [o.queue EXCEPT ![t] = "none"]])
             \/ Goto(s, Idle)
    BY <1>1 DEF CycleNext
  <2>2. [kind |-> "update", task |-> t, upd |-> o.queue[t]] \in Request
    BY <1>0, <2>1 DEF Request
  <2>3. [o.queue EXCEPT ![t] = "none"] \in [Task -> {"none"} \cup UpdateStatus]
    BY <1>0
  <2>4. [Idle EXCEPT
           !.pc = "persist", !.base = run,
           !.req = [kind |-> "update", task |-> t, upd |-> o.queue[t]],
           !.queue = [o.queue EXCEPT ![t] = "none"]] \in Handler
    BY <2>2, <2>3, IdleHandler DEF Handler, Phase
  <2> QED
    BY <1>1, <2>1, <2>4, IdleHandler, GotoTyped DEF CycleNext
<1>2. CASE Persist(s)
  <2>1. run' \in Run
    BY <1>0, <1>2, ResultRun, WriteTyped DEF Persist
  <2>2. [o EXCEPT !.pc = "agent"] \in Handler
    BY <1>0 DEF Handler, Phase
  <2>3. op' \in [Supervisor -> Handler]
    BY <1>2, <2>2, IdleHandler, SchedulingHandler, GotoTyped DEF Persist
  <2> QED
    BY <1>2, <2>1, <2>3 DEF Persist
<1>3. CASE Close(s)
  BY <1>0, <1>3, ResultRun, WriteTyped, IdleHandler, GotoTyped DEF Close
<1> QED
  BY <1>1, <1>2, <1>3

LEMMA AgentsTyped == ASSUME TypeOK, NEW s \in Supervisor, AgentCheck(s) \/ AgentWrite(s)
                     PROVE  TypeOK'
<1> USE DEF TypeOK
<1> DEFINE o == op[s]
<1>1. o \in Handler /\ [o EXCEPT !.pc = "agentWrite"] \in Handler
  BY DEF Handler, Phase
<1>2. CASE AgentCheck(s)
  BY <1>1, <1>2, AfterUpdateHandler, GotoTyped DEF AgentCheck
<1>3. CASE AgentWrite(s)
  <2>1. agents' \in [AgentId -> AgentStatus]
    BY <1>3 DEF AgentWrite, AgentStatus, Terminal
  <2> QED
    BY <1>1, <1>3, <2>1, AfterUpdateHandler, GotoTyped DEF AgentWrite
<1> QED
  BY <1>2, <1>3

LEMMA SchedulerTyped ==
  ASSUME TypeOK, NEW s \in Supervisor,
         \/ Acquire(s) \/ Claim(s) \/ SpawnCheck(s) \/ SpawnWrite(s)
         \/ SpawnFail(s) \/ Rollback(s) \/ Release(s)
  PROVE  TypeOK'
<1> USE DEF TypeOK
<1> DEFINE o == op[s]
<1>1. o \in Handler
  OBVIOUS
<1>2. ASSUME NEW pc \in Phase PROVE [o EXCEPT !.pc = pc] \in Handler
  BY <1>1, <1>2 DEF Handler
<1>3. ASSUME NEW pc \in Phase PROVE [o EXCEPT !.pc = pc, !.queue = NoQueue] \in Handler
  BY <1>1, <1>3 DEF Handler, NoQueue
<1>4. {"claim", "release", "spawn", "spawnWrite", "rollback"} \subseteq Phase
  BY DEF Phase
<1>5. CASE Acquire(s)
  BY <1>1, <1>2, <1>4, <1>5, ContinueHandler, IdleHandler, GotoTyped DEF Acquire
<1>6. CASE Claim(s)
  <2> DEFINE r == AfterClaim(run)
             claims == {<<t, r.agent[t]>> : t \in Claimed(run) \cup Missing}
  <2>1. CASE lease = s /\ run.open
    <3>1. \A t \in Claimed(run) : run.issued[t] < MaxIssue
      BY <1>6, <2>1 DEF Claim
    <3>2. r \in Run
      BY <3>1, AfterClaimRun
    <3>3. \A t \in Claimed(run) \cup Missing : <<t, r.agent[t]>> \in AgentId
      BY <3>1, ClaimsTyped DEF Claimed, Ready, Missing
    <3>4. claims \in SUBSET AgentId
      BY <3>3
    <3> HIDE DEF r, claims
    <3>5. [o EXCEPT !.pc = IF claims = {} THEN "release" ELSE "spawn",
                    !.claims = claims] \in Handler
      BY <1>1, <1>4, <3>4 DEF Handler
    <3> QED
      BY <1>6, <2>1, <3>2, <3>5, GotoTyped DEF Claim, r, claims
  <2>2. CASE ~(lease = s /\ run.open)
    BY <1>3, <1>4, <1>6, <2>2, GotoTyped DEF Claim
  <2> QED
    BY <2>1, <2>2
<1>7. CASE SpawnCheck(s)
  BY <1>1, <1>2, <1>4, <1>7, AfterSpawnHandler, GotoTyped DEF SpawnCheck
<1>8. CASE SpawnWrite(s)
  BY <1>1, <1>8, AfterSpawnHandler, GotoTyped DEF SpawnWrite, AgentStatus
<1>9. CASE SpawnFail(s)
  <2>1. agents' \in [AgentId -> AgentStatus]
    BY <1>9 DEF SpawnFail, AgentStatus
  <2> QED
    BY <1>2, <1>4, <1>9, <2>1, GotoTyped DEF SpawnFail
<1>10. CASE Rollback(s)
  BY <1>3, <1>4, <1>10, RolledBackRun, GotoTyped DEF Rollback
<1>11. CASE Release(s)
  BY <1>1, <1>11, ContinueHandler, GotoTyped DEF Release
<1> QED
  BY <1>5, <1>6, <1>7, <1>8, <1>9, <1>10, <1>11

LEMMA SurroundingsTyped ==
  ASSUME TypeOK,
         \/ \E s \in Supervisor : Crash(s)
         \/ Expire
         \/ \E a \in AgentId : AgentReport(a)
         \/ UNCHANGED vars
  PROVE  TypeOK'
<1> USE DEF TypeOK
<1>1. ASSUME NEW s \in Supervisor, Crash(s) PROVE TypeOK'
  <2>1. crashes' \in 0..MaxCrashes
    BY <1>1, StoreAssumption DEF Crash
  <2>2. op' \in [Supervisor -> Handler]
    BY <1>1, IdleHandler, GotoTyped DEF Crash
  <2>3. lease' \in Supervisor \cup {Nobody, Orphan}
    BY <1>1 DEF Crash
  <2> QED
    BY <1>1, <2>1, <2>2, <2>3 DEF Crash
<1>2. CASE Expire
  BY <1>2 DEF Expire
<1>3. ASSUME NEW a \in AgentId, AgentReport(a) PROVE TypeOK'
  BY <1>3 DEF AgentReport, AgentStatus, Terminal
<1>4. CASE UNCHANGED vars
  BY <1>4 DEF vars
<1> QED
  BY <1>1, <1>2, <1>3, <1>4

LEMMA InitTyped == ASSUME Init PROVE TypeOK
<1>1. run \in Run
  BY CreatedRun DEF Init
<1>2. op \in [Supervisor -> Handler]
  BY IdleHandler, SchedulingHandler DEF Init
<1>3. agents \in [AgentId -> AgentStatus] /\ lease \in Supervisor \cup {Nobody, Orphan}
  BY DEF Init, AgentStatus
<1>4. crashes \in 0..MaxCrashes
  BY StoreAssumption DEF Init
<1> QED
  BY <1>1, <1>2, <1>3, <1>4 DEF TypeOK

LEMMA NextTyped == ASSUME TypeOK, [Next]_vars PROVE TypeOK'
<1>1. ASSUME NEW s \in Supervisor, Start(s) PROVE TypeOK'
  BY <1>1, StartTyped
<1>2. ASSUME NEW s \in Supervisor, Step(s) PROVE TypeOK'
  BY <1>2, WritingTyped, AgentsTyped, SchedulerTyped DEF Step
<1> QED
  BY <1>1, <1>2, SurroundingsTyped DEF Next

\* The run, its agents, its lease and every handler in progress keep their
\* types: in particular each agent a scheduler brings up has an id of its own.
THEOREM StoreTyped == Spec => []TypeOK
  BY InitTyped, NextTyped, PTL DEF Spec

----------------------------------------------------------------------------
(* The safety theorems.  Their inductive invariant says what a handler about  *)
(* to write still knows about the run it read, which is what                  *)
(* _persist_if_run_unchanged relies on and close_run does without.            *)

\* Blockers, follow-ups and statuses of one version of the run agree, and no
\* blocker has an id that is still to be drawn.
RecordOK(r) ==
    /\ \A b \in r.blockers : b.id < r.nextId
    /\ \A t \in Task : r.st[t] = "blocked" <=> UnresolvedOf(r, t) # {}
    /\ \A t \in Task : r.st[t] = "blocked" <=> \E f \in r.followUps : f.task = t
    /\ \A t \in Task : \A b, c \in UnresolvedOf(r, t) : b = c

\* What the handler checked on the run it read.
Validated(r, q) ==
    /\ r.open
    /\ q.kind # "none"
    /\ q.kind = "update" => r.st[q.task] = "running"
    /\ q.kind = "recover" =>
        /\ r.st[q.task] = "blocked"
        /\ \A b \in UnresolvedOf(r, q.task) : b.sev \in Recoverable
    /\ q.kind = "resolve" => q.blocker \in Unresolved(r)
    /\ q.kind = "close" => Closeable(r, q.given)

\* Nothing is left to do in the run: no handler can find a reason to change it.
Sealed(r) ==
    /\ \A t \in Task : r.st[t] = "completed"
    /\ Unresolved(r) = {}

AboutToWrite(s) == op[s].pc = "persist"

IInv ==
    /\ TypeOK
    /\ RecordOK(run)
    /\ \A s \in Supervisor : AboutToWrite(s) =>
        /\ RecordOK(op[s].base)
        /\ Validated(op[s].base, op[s].req)
        /\ op[s].req.kind = "close" =>
                Sealed(run) /\ Signature(run) = Signature(op[s].base)
    /\ ~run.open => Sealed(run) /\ \A g \in Gates : run.evidence[g] # NoNote

----------------------------------------------------------------------------
(* One record at a time.                                                   *)

LEMMA CreatedOK == ASSUME NEW inBounds \in [Task -> BOOLEAN]
                   PROVE  RecordOK(Created(inBounds))
<1> DEFINE r == Created(inBounds)
           out == {t \in Task : ~inBounds[t]}
<1>1. \A t \in Task : t \in Nat /\ t < TaskCount + 1
  BY RunAssumption DEF Task
<1>2. r.blockers = {[id |-> t, task |-> t, sev |-> "role_boundary", open |-> TRUE] : t \in out}
  BY DEF Created
<1>3. r.followUps = {[id |-> t, task |-> t] : t \in out} /\ r.nextId = TaskCount + 1
  BY DEF Created
<1>4. \A t \in Task : r.st[t] = "blocked" <=> t \in out
  BY DEF Created
<1>5. \A b : b \in r.blockers <=>
        \E t \in out : b = [id |-> t, task |-> t, sev |-> "role_boundary", open |-> TRUE]
  BY <1>2
<1>6. \A f : f \in r.followUps <=> \E t \in out : f = [id |-> t, task |-> t]
  BY <1>3
<1> HIDE DEF r
<1>7. \A b \in r.blockers : b.id < r.nextId
  BY <1>1, <1>3, <1>5
<1>8. \A t \in Task : \A b : b \in UnresolvedOf(r, t) <=>
        t \in out /\ b = [id |-> t, task |-> t, sev |-> "role_boundary", open |-> TRUE]
  BY <1>5 DEF UnresolvedOf, Unresolved
<1>9. ASSUME NEW t \in Task PROVE t \in out <=> \E f \in r.followUps : f.task = t
  <2>1. \A u : [id |-> u, task |-> u].task = u
    OBVIOUS
  <2>2. ASSUME t \in out PROVE [id |-> t, task |-> t] \in r.followUps
    BY <1>6, <2>2
  <2> HIDE DEF out
  <2> QED
    BY <1>6, <2>1, <2>2
<1> HIDE DEF out
<1>10. ASSUME NEW t \in Task
       PROVE  /\ r.st[t] = "blocked" <=> UnresolvedOf(r, t) # {}
              /\ \A b, c \in UnresolvedOf(r, t) : b = c
  <2> DEFINE own == [id |-> t, task |-> t, sev |-> "role_boundary", open |-> TRUE]
  <2>1. \A b : b \in UnresolvedOf(r, t) <=> t \in out /\ b = own
    BY <1>8
  <2> HIDE DEF own
  <2>2. t \in out <=> UnresolvedOf(r, t) # {}
    BY <2>1
  <2>3. \A b, c \in UnresolvedOf(r, t) : b = c
    BY <2>1
  <2> QED
    BY <1>4, <2>2, <2>3
<1>11. RecordOK(r)
  BY <1>4, <1>7, <1>9, <1>10 DEF RecordOK
<1> QED
  BY <1>11 DEF r

\* A blocked task gets its blocker and its follow-up together.
LEMMA WithBlockerOK ==
  ASSUME NEW r \in Run, RecordOK(r), NEW t \in Task, r.st[t] # "blocked", NEW sev \in Severity
  PROVE  RecordOK(WithBlocker(r, t, sev))
<1> DEFINE w == WithBlocker(r, t, sev)
           b == [id |-> r.nextId, task |-> t, sev |-> sev, open |-> TRUE]
           f == [id |-> r.nextId, task |-> t]
<1>1. /\ w.blockers = r.blockers \cup {b} /\ w.followUps = r.followUps \cup {f}
      /\ w.nextId = r.nextId + 1 /\ w.st = [r.st EXCEPT ![t] = "blocked"]
  BY DEF WithBlocker, Run
<1>2. r.nextId \in Nat /\ \A c \in r.blockers : c.id \in Nat /\ c.id < r.nextId
  BY DEF Run, Blocker, RecordOK
<1>3. r.st \in [Task -> TaskStatus]
  BY DEF Run
<1> HIDE DEF w
<1>4. \A c \in w.blockers : c.id < w.nextId
  BY <1>1, <1>2
<1>5. UnresolvedOf(r, t) = {}
  BY DEF RecordOK
<1>6. UnresolvedOf(w, t) = {b}
  BY <1>1, <1>5 DEF UnresolvedOf, Unresolved
<1>7. \A u \in Task : u # t => UnresolvedOf(w, u) = UnresolvedOf(r, u)
  BY <1>1 DEF UnresolvedOf, Unresolved
<1>8. \A u \in Task : w.st[u] = "blocked" <=> u = t \/ r.st[u] = "blocked"
  BY <1>1, <1>3
<1>9. \A u \in Task : (\E g \in w.followUps : g.task = u) <=>
                      u = t \/ \E g \in r.followUps : g.task = u
  <2>1. f.task = t
    OBVIOUS
  <2> HIDE DEF f
  <2> QED
    BY <1>1, <2>1
<1>10. \A u \in Task : w.st[u] = "blocked" <=> UnresolvedOf(w, u) # {}
  BY <1>6, <1>7, <1>8 DEF RecordOK
<1>11. \A u \in Task : w.st[u] = "blocked" <=> \E g \in w.followUps : g.task = u
  BY <1>8, <1>9 DEF RecordOK
<1>12. ASSUME NEW u \in Task PROVE \A c, d \in UnresolvedOf(w, u) : c = d
  <2>1. CASE u = t
    BY <1>6, <2>1
  <2>2. CASE u # t
    BY <1>7, <2>2 DEF RecordOK
  <2> QED
    BY <2>1, <2>2
<1> QED
  BY <1>4, <1>10, <1>11, <1>12 DEF RecordOK, w

\* Statuses may change freely as long as no task enters or leaves "blocked".
LEMMA SameBlockersOK ==
  ASSUME NEW r, NEW w, RecordOK(r),
         w.blockers = r.blockers, w.followUps = r.followUps, w.nextId = r.nextId,
         \A t \in Task : w.st[t] = "blocked" <=> r.st[t] = "blocked"
  PROVE  RecordOK(w)
  BY DEF RecordOK, UnresolvedOf, Unresolved

LEMMA UpdatedOK ==
  ASSUME NEW r \in Run, RecordOK(r), NEW t \in Task, r.st[t] = "running",
         NEW u \in UpdateStatus
  PROVE  RecordOK(Updated(r, t, u))
<1>1. RecordOK([r EXCEPT !.st[t] = "completed"])
  BY SameBlockersOK DEF Run
<1>2. RecordOK(Failed(r, t))
  <2> DEFINE counted == [r EXCEPT !.retries[t] = @ + 1]
             again == [counted EXCEPT !.st[t] = "pending", !.agent[t] = 0]
  <2>1. counted \in Run /\ counted.st = r.st
    BY DEF Run
  <2>2. RecordOK(counted)
    BY SameBlockersOK DEF Run
  <2>3. /\ again.blockers = r.blockers /\ again.followUps = r.followUps
        /\ again.nextId = r.nextId /\ again.st = [r.st EXCEPT ![t] = "pending"]
    BY DEF Run
  <2> HIDE DEF counted
  <2>4. RecordOK(again)
    <3> HIDE DEF again
    <3> QED
      BY <2>3, SameBlockersOK DEF Run
  <2>5. RecordOK(WithBlocker(counted, t, "retry_exhausted"))
    BY <2>1, <2>2, WithBlockerOK DEF Severity
  <2> QED
    BY <2>4, <2>5 DEF Failed, counted
<1>3. RecordOK(WithBlocker(r, t, "blocked"))
  BY WithBlockerOK DEF Severity
<1> QED
  BY <1>1, <1>2, <1>3 DEF Updated, UpdateStatus

\* A task whose blockers are all dropped or resolved goes back to the
\* scheduler together with its follow-ups.
LEMMA UnblockedOK ==
  ASSUME NEW r \in Run, NEW t \in Task,
         \A b \in r.blockers : b.id < r.nextId,
         UnresolvedOf(r, t) = {},
         \A u \in Task \ {t} : /\ r.st[u] = "blocked" <=> UnresolvedOf(r, u) # {}
                               /\ r.st[u] = "blocked" <=> \E f \in r.followUps : f.task = u
                               /\ \A b, c \in UnresolvedOf(r, u) : b = c
  PROVE  RecordOK(Unblocked(r, t))
<1> DEFINE w == Unblocked(r, t)
<1>1. /\ w.blockers = r.blockers /\ w.nextId = r.nextId
      /\ w.followUps = {f \in r.followUps : f.task # t}
      /\ w.st = [r.st EXCEPT ![t] = "pending"]
  BY DEF Unblocked, Run
<1>2. r.st \in [Task -> TaskStatus]
  BY DEF Run
<1> HIDE DEF w
<1>3. \A u \in Task : UnresolvedOf(w, u) = UnresolvedOf(r, u)
  BY <1>1 DEF UnresolvedOf, Unresolved
<1>4. \A u \in Task : w.st[u] = IF u = t THEN "pending" ELSE r.st[u]
  BY <1>1, <1>2
<1>5. \A u \in Task : (\E f \in w.followUps : f.task = u) <=>
                      u # t /\ \E f \in r.followUps : f.task = u
  BY <1>1
<1> QED
  BY <1>1, <1>3, <1>4, <1>5 DEF RecordOK, w

LEMMA RecoveredOK ==
  ASSUME NEW r \in Run, RecordOK(r), NEW t \in Task, NEW reset \in BOOLEAN,
         r.st[t] = "blocked", \A b \in UnresolvedOf(r, t) : b.sev \in Recoverable
  PROVE  RecordOK(Recovered(r, t, reset))
<1> DEFINE kept == {b \in r.blockers : ~(b.task = t /\ b.sev \in Recoverable)}
           base == [r EXCEPT !.blockers = kept]
           u == Unblocked(base, t)
           w == Recovered(r, t, reset)
<1>1. /\ base \in Run /\ base.blockers = kept /\ base.st = r.st
      /\ base.followUps = r.followUps /\ base.nextId = r.nextId
  BY DEF Run
<1>2. \A v \in Task \ {t} : UnresolvedOf(base, v) = UnresolvedOf(r, v)
  BY <1>1 DEF UnresolvedOf, Unresolved
<1>3. UnresolvedOf(base, t) = {}
  BY <1>1 DEF UnresolvedOf, Unresolved
<1>4. \A b \in base.blockers : b.id < base.nextId
  BY <1>1 DEF RecordOK
<1> HIDE DEF base, kept
<1>5. \A v \in Task \ {t} :
        /\ base.st[v] = "blocked" <=> UnresolvedOf(base, v) # {}
        /\ base.st[v] = "blocked" <=> \E f \in base.followUps : f.task = v
        /\ \A b1, b2 \in UnresolvedOf(base, v) : b1 = b2
  <2> TAKE v \in Task \ {t}
  <2>1. UnresolvedOf(base, v) = UnresolvedOf(r, v)
    BY <1>2
  <2> QED
    BY <1>1, <2>1 DEF RecordOK
<1>6. RecordOK(u)
  BY <1>1, <1>3, <1>4, <1>5, UnblockedOK
<1>7. /\ w.blockers = u.blockers /\ w.followUps = u.followUps
      /\ w.nextId = u.nextId /\ w.st = u.st
  BY DEF Recovered, Unblocked, Run, base, kept
<1> HIDE DEF u, w
<1>8. RecordOK(w)
  BY <1>6, <1>7, SameBlockersOK
<1> QED
  BY <1>8 DEF w

LEMMA ResolvedOK ==
  ASSUME NEW r \in Run, RecordOK(r), NEW b \in Unresolved(r)
  PROVE  RecordOK(Resolved(r, b))
<1> DEFINE done == [b EXCEPT !.open = FALSE]
           marked == [r EXCEPT !.blockers = (@ \ {b}) \cup {done}]
<1>1. b \in Blocker /\ b.task \in Task /\ b.open /\ b \in r.blockers
  BY DEF Unresolved, Run, Blocker
<1>2. done \in Blocker /\ done.id = b.id /\ done.task = b.task /\ ~done.open
  BY <1>1 DEF Blocker
<1> HIDE DEF done
<1>3. /\ marked \in Run /\ marked.blockers = (r.blockers \ {b}) \cup {done}
      /\ marked.st = r.st /\ marked.followUps = r.followUps /\ marked.nextId = r.nextId
  BY <1>2 DEF Run
<1>4. \A c \in marked.blockers : c.id < marked.nextId
  BY <1>1, <1>2, <1>3 DEF RecordOK
<1>5. \A u \in Task : UnresolvedOf(marked, u) = UnresolvedOf(r, u) \ {b}
  BY <1>2, <1>3 DEF UnresolvedOf, Unresolved
<1>6. b \in UnresolvedOf(r, b.task)
  BY <1>1 DEF UnresolvedOf
<1>7. UnresolvedOf(marked, b.task) = {} /\ r.st[b.task] = "blocked"
  <2>1. r.st[b.task] = "blocked"
    BY <1>1, <1>6 DEF RecordOK
  <2>2. \A c \in UnresolvedOf(r, b.task) : c = b
    BY <1>1, <1>6 DEF RecordOK
  <2> QED
    BY <1>1, <1>5, <2>1, <2>2
<1>8. \A u \in Task \ {b.task} : UnresolvedOf(marked, u) = UnresolvedOf(r, u)
  BY <1>5 DEF UnresolvedOf
<1> HIDE DEF marked
<1>9. \A v \in Task \ {b.task} :
        /\ marked.st[v] = "blocked" <=> UnresolvedOf(marked, v) # {}
        /\ marked.st[v] = "blocked" <=> \E f \in marked.followUps : f.task = v
        /\ \A b1, b2 \in UnresolvedOf(marked, v) : b1 = b2
  <2> TAKE v \in Task \ {b.task}
  <2>1. UnresolvedOf(marked, v) = UnresolvedOf(r, v)
    BY <1>8
  <2> QED
    BY <1>3, <2>1 DEF RecordOK
<1>10. RecordOK(Unblocked(marked, b.task))
  BY <1>1, <1>3, <1>4, <1>7, <1>9, UnblockedOK
<1> QED
  BY <1>3, <1>7, <1>10 DEF Resolved, marked, done

LEMMA ResultOK ==
  ASSUME NEW r \in Run, RecordOK(r), NEW q \in Request, Validated(r, q)
  PROVE  RecordOK(Result(r, q))
<1>1. CASE q.kind = "update"
  BY <1>1, UpdatedOK DEF Result, Request, Validated
<1>2. CASE q.kind = "recover"
  BY <1>2, RecoveredOK DEF Result, Request, Validated
<1>3. CASE q.kind = "resolve"
  BY <1>3, ResolvedOK DEF Result, Request, Validated
<1>4. CASE q.kind = "close"
  <2> DEFINE w == Closed(r, q.given)
  <2>0. /\ w.blockers = r.blockers /\ w.followUps = r.followUps
        /\ w.nextId = r.nextId /\ w.st = r.st
    BY DEF Closed, Run
  <2> HIDE DEF w
  <2>1. RecordOK(w)
    BY <2>0, SameBlockersOK
  <2> QED
    BY <1>4, <2>1 DEF Result, w
<1> QED
  BY <1>1, <1>2, <1>3, <1>4 DEF Request, Validated

LEMMA SchedulingOK ==
  ASSUME NEW r \in Run, RecordOK(r)
  PROVE  /\ RecordOK(AfterClaim(r))
         /\ \A S : RecordOK(RolledBack(r, S))
<1>1. \A t \in Task : AfterClaim(r).st[t] =
                     IF t \in Claimed(r) THEN "running" ELSE r.st[t]
  BY DEF AfterClaim, Run
<1>2. \A t \in Claimed(r) : r.st[t] = "pending"
  BY DEF Claimed, Ready
<1>3. RecordOK(AfterClaim(r))
  <2> DEFINE w == AfterClaim(r)
  <2>1. w.blockers = r.blockers /\ w.followUps = r.followUps /\ w.nextId = r.nextId
    BY DEF AfterClaim, Run
  <2> HIDE DEF w
  <2>2. \A t \in Task : w.st[t] = "blocked" <=> r.st[t] = "blocked"
    BY <1>1, <1>2 DEF w
  <2>3. RecordOK(w)
    BY <2>1, <2>2, SameBlockersOK
  <2> QED
    BY <2>3 DEF w
<1>4. ASSUME NEW S PROVE RecordOK(RolledBack(r, S))
  <2> DEFINE w == RolledBack(r, S)
  <2>1. w.blockers = r.blockers /\ w.followUps = r.followUps /\ w.nextId = r.nextId
    BY DEF RolledBack, Run
  <2>2. \A t \in Task : w.st[t] = "blocked" <=> r.st[t] = "blocked"
    BY DEF RolledBack, Run
  <2> HIDE DEF w
  <2>3. RecordOK(w)
    BY <2>1, <2>2, SameBlockersOK
  <2> QED
    BY <2>3 DEF w
<1> QED
  BY <1>3, <1>4

----------------------------------------------------------------------------
(* One step at a time.                                                     *)

\* The ways in which a step may write the run.
Persisting(s) ==
    /\ AboutToWrite(s)
    /\ op[s].req.kind # "close"
    /\ Signature(run) = Signature(op[s].base)
    /\ Write(Result(op[s].base, op[s].req))

Closing(s) ==
    /\ AboutToWrite(s)
    /\ op[s].req.kind = "close"
    /\ Write(Closed(op[s].base, op[s].req.given))

Claiming == run.open /\ run' = AfterClaim(run)

RollingBack == \E S : run' = RolledBack(run, S)

LEMMA RunMoves ==
  ASSUME [Next]_vars
  PROVE  \/ run' = run
         \/ \E s \in Supervisor : Persisting(s) \/ Closing(s)
         \/ Claiming
         \/ RollingBack
<1>1. ASSUME NEW s \in Supervisor, Start(s) PROVE run' = run
  BY <1>1 DEF Start, StartUpdate, StartRecover, StartResolve, StartClose, StartAdvance,
              StartCycle, Begin
<1>2. ASSUME NEW s \in Supervisor, Step(s)
      PROVE  run' = run \/ Persisting(s) \/ Closing(s) \/ Claiming \/ RollingBack
  <2>1. CASE Persist(s)
    BY <2>1 DEF Persist, Persisting, AboutToWrite
  <2>2. CASE Close(s)
    BY <2>2 DEF Close, Closing, AboutToWrite, Result
  <2>3. CASE Claim(s)
    BY <2>3 DEF Claim, Claiming
  <2>4. CASE Rollback(s)
    BY <2>4 DEF Rollback, RollingBack
  <2>5. CASE \/ CycleNext(s) \/ AgentCheck(s) \/ AgentWrite(s) \/ Acquire(s)
             \/ SpawnCheck(s) \/ SpawnWrite(s) \/ SpawnFail(s) \/ Release(s)
    BY <2>5 DEF CycleNext, AgentCheck, AgentWrite, Acquire, SpawnCheck, SpawnWrite,
                SpawnFail, Release
  <2> QED
    BY <1>2, <2>1, <2>2, <2>3, <2>4, <2>5 DEF Step
<1>3. ASSUME \/ \E s \in Supervisor : Crash(s)
             \/ Expire
             \/ \E a \in AgentId : AgentReport(a)
             \/ UNCHANGED vars
      PROVE  run' = run
  BY <1>3 DEF Crash, Expire, AgentReport, vars
<1> QED
  BY <1>1, <1>2, <1>3 DEF Next

\* A handler that moves on to anything but a write of the run leaves all the
\* writes in preparation as they are.
LEMMA GotoOther ==
  ASSUME op \in [Supervisor -> Handler], NEW s \in Supervisor, NEW o,
         Goto(s, o), o.pc # "persist",
         NEW x \in Supervisor, op'[x].pc = "persist"
  PROVE  op'[x] = op[x]
  BY DEF Goto

LEMMA OtherPhases ==
  ASSUME NEW o \in Handler
  PROVE  /\ Idle.pc # "persist"
         /\ \A skip : Scheduling(o, skip).pc # "persist"
         /\ Continue(o).pc # "persist"
         /\ AfterUpdate(o).pc # "persist"
         /\ \A a : AfterSpawn(o, a).pc # "persist"
<1>1. Idle \in Handler
  BY IdleHandler
<1>2. Idle.pc # "persist" /\ \A skip : Scheduling(o, skip).pc # "persist"
  BY <1>1 DEF Idle, Scheduling, Handler
<1>3. Continue(o).pc # "persist"
  BY <1>1, <1>2 DEF Continue, Handler
<1>4. AfterUpdate(o).pc # "persist"
  BY <1>2, <1>3 DEF AfterUpdate
<1>5. \A a : AfterSpawn(o, a).pc # "persist"
  BY DEF AfterSpawn, Handler
<1> QED
  BY <1>2, <1>3, <1>4, <1>5

\* A write in preparation was there before, or starts from the run as it is.
LEMMA PreparedWrites ==
  ASSUME TypeOK, [Next]_vars, NEW x \in Supervisor, AboutToWrite(x)'
  PROVE  \/ op'[x] = op[x]
         \/ op'[x].base = run /\ Validated(run, op'[x].req) /\ run' = run
<1> USE DEF AboutToWrite
<1>0. op \in [Supervisor -> Handler] /\ Idle \in Handler /\ \A s \in Supervisor : op[s] \in Handler
  BY IdleHandler DEF TypeOK
<1> DEFINE Fresh == op'[x].base = run /\ Validated(run, op'[x].req) /\ run' = run
<1>1. ASSUME NEW s \in Supervisor, Start(s) PROVE op'[x] = op[x] \/ Fresh
  <2>1. ASSUME NEW q \in Request, Begin(s, q), Validated(run, q)
        PROVE  op'[x] = op[x] \/ Fresh
    BY <1>0, <2>1 DEF Begin, Goto, Handler
  <2>2. CASE StartUpdate(s)
    <3>1. PICK t \in Task, u \in UpdateStatus :
            /\ run.st[t] = "running"
            /\ Begin(s, [kind |-> "update", task |-> t, upd |-> u])
      BY <2>2 DEF StartUpdate
    <3>2. Validated(run, [kind |-> "update", task |-> t, upd |-> u])
      BY <3>1 DEF Validated, Begin
    <3>3. [kind |-> "update", task |-> t, upd |-> u] \in Request
      BY DEF Request
    <3> QED
      BY <2>1, <3>1, <3>2, <3>3
  <2>3. CASE StartRecover(s)
    <3>1. PICK t \in Task, reset \in BOOLEAN :
            /\ run.st[t] = "blocked"
            /\ \A b \in UnresolvedOf(run, t) : b.sev \in Recoverable
            /\ Begin(s, [kind |-> "recover", task |-> t, reset |-> reset])
      BY <2>3 DEF StartRecover
    <3>2. Validated(run, [kind |-> "recover", task |-> t, reset |-> reset])
      BY <3>1 DEF Validated, Begin
    <3>3. [kind |-> "recover", task |-> t, reset |-> reset] \in Request
      BY DEF Request
    <3> QED
      BY <2>1, <3>1, <3>2, <3>3
  <2>4. CASE StartResolve(s)
    <3>1. PICK b \in Unresolved(run), again \in BOOLEAN :
            Begin(s, [kind |-> "resolve", blocker |-> b, again |-> again])
      BY <2>4 DEF StartResolve
    <3>2. Validated(run, [kind |-> "resolve", blocker |-> b, again |-> again])
      BY <3>1 DEF Validated, Begin
    <3>3. b \in Blocker
      BY DEF Unresolved, TypeOK, Run
    <3>4. [kind |-> "resolve", blocker |-> b, again |-> again] \in Request
      BY <3>3 DEF Request
    <3> QED
      BY <2>1, <3>1, <3>2, <3>4
  <2>5. CASE StartClose(s)
    <3>1. PICK given \in Evidence :
            /\ Closeable(run, given)
            /\ Begin(s, [kind |-> "close", given |-> given])
      BY <2>5 DEF StartClose
    <3>2. Validated(run, [kind |-> "close", given |-> given])
      BY <3>1 DEF Validated, Begin
    <3>3. [kind |-> "close", given |-> given] \in Request
      BY DEF Request
    <3> QED
      BY <2>1, <3>1, <3>2, <3>3
  <2>6. CASE StartAdvance(s)
    BY <1>0, <2>6, GotoOther, OtherPhases DEF StartAdvance
  <2>7. CASE StartCycle(s)
    <3>1. \A queue : [Idle EXCEPT !.pc = "cycle", !.queue = queue].pc # "persist"
      BY <1>0 DEF Handler
    <3> QED
      BY <1>0, <2>7, <3>1, GotoOther, OtherPhases DEF StartCycle
  <2> QED
    BY <1>1, <2>2, <2>3, <2>4, <2>5, <2>6, <2>7 DEF Start
<1>2. ASSUME NEW s \in Supervisor, CycleNext(s) PROVE op'[x] = op[x] \/ Fresh
  <2>1. CASE ~(op'[s].pc = "persist" /\ x = s)
    BY <1>0, <1>2, <2>1 DEF CycleNext, Goto
  <2>2. CASE op'[s].pc = "persist" /\ x = s
    <3>1. PICK t \in Task :
            /\ op[s].queue[t] # "none"
            /\ IF run.open /\ run.st[t] = "running"
               THEN Goto(s, [Idle EXCEPT
                      !.pc = "persist", !.base = run,
                      !.req = [kind |-> "update", task |-> t, upd |-> op[s].queue[t]],
                      !.queue = [op[s].queue EXCEPT ![t] = "none"]])
               ELSE Goto(s, Idle)
      BY <1>2 DEF CycleNext
    <3>2. run.open /\ run.st[t] = "running"
      BY <1>0, <2>2, <3>1, OtherPhases DEF Goto
    <3>3. /\ op'[s].base = run
          /\ op'[s].req = [kind |-> "update", task |-> t, upd |-> op[s].queue[t]]
      <4> DEFINE req == [kind |-> "update", task |-> t, upd |-> op[s].queue[t]]
                 rest == [op[s].queue EXCEPT ![t] = "none"]
                 h == [Idle EXCEPT !.pc = "persist", !.base = run, !.req = req, !.queue = rest]
      <4>1. op'[s] = h
        BY <1>0, <3>1, <3>2 DEF Goto
      <4> HIDE DEF req, rest
      <4>2. h.base = run /\ h.req = req
        BY <1>0 DEF Handler
      <4> QED
        BY <4>1, <4>2 DEF req
    <3> QED
      BY <1>2, <2>2, <3>2, <3>3 DEF Validated, CycleNext
  <2> QED
    BY <2>1, <2>2
<1>3. ASSUME NEW s \in Supervisor, NEW pc, pc # "persist"
      PROVE  /\ [op[s] EXCEPT !.pc = pc].pc # "persist"
             /\ [op[s] EXCEPT !.pc = pc, !.queue = NoQueue].pc # "persist"
             /\ \A c : [op[s] EXCEPT !.pc = pc, !.claims = c].pc # "persist"
  BY <1>0, <1>3 DEF Handler
<1>4. ASSUME NEW s \in Supervisor, Persist(s) \/ Close(s) PROVE op'[x] = op[x]
  BY <1>0, <1>3, <1>4, GotoOther, OtherPhases DEF Persist, Close
<1>5. ASSUME NEW s \in Supervisor, AgentCheck(s) \/ AgentWrite(s) PROVE op'[x] = op[x]
  BY <1>0, <1>3, <1>5, GotoOther, OtherPhases DEF AgentCheck, AgentWrite
<1>6. ASSUME NEW s \in Supervisor, Acquire(s) \/ Rollback(s) \/ Release(s) PROVE op'[x] = op[x]
  BY <1>0, <1>3, <1>6, GotoOther, OtherPhases DEF Acquire, Rollback, Release
<1>7. ASSUME NEW s \in Supervisor, SpawnCheck(s) \/ SpawnWrite(s) \/ SpawnFail(s)
      PROVE  op'[x] = op[x]
  BY <1>0, <1>3, <1>7, GotoOther, OtherPhases DEF SpawnCheck, SpawnWrite, SpawnFail
<1>8. ASSUME NEW s \in Supervisor, Claim(s) PROVE op'[x] = op[x]
  <2>1. \/ Goto(s, [op[s] EXCEPT !.pc = "release", !.queue = NoQueue])
        \/ \E pc \in {"release", "spawn"} : \E c :
              Goto(s, [op[s] EXCEPT !.pc = pc, !.claims = c])
    BY <1>8 DEF Claim
  <2> QED
    BY <1>0, <1>3, <2>1, GotoOther
<1>9. ASSUME NEW s \in Supervisor, Crash(s) PROVE op'[x] = op[x]
  BY <1>0, <1>9, GotoOther, OtherPhases DEF Crash
<1>10. CASE Expire \/ (\E a \in AgentId : AgentReport(a)) \/ UNCHANGED vars
  BY <1>10 DEF Expire, AgentReport, vars
<1> QED
  BY <1>1, <1>2, <1>4, <1>5, <1>6, <1>7, <1>8, <1>9, <1>10 DEF Next, Step

----------------------------------------------------------------------------
(* The inductive invariant.                                                *)

LEMMA SignatureParts ==
  ASSUME NEW r, NEW w, Signature(r) = Signature(w)
  PROVE  r.st = w.st /\ r.agent = w.agent /\ r.retries = w.retries
         /\ r.blockers = w.blockers /\ r.followUps = w.followUps
  BY DEF Signature

\* Only a close finds anything to write in a sealed run.
LEMMA SealedRefusesWrites ==
  ASSUME NEW s \in Supervisor, Persisting(s), op[s].req \in Request,
         Validated(op[s].base, op[s].req)
  PROVE  ~Sealed(run)
<1>1. run.st = op[s].base.st /\ run.blockers = op[s].base.blockers
  BY SignatureParts DEF Persisting
<1>2. Unresolved(run) = Unresolved(op[s].base)
  BY <1>1 DEF Unresolved
<1> QED
  BY <1>1, <1>2 DEF Sealed, Validated, Persisting, Request

LEMMA WriteKeeps ==
  ASSUME NEW r \in Run, Write(r)
  PROVE  /\ Signature(run') = Signature(r) /\ run'.open = r.open /\ run'.st = r.st
         /\ run'.evidence = r.evidence /\ Unresolved(run') = Unresolved(r)
         /\ RecordOK(r) => RecordOK(run')
<1>1. /\ run'.st = r.st /\ run'.agent = r.agent /\ run'.retries = r.retries
      /\ run'.blockers = r.blockers /\ run'.followUps = r.followUps
      /\ run'.nextId = r.nextId /\ run'.open = r.open /\ run'.evidence = r.evidence
  BY DEF Write, Run
<1> QED
  BY <1>1, SameBlockersOK DEF Signature, Unresolved

\* Whatever handlers do to a sealed run, its tasks and blockers stay as they are.
LEMMA SealedStays ==
  ASSUME IInv, [Next]_vars, Sealed(run)
  PROVE  Sealed(run') /\ Signature(run') = Signature(run)
<1>0. run \in Run /\ \A s \in Supervisor : op[s].req \in Request /\ op[s].base \in Run
  BY DEF IInv, TypeOK, Handler
<1>1. ASSUME NEW s \in Supervisor, Persisting(s) PROVE FALSE
  BY <1>0, <1>1, SealedRefusesWrites DEF IInv, Persisting
<1>2. ASSUME NEW s \in Supervisor, Closing(s)
      PROVE  Sealed(run') /\ Signature(run') = Signature(run)
  <2> DEFINE r == Closed(op[s].base, op[s].req.given)
  <2>1. op[s].req.given \in Evidence
    BY <1>0, <1>2 DEF Closing, Request
  <2>2. r \in Run /\ Signature(r) = Signature(op[s].base)
    BY <1>0, <2>1, ClosedRun DEF Closed, Signature, Run
  <2>3. Signature(op[s].base) = Signature(run)
    BY <1>2 DEF IInv, Closing
  <2> HIDE DEF r
  <2>4. Signature(run') = Signature(run)
    BY <1>2, <2>2, <2>3, WriteKeeps DEF Closing, r
  <2>5. run'.st = run.st /\ run'.blockers = run.blockers
    BY <2>4, SignatureParts
  <2> QED
    BY <2>4, <2>5 DEF Sealed, Unresolved
<1>3. ASSUME Claiming PROVE Sealed(run') /\ Signature(run') = Signature(run)
  <2>1. Claimed(run) = {}
    BY DEF Sealed, Claimed, Ready
  <2>2. /\ run'.st = run.st /\ run'.agent = run.agent /\ run'.retries = run.retries
        /\ run'.blockers = run.blockers /\ run'.followUps = run.followUps
    BY <1>0, <1>3, <2>1 DEF Claiming, AfterClaim, Run
  <2> QED
    BY <2>2 DEF Sealed, Signature, Unresolved
<1>4. ASSUME RollingBack PROVE Sealed(run') /\ Signature(run') = Signature(run)
  <2>1. PICK S : run' = RolledBack(run, S)
    BY <1>4 DEF RollingBack
  <2>2. /\ run'.st = run.st /\ run'.agent = run.agent /\ run'.retries = run.retries
        /\ run'.blockers = run.blockers /\ run'.followUps = run.followUps
    BY <1>0, <2>1 DEF RolledBack, Run, Sealed
  <2> QED
    BY <2>2 DEF Sealed, Signature, Unresolved
<1>5. ASSUME run' = run PROVE Sealed(run') /\ Signature(run') = Signature(run)
  BY <1>5
<1> QED
  BY <1>1, <1>2, <1>3, <1>4, <1>5, RunMoves

LEMMA RecordStaysOK == ASSUME IInv, [Next]_vars PROVE RecordOK(run')
<1>0. /\ run \in Run /\ RecordOK(run)
      /\ \A s \in Supervisor : op[s].req \in Request /\ op[s].base \in Run
  BY DEF IInv, TypeOK, Handler
<1>1. ASSUME NEW s \in Supervisor, Persisting(s) \/ Closing(s) PROVE RecordOK(run')
  <2>1. Write(Result(op[s].base, op[s].req))
    BY <1>1 DEF Persisting, Closing, Result
  <2>2. RecordOK(op[s].base) /\ Validated(op[s].base, op[s].req)
    BY <1>1 DEF IInv, Persisting, Closing
  <2> QED
    BY <1>0, <2>1, <2>2, ResultRun, ResultOK, WriteKeeps
<1>2. ASSUME Claiming \/ RollingBack PROVE RecordOK(run')
  BY <1>0, <1>2, SchedulingOK DEF Claiming, RollingBack
<1> QED
  BY <1>0, <1>1, <1>2, RunMoves

LEMMA ClosedStaysComplete ==
  ASSUME IInv, [Next]_vars, ~run'.open
  PROVE  Sealed(run') /\ \A g \in Gates : run'.evidence[g] # NoNote
<1>0. run \in Run /\ \A s \in Supervisor : op[s].req \in Request /\ op[s].base \in Run
  BY DEF IInv, TypeOK, Handler
<1>1. ASSUME NEW s \in Supervisor, Persisting(s) PROVE FALSE
  <2>1. Validated(op[s].base, op[s].req)
    BY <1>1 DEF IInv, Persisting
  <2> DEFINE r == Result(op[s].base, op[s].req)
  <2>2. r \in Run
    BY <1>0, ResultRun
  <2>3. r.open
    BY <1>0, <1>1, <2>1
    DEF Result, Updated, Failed, WithBlocker, Recovered, Resolved, Unblocked,
        Persisting, Validated, Request, UpdateStatus, Run
  <2> QED
    BY <1>1, <2>2, <2>3, WriteKeeps DEF Persisting
<1>2. ASSUME NEW s \in Supervisor, Closing(s)
      PROVE  Sealed(run') /\ \A g \in Gates : run'.evidence[g] # NoNote
  <2> DEFINE r == Closed(op[s].base, op[s].req.given)
  <2>1. Closeable(op[s].base, op[s].req.given) /\ op[s].req.given \in Evidence /\ Sealed(run)
    BY <1>0, <1>2 DEF IInv, Closing, Validated, Request
  <2>2. r \in Run /\ r.evidence = Merged(op[s].base, op[s].req.given)
    BY <1>0, <2>1, ClosedRun DEF Closed, Run
  <2> HIDE DEF r
  <2>3. run'.evidence = r.evidence
    BY <1>2, <2>2, WriteKeeps DEF Closing, r
  <2> QED
    BY <2>1, <2>2, <2>3, SealedStays DEF Closeable
<1>3. ASSUME Claiming PROVE FALSE
  BY <1>0, <1>3 DEF Claiming, AfterClaim, Run
<1>4. ASSUME RollingBack \/ run' = run
      PROVE  Sealed(run') /\ \A g \in Gates : run'.evidence[g] # NoNote
  <2>1. run'.open = run.open /\ run'.evidence = run.evidence
    BY <1>0, <1>4 DEF RollingBack, RolledBack, Run
  <2> QED
    BY <2>1, SealedStays DEF IInv
<1> QED
  BY <1>1, <1>2, <1>3, <1>4, RunMoves

THEOREM StoreInvariant == Spec => []IInv
<1>1. Init => IInv
  <2> SUFFICES ASSUME Init PROVE IInv
    OBVIOUS
  <2>1. RecordOK(run) /\ run.open
    BY CreatedOK DEF Init, Created
  <2>2. \A s \in Supervisor : ~AboutToWrite(s)
    BY IdleHandler, OtherPhases DEF Init, AboutToWrite
  <2> QED
    BY <2>1, <2>2, InitTyped DEF IInv
<1>2. IInv /\ [Next]_vars => IInv'
  <2> SUFFICES ASSUME IInv, [Next]_vars PROVE IInv'
    OBVIOUS
  <2>1. TypeOK'
    BY NextTyped DEF IInv
  <2>2. ASSUME NEW s \in Supervisor, AboutToWrite(s)'
        PROVE  /\ RecordOK(op'[s].base)
               /\ Validated(op'[s].base, op'[s].req)
               /\ op'[s].req.kind = "close" =>
                     Sealed(run') /\ Signature(run') = Signature(op'[s].base)
    <3>1. CASE op'[s] = op[s]
      <4>1. AboutToWrite(s)
        BY <2>2, <3>1 DEF AboutToWrite
      <4> QED
        BY <3>1, <4>1, SealedStays DEF IInv
    <3>2. CASE op'[s].base = run /\ Validated(run, op'[s].req) /\ run' = run
      <4>1. op'[s].req.kind = "close" => Sealed(run)
        BY <3>2 DEF Validated, Closeable, Sealed
      <4> QED
        BY <3>2, <4>1 DEF IInv
    <3> QED
      BY <2>2, <3>1, <3>2, PreparedWrites DEF IInv
  <2> QED
    BY <2>1, <2>2, RecordStaysOK, ClosedStaysComplete DEF IInv
<1> QED
  BY <1>1, <1>2, PTL DEF Spec

----------------------------------------------------------------------------
(* The theorems.                                                           *)

\* update_task, recover_task and resolve_blocker keep statuses, blockers and
\* follow-ups in step under any interleaving: the signature each of them
\* compares covers all three.
THEOREM BlockersStayMatched == Spec => []BlockersMatchTasks
<1>1. IInv => BlockersMatchTasks
  BY DEF IInv, RecordOK, BlockersMatchTasks
<1> QED
  BY <1>1, StoreInvariant, PTL

\* close_run leaves a complete run behind although it does not look again
\* before it writes.
THEOREM ClosedRunsAreComplete == Spec => []ClosedIsComplete
<1>1. IInv => ClosedIsComplete
  BY DEF IInv, Sealed, ClosedIsComplete
<1> QED
  BY <1>1, StoreInvariant, PTL

\* No handler that read the run before it was closed reopens it.
THEOREM ClosedRunsStayClosed == Spec => ClosedStaysClosed
<1>1. IInv /\ [Next]_vars =>
        (~run.open => ~run'.open /\ Signature(run') = Signature(run))
  <2> SUFFICES ASSUME IInv, [Next]_vars, ~run.open
               PROVE  ~run'.open /\ Signature(run') = Signature(run)
    OBVIOUS
  <2>0. /\ Sealed(run) /\ run \in Run
        /\ \A s \in Supervisor : op[s].req \in Request /\ op[s].base \in Run
    BY DEF IInv, TypeOK, Handler
  <2>1. ASSUME NEW s \in Supervisor, Persisting(s) PROVE FALSE
    BY <2>0, <2>1, SealedRefusesWrites DEF IInv, Persisting
  <2>2. ASSUME NEW s \in Supervisor, Closing(s) PROVE ~run'.open
    <3> DEFINE r == Closed(op[s].base, op[s].req.given)
    <3>1. op[s].req.given \in Evidence
      BY <2>0, <2>2 DEF Closing, Request
    <3>2. r \in Run /\ ~r.open
      BY <2>0, <3>1, ClosedRun DEF Closed, Run
    <3> HIDE DEF r
    <3> QED
      BY <2>2, <3>2, WriteKeeps DEF Closing, r
  <2>3. ASSUME RollingBack \/ run' = run PROVE ~run'.open
    BY <2>0, <2>3 DEF RollingBack, RolledBack, Run
  <2> QED
    BY <2>0, <2>1, <2>2, <2>3, RunMoves, SealedStays DEF Claiming
<1> QED
  BY <1>1, StoreInvariant, PTL DEF Spec, ClosedStaysClosed

\* A step that changes one task of an open run as the board allows.
LEMMA OneTaskMoves ==
  ASSUME run.open, run'.open, NEW t \in Task, NEW to \in TaskStatus,
         run.st \in [Task -> TaskStatus], run'.st = [run.st EXCEPT ![t] = to],
         \/ run.st[t] = "running" /\ to \in {"completed", "pending", "blocked"}
         \/ run.st[t] = "blocked" /\ to = "pending"
  PROVE  Board!Next
<1>1. run'.st = [u \in Task |-> IF u \in {t} THEN to ELSE run.st[u]]
  OBVIOUS
<1>2. Board!Move({t}, run.st[t], to)
  BY <1>1 DEF Board!Move
<1>3. Board!Finish(t) \/ Board!Retry(t) \/ Board!Block(t) \/ Board!Unblock(t)
  BY <1>2 DEF Board!Finish, Board!Retry, Board!Block, Board!Unblock
<1> QED
  BY <1>3 DEF Board!Next

\* What the requests do to the statuses of the version they were checked on.
LEMMA ResultMoves ==
  ASSUME NEW r \in Run, RecordOK(r), NEW q \in Request, Validated(r, q), q.kind # "close"
  PROVE  \E t \in Task, to \in TaskStatus :
            /\ Result(r, q).st = [r.st EXCEPT ![t] = to]
            /\ \/ r.st[t] = "running" /\ to \in {"completed", "pending", "blocked"}
               \/ r.st[t] = "blocked" /\ to = "pending"
<1> USE DEF TaskStatus
<1>1. CASE q.kind = "update"
  <2>1. q.task \in Task /\ q.upd \in UpdateStatus /\ r.st[q.task] = "running"
    BY <1>1 DEF Request, Validated
  <2>2. Failed(r, q.task).st \in {[r.st EXCEPT ![q.task] = "pending"],
                                  [r.st EXCEPT ![q.task] = "blocked"]}
    BY <2>1 DEF Failed, WithBlocker, Run
  <2>3. \E to \in {"completed", "pending", "blocked"} :
            Result(r, q).st = [r.st EXCEPT ![q.task] = to]
    BY <1>1, <2>1, <2>2 DEF Result, Updated, UpdateStatus, WithBlocker, Run
  <2> QED
    BY <2>1, <2>3
<1>2. CASE q.kind = "recover"
  <2>1. q.task \in Task /\ r.st[q.task] = "blocked"
    BY <1>2 DEF Request, Validated
  <2>2. Result(r, q).st = [r.st EXCEPT ![q.task] = "pending"]
    BY <1>2 DEF Result, Recovered, Unblocked, Run
  <2> QED
    BY <2>1, <2>2
<1>3. CASE q.kind = "resolve"
  <2> DEFINE b == q.blocker
             marked == [r EXCEPT !.blockers = (@ \ {b}) \cup {[b EXCEPT !.open = FALSE]}]
  <2>1. b \in Unresolved(r) /\ b \in Blocker /\ b.task \in Task
    BY <1>3 DEF Request, Validated, Blocker
  <2>2. b \in UnresolvedOf(r, b.task)
    BY <2>1 DEF UnresolvedOf
  <2>3. r.st[b.task] = "blocked" /\ \A c \in UnresolvedOf(r, b.task) : c = b
    BY <2>1, <2>2 DEF RecordOK
  <2>4. ~[b EXCEPT !.open = FALSE].open
    BY <2>1 DEF Blocker
  <2>5. UnresolvedOf(marked, b.task) = {} /\ marked.st = r.st /\ marked \in Run
    <3>1. marked.blockers = (r.blockers \ {b}) \cup {[b EXCEPT !.open = FALSE]}
      BY DEF Run
    <3>2. [b EXCEPT !.open = FALSE] \in Blocker
      BY <2>1 DEF Blocker
    <3>3. marked.st = r.st /\ marked \in Run
      BY <3>2 DEF Run
    <3> HIDE DEF marked
    <3> QED
      BY <2>3, <2>4, <3>1, <3>3 DEF UnresolvedOf, Unresolved
  <2> HIDE DEF marked
  <2>6. Unblocked(marked, b.task).st = [r.st EXCEPT ![b.task] = "pending"]
    BY <2>5 DEF Unblocked, Run
  <2>7. Result(r, q) = Unblocked(marked, b.task)
    BY <1>3, <2>3, <2>5 DEF Result, Resolved, marked
  <2> QED
    BY <2>1, <2>3, <2>6, <2>7
<1> QED
  BY <1>1, <1>2, <1>3 DEF Validated, Request

LEMMA StepRefines == ASSUME IInv, [Next]_vars PROVE [Board!Next]_(Board!vars)
<1>0. /\ run \in Run /\ run.st \in [Task -> TaskStatus]
      /\ \A s \in Supervisor : op[s].req \in Request /\ op[s].base \in Run
  BY DEF IInv, TypeOK, Handler, Run
<1>1. ASSUME NEW s \in Supervisor, Persisting(s) PROVE Board!Next
  <2> DEFINE r == op[s].base
             w == Result(r, op[s].req)
  <2>1. Validated(r, op[s].req) /\ RecordOK(r) /\ r \in Run /\ w \in Run
    BY <1>0, <1>1, ResultRun DEF IInv, Persisting
  <2>2. run.st = r.st /\ run.open
    BY <1>0, <1>1, <2>1, SignatureParts, SealedRefusesWrites DEF Persisting, IInv
  <2>3. run'.st = w.st /\ run'.open = w.open
    BY <1>1, <2>1, WriteKeeps DEF Persisting
  <2>4. w.open
    BY <1>0, <1>1, <2>1
    DEF Result, Updated, Failed, WithBlocker, Recovered, Resolved, Unblocked,
        Persisting, Validated, Request, UpdateStatus, Run
  <2>5. PICK t \in Task, to \in TaskStatus :
          /\ w.st = [r.st EXCEPT ![t] = to]
          /\ \/ r.st[t] = "running" /\ to \in {"completed", "pending", "blocked"}
             \/ r.st[t] = "blocked" /\ to = "pending"
    BY <1>0, <1>1, <2>1, ResultMoves DEF Persisting
  <2> HIDE DEF r, w
  <2> QED
    BY <1>0, <2>2, <2>3, <2>4, <2>5, OneTaskMoves
<1>2. ASSUME NEW s \in Supervisor, Closing(s) PROVE [Board!Next]_(Board!vars)
  <2> DEFINE r == Closed(op[s].base, op[s].req.given)
  <2>1. op[s].req.given \in Evidence /\ Sealed(run)
    BY <1>0, <1>2 DEF IInv, Closing, Request
  <2>2. r \in Run /\ ~r.open /\ r.open \in BOOLEAN
    BY <1>0, <2>1, ClosedRun DEF Closed, Run
  <2> HIDE DEF r
  <2>3. run'.open = FALSE
    BY <1>2, <2>2, WriteKeeps DEF Closing, r
  <2>4. run'.st = run.st
    BY <2>1, SealedStays, SignatureParts
  <2>5. CASE run.open
    BY <2>1, <2>3, <2>4, <2>5 DEF Sealed, Board!Next, Board!Close
  <2>6. CASE ~run.open
    BY <1>0, <2>3, <2>4, <2>6 DEF Board!vars, Run
  <2> QED
    BY <2>5, <2>6
<1>3. ASSUME Claiming PROVE [Board!Next]_(Board!vars)
  <2> DEFINE S == Claimed(run)
  <2>1. /\ S \in SUBSET Task
        /\ \A t \in S : run.st[t] = "pending" /\ \A d \in Deps[t] : run.st[d] = "completed"
    BY DEF Claimed, Ready
  <2>2. /\ run.open /\ run'.open = run.open
        /\ run'.st = [t \in Task |-> IF t \in S THEN "running" ELSE run.st[t]]
    BY <1>0, <1>3 DEF Claiming, AfterClaim, Run
  <2> HIDE DEF S
  <2>3. CASE S = {}
    BY <1>0, <2>2, <2>3 DEF Board!vars
  <2>4. CASE S # {}
    <3>1. Board!Move(S, "pending", "running")
      BY <2>1, <2>2, <2>4 DEF Board!Move
    <3> QED
      BY <2>1, <3>1 DEF Board!Next, Board!Claim
  <2> QED
    BY <2>3, <2>4
<1>4. ASSUME RollingBack PROVE [Board!Next]_(Board!vars)
  <2>1. PICK U : run' = RolledBack(run, U)
    BY <1>4 DEF RollingBack
  <2> DEFINE S == {t \in Task : run.st[t] = "running" /\ <<t, run.agent[t]>> \in U}
  <2>2. S \in SUBSET Task /\ \A t \in S : run.st[t] = "running"
    OBVIOUS
  <2>3. /\ run'.open = run.open
        /\ run'.st = [t \in Task |-> IF t \in S THEN "pending" ELSE run.st[t]]
    BY <1>0, <2>1 DEF RolledBack, Run
  <2> HIDE DEF S
  <2>4. CASE S = {}
    BY <1>0, <2>3, <2>4 DEF Board!vars
  <2>5. CASE S # {}
    <3>1. run.open
      BY <2>2, <2>5 DEF IInv, Sealed
    <3>2. Board!Move(S, "running", "pending")
      BY <2>2, <2>3, <2>5, <3>1 DEF Board!Move
    <3> QED
      BY <2>2, <3>2 DEF Board!Next, Board!HandBack
  <2> QED
    BY <2>4, <2>5
<1>5. ASSUME run' = run PROVE [Board!Next]_(Board!vars)
  BY <1>5 DEF Board!vars
<1> QED
  BY <1>1, <1>2, <1>3, <1>4, <1>5, RunMoves

\* Seen from outside, any number of supervisors with any faults move the
\* tasks of one board: claims in dependency order, one outcome at a time, one
\* close.
THEOREM StoreImplementsBoard == Spec => ImplementsTaskBoard
<1>1. Init => Board!Init
  <2> SUFFICES ASSUME Init PROVE Board!Init
    OBVIOUS
  <2>1. PICK inBounds \in [Task -> BOOLEAN] : run = Created(inBounds)
    BY DEF Init
  <2> QED
    BY <2>1 DEF Board!Init, Created
<1>2. IInv /\ [Next]_vars => [Board!Next]_(Board!vars)
  BY StepRefines
<1> QED
  BY <1>1, <1>2, StoreInvariant, PTL DEF Spec, ImplementsTaskBoard, Board!Spec

\* A completed task stays completed: no rollback, retry or late write of an
\* older version takes it back.
THEOREM CompletedTasksStay == Spec => CompletedStays
<1>1. ASSUME [Board!Next]_(Board!vars), NEW t \in Task, run.st[t] = "completed"
      PROVE  run'.st[t] = "completed"
  <2>1. ASSUME NEW S, NEW from, NEW to, from # "completed", Board!Move(S, from, to)
        PROVE  run'.st[t] = "completed"
    BY <1>1, <2>1 DEF Board!Move
  <2>2. CASE Board!Claim \/ Board!HandBack
    BY <2>1, <2>2 DEF Board!Claim, Board!HandBack
  <2>3. ASSUME NEW u \in Task,
               Board!Finish(u) \/ Board!Retry(u) \/ Board!Block(u) \/ Board!Unblock(u)
        PROVE  run'.st[t] = "completed"
    BY <2>1, <2>3 DEF Board!Finish, Board!Retry, Board!Block, Board!Unblock
  <2>4. CASE Board!Close \/ UNCHANGED Board!vars
    BY <1>1, <2>4 DEF Board!Close, Board!vars
  <2> QED
    BY <1>1, <2>2, <2>3, <2>4 DEF Board!Next
<1>2. IInv /\ [Next]_vars =>
        \A t \in Task : run.st[t] = "completed" => run'.st[t] = "completed"
  BY <1>1, StepRefines
<1> QED
  BY <1>2, StoreInvariant, PTL DEF Spec, CompletedStays

\* The board's own theorems, about this run.
OfBoard == INSTANCE TaskBoardProofs WITH st <- run.st, open <- run.open

\* No task is started, or done, before what it depends on is done, for every
\* graph _validate_graph lets through.
THEOREM DependenciesStayRespected == Spec => []DependenciesRespected
<1>1. OfBoard!StartedInOrder => DependenciesRespected
  BY DEF OfBoard!StartedInOrder, DependenciesRespected
<1>2. Board!Init => OfBoard!Init
  BY DEF Board!Init, OfBoard!Init
<1>3. [Board!Next]_(Board!vars) => [OfBoard!Next]_(OfBoard!vars)
  BY DEF Board!Next, Board!vars, Board!Claim, Board!HandBack, Board!Finish, Board!Retry,
         Board!Block, Board!Unblock, Board!Move, Board!Close,
         OfBoard!Next, OfBoard!vars, OfBoard!Claim, OfBoard!HandBack, OfBoard!Finish,
         OfBoard!Retry, OfBoard!Block, OfBoard!Unblock, OfBoard!Move, OfBoard!Close
<1>4. Board!Spec => OfBoard!Spec
  BY <1>2, <1>3, PTL DEF Board!Spec, OfBoard!Spec
<1>5. OfBoard!BoardAssumption
  BY RunAssumption DEF OfBoard!BoardAssumption
<1>6. OfBoard!Spec => []OfBoard!StartedInOrder
  BY <1>5, OfBoard!BoardInOrder
<1> QED
  BY <1>1, <1>4, <1>6, StoreImplementsBoard, PTL DEF ImplementsTaskBoard

----------------------------------------------------------------------------
(* What one step does to one task, to one agent and to one handler.         *)

Holding == {"claim", "spawn", "spawnWrite", "rollback", "release"}

Unspawned(s) == op[s].claims \ op[s].spawned

\* The steps that move task t.
Starts(s, t) ==
    /\ op[s].pc = "claim" /\ lease = s
    /\ run.st[t] = "pending" /\ run'.st[t] = "running"
    /\ IF run.agent[t] = 0
       THEN run'.agent[t] = run.issued[t] + 1 /\ run'.issued[t] = run.issued[t] + 1
       ELSE run'.agent[t] = run.agent[t] /\ run'.issued[t] = run.issued[t]

Returns(s, t) ==
    /\ op[s].pc = "rollback" /\ <<t, run.agent[t]>> \in Unspawned(s)
    /\ run.st[t] = "running" /\ run'.st[t] = "pending"
    /\ run'.agent[t] = 0 /\ run'.issued[t] = run.issued[t]
    /\ run'.retries[t] = run.retries[t]

Ends(s, t) ==
    /\ Persisting(s)
    /\ op[s].req.kind = "update" /\ op[s].req.task = t
    /\ run.st[t] = "running" /\ run'.issued[t] = run.issued[t]
    /\ \/ run'.st[t] \in {"completed", "blocked"} /\ run'.agent[t] = run.agent[t]
       \/ /\ run'.st[t] = "pending" /\ run'.agent[t] = 0
          /\ run'.retries[t] = run.retries[t] + 1

Unblocks(t) ==
    /\ run.st[t] = "blocked" /\ run'.st[t] = "pending"
    /\ run'.agent[t] = 0 /\ run'.issued[t] = run.issued[t]

Stays(t) ==
    /\ run'.st[t] = run.st[t] /\ run'.agent[t] = run.agent[t]
    /\ run'.issued[t] = run.issued[t]

LEMMA UnblockedTasks ==
  ASSUME NEW r \in Run, NEW u \in Task, NEW t \in Task
  PROVE  LET w == Unblocked(r, u) IN
         IF t = u THEN w.st[t] = "pending" /\ w.agent[t] = 0
         ELSE w.st[t] = r.st[t] /\ w.agent[t] = r.agent[t]
<1>1. /\ Unblocked(r, u).st = [r.st EXCEPT ![u] = "pending"]
      /\ Unblocked(r, u).agent = [r.agent EXCEPT ![u] = 0]
  BY DEF Unblocked, Run
<1>2. r.st \in [Task -> TaskStatus] /\ r.agent \in [Task -> 0..MaxIssue]
  BY DEF Run
<1> QED
  BY <1>1, <1>2

LEMMA UpdatedTasks ==
  ASSUME NEW r \in Run, NEW u \in Task, NEW upd \in UpdateStatus, NEW t \in Task
  PROVE  LET w == Updated(r, u, upd) IN
         IF t # u THEN w.st[t] = r.st[t] /\ w.agent[t] = r.agent[t]
         ELSE \/ w.st[t] \in {"completed", "blocked"} /\ w.agent[t] = r.agent[t]
              \/ /\ w.st[t] = "pending" /\ w.agent[t] = 0
                 /\ w.retries[t] = r.retries[t] + 1
<1>0. /\ r.st \in [Task -> TaskStatus] /\ r.agent \in [Task -> 0..MaxIssue]
      /\ r.retries \in [Task -> Nat]
  BY DEF Run
<1>1. ASSUME NEW c \in Run, c.st = r.st, c.agent = r.agent, NEW sev
      PROVE  /\ WithBlocker(c, u, sev).st = [r.st EXCEPT ![u] = "blocked"]
             /\ WithBlocker(c, u, sev).agent = r.agent
  BY <1>1 DEF WithBlocker, Run
<1>2. CASE upd = "completed"
  <2> DEFINE w == [r EXCEPT !.st[u] = "completed"]
  <2>1. w.st = [r.st EXCEPT ![u] = "completed"] /\ w.agent = r.agent
    BY DEF Run
  <2>2. Updated(r, u, upd) = w
    BY <1>2 DEF Updated
  <2> HIDE DEF w
  <2> QED
    BY <1>0, <2>1, <2>2
<1>3. CASE upd = "blocked"
  <2>1. Updated(r, u, upd) = WithBlocker(r, u, "blocked")
    BY <1>3 DEF Updated
  <2> QED
    BY <1>0, <1>1, <2>1
<1>4. CASE upd = "failed"
  <2> DEFINE counted == [r EXCEPT !.retries[u] = @ + 1]
             again == [counted EXCEPT !.st[u] = "pending", !.agent[u] = 0]
  <2>1. /\ counted \in Run /\ counted.st = r.st /\ counted.agent = r.agent
        /\ counted.retries = [r.retries EXCEPT ![u] = @ + 1]
    BY DEF Run
  <2>2. Updated(r, u, upd) \in {again, WithBlocker(counted, u, "retry_exhausted")}
    BY <1>4 DEF Updated, Failed
  <2> HIDE DEF counted
  <2>3. /\ again.st = [r.st EXCEPT ![u] = "pending"]
        /\ again.agent = [r.agent EXCEPT ![u] = 0]
        /\ again.retries = counted.retries
    BY <2>1 DEF Run
  <2> HIDE DEF again
  <2>4. CASE Updated(r, u, upd) = again
    BY <1>0, <2>1, <2>3, <2>4
  <2>5. CASE Updated(r, u, upd) = WithBlocker(counted, u, "retry_exhausted")
    BY <1>0, <1>1, <2>1, <2>5
  <2> QED
    BY <2>2, <2>4, <2>5
<1> QED
  BY <1>2, <1>3, <1>4 DEF UpdateStatus

\* What the requests do to one task of the version they were checked on.
LEMMA ResultTasks ==
  ASSUME NEW r \in Run, RecordOK(r), NEW q \in Request, Validated(r, q),
         q.kind # "close", NEW t \in Task
  PROVE  LET w == Result(r, q) IN
         \/ w.st[t] = r.st[t] /\ w.agent[t] = r.agent[t]
         \/ r.st[t] = "blocked" /\ w.st[t] = "pending" /\ w.agent[t] = 0
         \/ /\ q.kind = "update" /\ q.task = t /\ r.st[t] = "running"
            /\ \/ w.st[t] \in {"completed", "blocked"} /\ w.agent[t] = r.agent[t]
               \/ /\ w.st[t] = "pending" /\ w.agent[t] = 0
                  /\ w.retries[t] = r.retries[t] + 1
<1>1. CASE q.kind = "update"
  <2>1. q.task \in Task /\ q.upd \in UpdateStatus /\ r.st[q.task] = "running"
    BY <1>1 DEF Request, Validated
  <2>2. Result(r, q) = Updated(r, q.task, q.upd)
    BY <1>1 DEF Result
  <2> QED
    BY <1>1, <2>1, <2>2, UpdatedTasks
<1>2. CASE q.kind = "recover"
  <2>1. q.task \in Task /\ r.st[q.task] = "blocked"
    BY <1>2 DEF Request, Validated
  <2> DEFINE u == Unblocked(r, q.task)
             w == Recovered(r, q.task, q.reset)
  <2>2. u \in Run
    BY <2>1, UnblockedRun
  <2>3. IF t = q.task THEN u.st[t] = "pending" /\ u.agent[t] = 0
        ELSE u.st[t] = r.st[t] /\ u.agent[t] = r.agent[t]
    BY <2>1, UnblockedTasks
  <2> HIDE DEF u
  <2>4. w.st = u.st /\ w.agent = u.agent
    BY <2>2 DEF Recovered, Run, u
  <2>5. Result(r, q) = w
    BY <1>2 DEF Result
  <2> HIDE DEF w
  <2> QED
    BY <2>1, <2>3, <2>4, <2>5
<1>3. CASE q.kind = "resolve"
  <2> DEFINE b == q.blocker
             done == [b EXCEPT !.open = FALSE]
             marked == [r EXCEPT !.blockers = (@ \ {b}) \cup {done}]
  <2>1. b \in Blocker /\ b.task \in Task
    BY <1>3 DEF Request, Blocker
  <2>2. done \in Blocker
    BY <2>1 DEF Blocker
  <2> HIDE DEF b, done
  <2>3. marked \in Run /\ marked.st = r.st /\ marked.agent = r.agent
    BY <2>2 DEF Run
  <2>4. Result(r, q) = IF r.st[b.task] = "blocked" /\ UnresolvedOf(marked, b.task) = {}
                       THEN Unblocked(marked, b.task) ELSE marked
    BY <1>3 DEF Result, Resolved, b, done
  <2> HIDE DEF marked
  <2>5. IF t = b.task
        THEN Unblocked(marked, b.task).st[t] = "pending"
             /\ Unblocked(marked, b.task).agent[t] = 0
        ELSE Unblocked(marked, b.task).st[t] = r.st[t]
             /\ Unblocked(marked, b.task).agent[t] = r.agent[t]
    BY <2>1, <2>3, UnblockedTasks
  <2> QED
    BY <2>3, <2>4, <2>5
<1> QED
  BY <1>1, <1>2, <1>3 DEF Validated, Request

LEMMA WriteKeepsTasks ==
  ASSUME run \in Run, NEW r \in Run, Write(r)
  PROVE  /\ run'.st = r.st /\ run'.agent = r.agent /\ run'.retries = r.retries
         /\ run'.issued = run.issued
  BY DEF Write, Run

LEMMA TaskMoves ==
  ASSUME IInv, [Next]_vars, NEW t \in Task
  PROVE  \/ Stays(t) \/ Unblocks(t)
         \/ \E s \in Supervisor : Starts(s, t) \/ Returns(s, t) \/ Ends(s, t)
<1>0. run \in Run /\ \A s \in Supervisor : op[s].req \in Request /\ op[s].base \in Run
  BY DEF IInv, TypeOK, Handler
<1>1. ASSUME NEW s \in Supervisor, Persisting(s)
      PROVE  Stays(t) \/ Unblocks(t) \/ Ends(s, t)
  <2> DEFINE r == op[s].base
             q == op[s].req
             w == Result(r, q)
  <2>1. r \in Run /\ q \in Request /\ w \in Run
    BY <1>0, ResultRun
  <2>2. RecordOK(r) /\ Validated(r, q) /\ q.kind # "close"
    BY <1>1 DEF IInv, Persisting
  <2>3. r.st = run.st /\ r.agent = run.agent /\ r.retries = run.retries
    BY <1>1, SignatureParts DEF Persisting
  <2>4. \/ w.st[t] = r.st[t] /\ w.agent[t] = r.agent[t]
        \/ r.st[t] = "blocked" /\ w.st[t] = "pending" /\ w.agent[t] = 0
        \/ /\ q.kind = "update" /\ q.task = t /\ r.st[t] = "running"
           /\ \/ w.st[t] \in {"completed", "blocked"} /\ w.agent[t] = r.agent[t]
              \/ /\ w.st[t] = "pending" /\ w.agent[t] = 0
                 /\ w.retries[t] = r.retries[t] + 1
    BY <2>1, <2>2, ResultTasks
  <2>5. Write(w)
    BY <1>1 DEF Persisting
  <2> HIDE DEF w
  <2>6. /\ run'.st = w.st /\ run'.agent = w.agent /\ run'.retries = w.retries
        /\ run'.issued = run.issued
    BY <1>0, <2>1, <2>5, WriteKeepsTasks
  <2> QED
    BY <1>1, <2>3, <2>4, <2>6 DEF Stays, Unblocks, Ends
<1>2. ASSUME NEW s \in Supervisor, Closing(s) PROVE Stays(t)
  <2> DEFINE r == Closed(op[s].base, op[s].req.given)
  <2>1. op[s].req.given \in Evidence /\ Sealed(run)
    BY <1>0, <1>2 DEF IInv, Closing, Request
  <2>2. r \in Run /\ Write(r)
    BY <1>0, <1>2, <2>1, ClosedRun DEF Closing
  <2> HIDE DEF r
  <2>3. run'.issued = run.issued
    BY <1>0, <2>2, WriteKeepsTasks
  <2>4. run'.st = run.st /\ run'.agent = run.agent
    BY <2>1, SealedStays, SignatureParts
  <2> QED
    BY <2>3, <2>4 DEF Stays
<1>3. ASSUME NEW s \in Supervisor, Claim(s) PROVE Stays(t) \/ Starts(s, t)
  <2>1. CASE lease = s /\ run.open
    <3>1. run' = AfterClaim(run) /\ op[s].pc = "claim"
      BY <1>3, <2>1 DEF Claim
    <3>2. t \in Claimed(run) => run.st[t] = "pending"
      BY DEF Claimed, Ready
    <3>3. /\ run'.st[t] = IF t \in Claimed(run) THEN "running" ELSE run.st[t]
          /\ run'.agent[t] = IF t \in Claimed(run) /\ run.agent[t] = 0
                             THEN run.issued[t] + 1 ELSE run.agent[t]
          /\ run'.issued[t] = IF t \in Claimed(run) /\ run.agent[t] = 0
                              THEN run.issued[t] + 1 ELSE run.issued[t]
      BY <1>0, <3>1 DEF AfterClaim, Run
    <3> QED
      BY <2>1, <3>1, <3>2, <3>3 DEF Stays, Starts
  <2>2. CASE ~(lease = s /\ run.open)
    BY <1>3, <2>2 DEF Claim, Stays
  <2> QED
    BY <2>1, <2>2
<1>4. ASSUME NEW s \in Supervisor, Rollback(s) PROVE Stays(t) \/ Returns(s, t)
  <2> DEFINE undone == run.st[t] = "running" /\ <<t, run.agent[t]>> \in Unspawned(s)
  <2>1. run' = RolledBack(run, Unspawned(s)) /\ op[s].pc = "rollback"
    BY <1>4 DEF Rollback, Unspawned
  <2>2. /\ run'.st[t] = IF undone THEN "pending" ELSE run.st[t]
        /\ run'.agent[t] = IF undone THEN 0 ELSE run.agent[t]
        /\ run'.issued[t] = run.issued[t] /\ run'.retries[t] = run.retries[t]
    BY <1>0, <2>1 DEF RolledBack, Run
  <2> QED
    BY <2>1, <2>2 DEF Stays, Returns
<1>5. ASSUME run' = run PROVE Stays(t)
  BY <1>5 DEF Stays
<1>6. \/ run' = run
      \/ \E s \in Supervisor : Persisting(s) \/ Closing(s) \/ Claim(s) \/ Rollback(s)
  <2>1. ASSUME NEW s \in Supervisor, Start(s) PROVE run' = run
    BY <2>1 DEF Start, StartUpdate, StartRecover, StartResolve, StartClose, StartAdvance,
                StartCycle, Begin
  <2>2. ASSUME NEW s \in Supervisor, Step(s)
        PROVE  run' = run \/ Persisting(s) \/ Closing(s) \/ Claim(s) \/ Rollback(s)
    <3>1. CASE Persist(s) \/ Close(s)
      BY <3>1 DEF Persist, Persisting, AboutToWrite, Close, Closing, Result
    <3>2. CASE \/ CycleNext(s) \/ AgentCheck(s) \/ AgentWrite(s) \/ Acquire(s)
               \/ SpawnCheck(s) \/ SpawnWrite(s) \/ SpawnFail(s) \/ Release(s)
      BY <3>2 DEF CycleNext, AgentCheck, AgentWrite, Acquire, SpawnCheck, SpawnWrite,
                  SpawnFail, Release
    <3> QED
      BY <2>2, <3>1, <3>2 DEF Step
  <2>3. ASSUME \/ \E s \in Supervisor : Crash(s)
               \/ Expire
               \/ \E a \in AgentId : AgentReport(a)
               \/ UNCHANGED vars
        PROVE  run' = run
    BY <2>3 DEF Crash, Expire, AgentReport, vars
  <2> QED
    BY <2>1, <2>2, <2>3 DEF Next
<1> QED
  BY <1>1, <1>2, <1>3, <1>4, <1>5, <1>6

\* What one step does to one agent.
LEMMA AgentMoves ==
  ASSUME TypeOK, [Next]_vars, NEW a \in AgentId
  PROVE  \/ agents'[a] = agents[a]
         \/ agents[a] = "running" /\ agents'[a] \in Terminal
         \/ agents[a] # "absent" /\ agents'[a] \in Terminal /\ run' = run
         \/ \E s \in Supervisor :
              /\ op[s].pc = "spawnWrite" /\ a \in Unspawned(s) /\ agents'[a] = "running"
              /\ run' = run
              /\ \/ a \in op'[s].spawned
                 \/ op'[s].pc = "rollback" /\ Current(op'[s], a)
<1>0. agents \in [AgentId -> AgentStatus] /\ op \in [Supervisor -> Handler]
  BY DEF TypeOK
<1>1. ASSUME NEW s \in Supervisor, AgentWrite(s)
      PROVE  agents'[a] = agents[a]
             \/ (agents[a] # "absent" /\ agents'[a] \in Terminal /\ run' = run)
  BY <1>0, <1>1 DEF AgentWrite, Terminal
<1>2. ASSUME NEW s \in Supervisor, SpawnWrite(s)
      PROVE  \/ agents'[a] = agents[a]
             \/ /\ op[s].pc = "spawnWrite" /\ a \in Unspawned(s) /\ agents'[a] = "running"
                /\ run' = run /\ a \in op'[s].spawned
  <2>1. PICK b \in AgentId :
          /\ Current(op[s], b)
          /\ agents' = [agents EXCEPT ![b] = "running"]
          /\ Goto(s, AfterSpawn(op[s], b))
    BY <1>2 DEF SpawnWrite
  <2>2. op'[s].spawned = op[s].spawned \cup {b}
    BY <1>0, <2>1 DEF Goto, AfterSpawn, Handler
  <2> QED
    BY <1>0, <1>2, <2>1, <2>2 DEF SpawnWrite, Current, Unspawned
<1>3. ASSUME NEW s \in Supervisor, SpawnFail(s)
      PROVE  \/ agents'[a] = agents[a]
             \/ /\ op[s].pc = "spawnWrite" /\ a \in Unspawned(s) /\ agents'[a] = "running"
                /\ run' = run /\ op'[s].pc = "rollback" /\ Current(op'[s], a)
  <2>1. /\ op'[s].pc = "rollback"
        /\ op'[s].claims = op[s].claims /\ op'[s].spawned = op[s].spawned
    BY <1>0, <1>3 DEF SpawnFail, Goto, Handler
  <2> QED
    BY <1>0, <1>3, <2>1 DEF SpawnFail, Current, Unspawned
<1>4. ASSUME NEW b \in AgentId, AgentReport(b)
      PROVE  agents'[a] = agents[a] \/ (agents[a] = "running" /\ agents'[a] \in Terminal)
  BY <1>0, <1>4 DEF AgentReport
<1>5. ASSUME NEW s \in Supervisor, Start(s) PROVE agents' = agents
  BY <1>5 DEF Start, StartUpdate, StartRecover, StartResolve, StartClose, StartAdvance,
              StartCycle, Begin
<1>6. ASSUME NEW s \in Supervisor,
             \/ CycleNext(s) \/ Persist(s) \/ Close(s) \/ AgentCheck(s) \/ Acquire(s)
             \/ Claim(s) \/ SpawnCheck(s) \/ Rollback(s) \/ Release(s)
      PROVE  agents' = agents
  BY <1>6 DEF CycleNext, Persist, Close, AgentCheck, Acquire, Claim, SpawnCheck, Rollback,
              Release
<1>7. ASSUME (\E s \in Supervisor : Crash(s)) \/ Expire \/ UNCHANGED vars
      PROVE  agents' = agents
  BY <1>7 DEF Crash, Expire, vars
<1> QED
  BY <1>1, <1>2, <1>3, <1>4, <1>5, <1>6, <1>7 DEF Next, Step

----------------------------------------------------------------------------
(* What one step makes of a handler.                                        *)

\* A handler with no request and no claims.
Resting(h) ==
    /\ h.pc \in {"idle", "cycle", "acquire"}
    /\ h.req.kind = "none" /\ h.claims = {} /\ h.spawned = {}

SameRequest(h, o) == h.req = o.req /\ h.base = o.base

SameClaims(h, o) == h.claims = o.claims /\ h.spawned = o.spawned

Rests(x) == Resting(op'[x]) /\ op'[x].queue \in {op[x].queue, NoQueue}

Collects(x) ==
    /\ x \in Cycler /\ Resting(op'[x])
    /\ op'[x].queue = [t \in Task |-> Reported(t)]
    /\ UNCHANGED <<run, agents>>

Prepares(x) ==
    /\ op'[x].pc = "persist" /\ op'[x].claims = {} /\ op'[x].spawned = {}
    /\ op'[x].base = run
    /\ \/ op'[x].queue = NoQueue /\ (op'[x].req.kind = "update" => ManualUpdates)
       \/ \E t \in Task :
            /\ op[x].queue[t] # "none"
            /\ op'[x].req = [kind |-> "update", task |-> t, upd |-> op[x].queue[t]]
            /\ op'[x].queue = [op[x].queue EXCEPT ![t] = "none"]
    /\ UNCHANGED <<run, agents>>

Proceeds(x) ==
    /\ \/ op[x].pc = "persist" /\ op[x].req.kind = "update" /\ op'[x].pc = "agent"
       \/ op[x].pc = "agent" /\ op'[x].pc = "agentWrite"
    /\ SameRequest(op'[x], op[x]) /\ SameClaims(op'[x], op[x])
    /\ op'[x].queue = op[x].queue

Locks(x) ==
    /\ op[x].pc = "acquire" /\ op'[x].pc = "claim" /\ lease = Nobody /\ lease' = x
    /\ SameRequest(op'[x], op[x]) /\ SameClaims(op'[x], op[x])
    /\ op'[x].queue = op[x].queue

Claims(x) ==
    /\ op[x].pc = "claim" /\ op'[x].pc \in {"release", "spawn"}
    /\ lease = x /\ lease' = x /\ run.open
    /\ \A t \in Claimed(run) : run.issued[t] < MaxIssue
    /\ op'[x].claims = {<<t, AfterClaim(run).agent[t]>> : t \in Claimed(run) \cup Missing}
    /\ SameRequest(op'[x], op[x]) /\ op'[x].queue = op[x].queue
    /\ run' = AfterClaim(run) /\ agents' = agents

Spawns(x) ==
    /\ \/ op[x].pc = "spawn" /\ op'[x].pc \in {"spawn", "spawnWrite", "release"}
       \/ op[x].pc = "spawnWrite" /\ op'[x].pc \in {"spawn", "release", "rollback"}
    /\ op'[x].claims = op[x].claims /\ op[x].spawned \subseteq op'[x].spawned
    /\ SameRequest(op'[x], op[x]) /\ op'[x].queue = op[x].queue
    /\ lease' = lease

Leaves(x) ==
    /\ op[x].pc \in {"claim", "rollback"} /\ op'[x].pc = "release"
    /\ SameRequest(op'[x], op[x]) /\ SameClaims(op'[x], op[x])
    /\ op'[x].queue = NoQueue /\ lease' = lease

LEMMA HandlerShapes ==
  ASSUME NEW o \in Handler
  PROVE  /\ Resting(Idle) /\ Idle.queue = NoQueue
         /\ \A skip : Resting(Scheduling(o, skip)) /\ Scheduling(o, skip).queue = o.queue
         /\ \A skip : Resting(Scheduling(Idle, skip)) /\ Scheduling(Idle, skip).queue = NoQueue
         /\ Resting(Continue(o)) /\ Continue(o).queue = o.queue
         /\ Resting(AfterUpdate(o)) /\ AfterUpdate(o).queue = o.queue
<1>1. Idle \in Handler
  BY IdleHandler
<1>2. Resting(Idle) /\ Idle.queue = NoQueue
  BY DEF Idle, Resting
<1>3. ASSUME NEW skip, NEW p \in Handler
      PROVE  Resting(Scheduling(p, skip)) /\ Scheduling(p, skip).queue = p.queue
  BY <1>1, <1>2 DEF Scheduling, Resting, Handler
<1>4. Resting(Continue(o)) /\ Continue(o).queue = o.queue
  BY <1>1, <1>2 DEF Continue, Resting, Handler
<1>5. Resting(AfterUpdate(o)) /\ AfterUpdate(o).queue = o.queue
  BY <1>3, <1>4 DEF AfterUpdate
<1>6. \A skip : Resting(Scheduling(Idle, skip)) /\ Scheduling(Idle, skip).queue = NoQueue
  BY <1>1, <1>2, <1>3
<1> QED
  BY <1>2, <1>3, <1>4, <1>5, <1>6

LEMMA OtherHandlers ==
  ASSUME op \in [Supervisor -> Handler], NEW s \in Supervisor, NEW o, Goto(s, o),
         NEW x \in Supervisor
  PROVE  IF x = s THEN op'[x] = o ELSE op'[x] = op[x]
  BY DEF Goto

LEMMA NextPhase ==
  ASSUME NEW o \in Handler, NEW pc
  PROVE  /\ [o EXCEPT !.pc = pc].pc = pc /\ [o EXCEPT !.pc = pc].queue = o.queue
         /\ SameRequest([o EXCEPT !.pc = pc], o) /\ SameClaims([o EXCEPT !.pc = pc], o)
  BY DEF Handler, SameRequest, SameClaims

\* A request that starts from the run as it is.
LEMMA BeginMoves ==
  ASSUME op \in [Supervisor -> Handler], NEW s \in Supervisor, NEW q, Begin(s, q),
         q.kind = "update" => ManualUpdates
  PROVE  Prepares(s)
<1> DEFINE h == [Idle EXCEPT !.pc = "persist", !.req = q, !.base = run]
<1>1. op'[s] = h
  BY OtherHandlers DEF Begin
<1>2. /\ h.pc = "persist" /\ h.claims = {} /\ h.spawned = {} /\ h.base = run
      /\ h.queue = NoQueue /\ h.req = q
  BY DEF Idle
<1> HIDE DEF h
<1> QED
  BY <1>1, <1>2 DEF Begin, Prepares

LEMMA StartMoves ==
  ASSUME op \in [Supervisor -> Handler], NEW s \in Supervisor, Start(s)
  PROVE  Rests(s) \/ Collects(s) \/ Prepares(s)
<1>1. CASE StartUpdate(s)
  BY <1>1, BeginMoves DEF StartUpdate
<1>2. CASE StartRecover(s)
  BY <1>2, BeginMoves DEF StartRecover
<1>3. CASE StartResolve(s)
  BY <1>3, BeginMoves DEF StartResolve
<1>4. CASE StartClose(s)
  BY <1>4, BeginMoves DEF StartClose
<1>5. CASE StartAdvance(s)
  <2>1. op'[s] = Scheduling(Idle, FALSE)
    BY <1>5, OtherHandlers DEF StartAdvance
  <2> QED
    BY <2>1, IdleHandler, HandlerShapes DEF Rests
<1>6. CASE StartCycle(s)
  <2> DEFINE queue == [t \in Task |-> Reported(t)]
             h == [Idle EXCEPT !.pc = "cycle", !.queue = queue]
  <2>1. s \in Cycler /\ UNCHANGED <<run, agents>>
        /\ Goto(s, IF queue = NoQueue THEN Scheduling(Idle, FALSE) ELSE h)
    BY <1>6 DEF StartCycle
  <2>2. CASE queue = NoQueue
    <3>1. op'[s] = Scheduling(Idle, FALSE)
      BY <2>1, <2>2, OtherHandlers
    <3> QED
      BY <3>1, IdleHandler, HandlerShapes DEF Rests
  <2>3. CASE queue # NoQueue
    <3>1. op'[s] = h
      BY <2>1, <2>3, OtherHandlers
    <3> HIDE DEF queue
    <3>2. Resting(h) /\ h.queue = queue
      BY DEF Resting, Idle
    <3> HIDE DEF h
    <3> QED
      BY <2>1, <3>1, <3>2 DEF Collects, queue
  <2> QED
    BY <2>2, <2>3
<1> QED
  BY <1>1, <1>2, <1>3, <1>4, <1>5, <1>6 DEF Start

LEMMA WritingMoves ==
  ASSUME op \in [Supervisor -> Handler], NEW s \in Supervisor,
         CycleNext(s) \/ Persist(s) \/ Close(s) \/ AgentCheck(s) \/ AgentWrite(s)
  PROVE  Rests(s) \/ Prepares(s) \/ Proceeds(s)
<1>0. op[s] \in Handler /\ Idle \in Handler
  BY IdleHandler
<1>2. CASE CycleNext(s)
  <2>1. PICK t \in Task :
          /\ op[s].queue[t] # "none"
          /\ \/ Goto(s, [Idle EXCEPT
                    !.pc = "persist", !.base = run,
                    !.req = [kind |-> "update", task |-> t, upd |-> op[s].queue[t]],
                    !.queue = [op[s].queue EXCEPT ![t] = "none"]])
             \/ Goto(s, Idle)
    BY <1>2 DEF CycleNext
  <2> DEFINE req == [kind |-> "update", task |-> t, upd |-> op[s].queue[t]]
             rest == [op[s].queue EXCEPT ![t] = "none"]
             h == [Idle EXCEPT !.pc = "persist", !.base = run, !.req = req, !.queue = rest]
  <2>2. CASE op'[s] = Idle
    BY <1>0, <2>2, HandlerShapes DEF Rests
  <2>3. CASE op'[s] = h
    <3> HIDE DEF req, rest
    <3>1. /\ h.pc = "persist" /\ h.claims = {} /\ h.spawned = {} /\ h.base = run
          /\ h.queue = rest /\ h.req = req
      BY DEF Idle
    <3> HIDE DEF h
    <3>2. UNCHANGED <<run, agents>>
      BY <1>2 DEF CycleNext
    <3>3. Prepares(s)
      BY <2>1, <2>3, <3>1, <3>2 DEF Prepares, req, rest
    <3> QED
      BY <3>3
  <2> QED
    BY <2>1, <2>2, <2>3, OtherHandlers
<1>3. CASE Persist(s)
  <2>1. \/ Goto(s, Idle)
        \/ Goto(s, Scheduling(Idle, FALSE))
        \/ op[s].req.kind = "update" /\ Goto(s, [op[s] EXCEPT !.pc = "agent"])
    BY <1>3 DEF Persist
  <2>2. CASE Goto(s, Idle) \/ Goto(s, Scheduling(Idle, FALSE))
    <3>1. op'[s] \in {Idle, Scheduling(Idle, FALSE)}
      BY <2>2, OtherHandlers
    <3> QED
      BY <1>0, <3>1, HandlerShapes DEF Rests
  <2>3. CASE op[s].req.kind = "update" /\ Goto(s, [op[s] EXCEPT !.pc = "agent"])
    <3>1. op'[s] = [op[s] EXCEPT !.pc = "agent"]
      BY <2>3, OtherHandlers
    <3> QED
      BY <1>0, <1>3, <2>3, <3>1, NextPhase DEF Persist, Proceeds
  <2> QED
    BY <2>1, <2>2, <2>3
<1>4. CASE Close(s)
  BY <1>0, <1>4, HandlerShapes, OtherHandlers DEF Close, Rests
<1>5. CASE AgentCheck(s)
  <2>1. op'[s] = AfterUpdate(op[s]) \/ op'[s] = [op[s] EXCEPT !.pc = "agentWrite"]
    BY <1>5, OtherHandlers DEF AgentCheck
  <2>2. CASE op'[s] = AfterUpdate(op[s])
    BY <1>0, <2>2, HandlerShapes DEF Rests
  <2>3. CASE op'[s] = [op[s] EXCEPT !.pc = "agentWrite"]
    BY <1>0, <1>5, <2>3, NextPhase DEF AgentCheck, Proceeds
  <2> QED
    BY <2>1, <2>2, <2>3
<1>6. CASE AgentWrite(s)
  BY <1>0, <1>6, HandlerShapes, OtherHandlers DEF AgentWrite, Rests
<1> QED
  BY <1>2, <1>3, <1>4, <1>5, <1>6

LEMMA SchedulerMoves ==
  ASSUME op \in [Supervisor -> Handler], NEW s \in Supervisor,
         \/ Acquire(s) \/ Claim(s) \/ SpawnCheck(s) \/ SpawnWrite(s)
         \/ SpawnFail(s) \/ Rollback(s) \/ Release(s)
  PROVE  Rests(s) \/ Locks(s) \/ Claims(s) \/ Spawns(s) \/ Leaves(s)
<1>0. op[s] \in Handler /\ Idle \in Handler
  BY IdleHandler
<1>2. ASSUME NEW pc
      PROVE  LET h == [op[s] EXCEPT !.pc = pc, !.queue = NoQueue] IN
             /\ h.pc = pc /\ h.queue = NoQueue
             /\ SameRequest(h, op[s]) /\ SameClaims(h, op[s])
  BY <1>0 DEF Handler, SameRequest, SameClaims
<1>3. ASSUME NEW a
      PROVE  /\ AfterSpawn(op[s], a).pc \in {"spawn", "release"}
             /\ AfterSpawn(op[s], a).queue = op[s].queue
             /\ AfterSpawn(op[s], a).claims = op[s].claims
             /\ op[s].spawned \subseteq AfterSpawn(op[s], a).spawned
             /\ SameRequest(AfterSpawn(op[s], a), op[s])
  BY <1>0 DEF AfterSpawn, Handler, SameRequest
<1>4. CASE Acquire(s)
  <2>1. \/ /\ lease = Nobody /\ lease' = s
           /\ op'[s] = [op[s] EXCEPT !.pc = "claim"]
        \/ op'[s] \in {Continue(op[s]), Idle}
    BY <1>4, OtherHandlers DEF Acquire
  <2>2. CASE op'[s] \in {Continue(op[s]), Idle}
    BY <1>0, <2>2, HandlerShapes DEF Rests
  <2>3. CASE lease = Nobody /\ lease' = s /\ op'[s] = [op[s] EXCEPT !.pc = "claim"]
    BY <1>0, <1>4, <2>3, NextPhase DEF Acquire, Locks
  <2> QED
    BY <2>1, <2>2, <2>3
<1>5. CASE Claim(s)
  <2>1. CASE lease = s /\ run.open
    <3> DEFINE claims == {<<t, AfterClaim(run).agent[t]>> : t \in Claimed(run) \cup Missing}
    <3>1. PICK pc \in {"release", "spawn"} : Goto(s, [op[s] EXCEPT !.pc = pc, !.claims = claims])
      BY <1>5, <2>1 DEF Claim
    <3> DEFINE h == [op[s] EXCEPT !.pc = pc, !.claims = claims]
    <3>2. op'[s] = h
      BY <3>1, OtherHandlers
    <3>3. /\ \A t \in Claimed(run) : run.issued[t] < MaxIssue
          /\ run' = AfterClaim(run) /\ UNCHANGED <<agents, lease>> /\ op[s].pc = "claim"
      BY <1>5, <2>1 DEF Claim
    <3> HIDE DEF claims
    <3>4. /\ h.pc = pc /\ h.claims = claims /\ h.queue = op[s].queue
          /\ SameRequest(h, op[s])
      BY <1>0 DEF Handler, SameRequest
    <3> HIDE DEF h
    <3>5. Claims(s)
      BY <2>1, <3>2, <3>3, <3>4 DEF Claims, claims
    <3> QED
      BY <3>5
  <2>2. CASE ~(lease = s /\ run.open)
    <3>1. /\ op'[s] = [op[s] EXCEPT !.pc = "release", !.queue = NoQueue]
          /\ op[s].pc = "claim" /\ lease' = lease
      BY <1>5, <2>2, OtherHandlers DEF Claim
    <3> QED
      BY <1>2, <3>1 DEF Leaves
  <2> QED
    BY <2>1, <2>2
<1>6. CASE SpawnCheck(s) \/ SpawnWrite(s) \/ SpawnFail(s)
  <2>1. /\ op[s].pc = "spawn" /\ lease' = lease
        /\ \E a : op'[s] \in {AfterSpawn(op[s], a), [op[s] EXCEPT !.pc = "spawnWrite"]}
        \/ /\ op[s].pc = "spawnWrite" /\ lease' = lease
           /\ \E a : op'[s] \in {AfterSpawn(op[s], a), [op[s] EXCEPT !.pc = "rollback"]}
    BY <1>6, OtherHandlers DEF SpawnCheck, SpawnWrite, SpawnFail
  <2>2. ASSUME NEW a, op'[s] = AfterSpawn(op[s], a),
               op[s].pc \in {"spawn", "spawnWrite"}, lease' = lease
        PROVE  Spawns(s)
    BY <1>3, <2>2 DEF Spawns
  <2>3. ASSUME NEW pc, op'[s] = [op[s] EXCEPT !.pc = pc], lease' = lease,
               \/ op[s].pc = "spawn" /\ pc = "spawnWrite"
               \/ op[s].pc = "spawnWrite" /\ pc = "rollback"
        PROVE  Spawns(s)
    BY <1>0, <2>3, NextPhase DEF Spawns, SameClaims
  <2> QED
    BY <2>1, <2>2, <2>3
<1>7. CASE Rollback(s)
  <2>1. /\ op'[s] = [op[s] EXCEPT !.pc = "release", !.queue = NoQueue]
        /\ op[s].pc = "rollback" /\ lease' = lease
    BY <1>7, OtherHandlers DEF Rollback
  <2> QED
    BY <1>2, <2>1 DEF Leaves
<1>8. CASE Release(s)
  BY <1>0, <1>8, HandlerShapes, OtherHandlers DEF Release, Rests
<1> QED
  BY <1>4, <1>5, <1>6, <1>7, <1>8

LEMMA HandlerMoves ==
  ASSUME TypeOK, [Next]_vars, NEW x \in Supervisor
  PROVE  \/ op'[x] = op[x]
         \/ Rests(x) \/ Collects(x) \/ Prepares(x) \/ Proceeds(x)
         \/ Locks(x) \/ Claims(x) \/ Spawns(x) \/ Leaves(x)
<1>0. op \in [Supervisor -> Handler] /\ Idle \in Handler
  BY IdleHandler DEF TypeOK
<1>1. ASSUME NEW s \in Supervisor, Start(s) \/ Step(s) \/ Crash(s)
      PROVE  \E o : Goto(s, o)
  <2>1. CASE Start(s)
    BY <2>1 DEF Start, StartUpdate, StartRecover, StartResolve, StartClose, StartAdvance,
                StartCycle, Begin
  <2>2. CASE CycleNext(s) \/ Persist(s) \/ Close(s) \/ AgentCheck(s) \/ AgentWrite(s)
    BY <2>2 DEF CycleNext, Persist, Close, AgentCheck, AgentWrite
  <2>3. CASE Acquire(s) \/ Claim(s) \/ SpawnCheck(s) \/ SpawnWrite(s)
    BY <2>3 DEF Acquire, Claim, SpawnCheck, SpawnWrite
  <2>4. CASE SpawnFail(s) \/ Rollback(s) \/ Release(s) \/ Crash(s)
    BY <2>4 DEF SpawnFail, Rollback, Release, Crash
  <2> QED
    BY <1>1, <2>1, <2>2, <2>3, <2>4 DEF Step
<1>2. ASSUME NEW s \in Supervisor, Start(s) \/ Step(s) \/ Crash(s), s # x
      PROVE  op'[x] = op[x]
  BY <1>0, <1>1, <1>2, OtherHandlers
<1>3. CASE Start(x)
  BY <1>0, <1>3, StartMoves
<1>4. CASE Step(x)
  BY <1>0, <1>4, WritingMoves, SchedulerMoves DEF Step
<1>5. CASE Crash(x)
  BY <1>0, <1>5, HandlerShapes, OtherHandlers DEF Crash, Rests
<1>6. CASE Expire \/ (\E a \in AgentId : AgentReport(a)) \/ UNCHANGED vars
  BY <1>6 DEF Expire, AgentReport, vars
<1> QED
  BY <1>2, <1>3, <1>4, <1>5, <1>6 DEF Next

----------------------------------------------------------------------------
(* Who brings agents up: the ids of a claim are fresh, and as long as a       *)
(* lease outlasts the scheduler that holds it, nobody else touches them.      *)

\* A task that waits names no agent: update_task, recover_task, resolve_blocker
\* and the rollback all clear it.
PendingFree == \A t \in Task : run.st[t] = "pending" => run.agent[t] = 0

\* Agent ids in use were drawn from the run.
IdsDrawn ==
    /\ \A t \in Task : run.agent[t] <= run.issued[t]
    /\ \A a \in AgentId : agents[a] # "absent" => a[2] <= run.issued[a[1]]
    /\ \A s \in Supervisor : \A a \in op[s].claims : a[2] <= run.issued[a[1]]

DrawnInv == IInv /\ PendingFree /\ IdsDrawn

LEMMA IssuedGrows ==
  ASSUME IInv, [Next]_vars, NEW t \in Task
  PROVE  /\ run.issued[t] \in Nat /\ run'.issued[t] \in Nat
         /\ run.issued[t] <= run'.issued[t]
<1>1. run.issued[t] \in 0..MaxIssue /\ run'.issued[t] \in 0..MaxIssue
  BY NextTyped DEF IInv, TypeOK, Run
<1>2. run'.issued[t] \in {run.issued[t], run.issued[t] + 1}
  <2>1. CASE Stays(t) \/ Unblocks(t)
    BY <2>1 DEF Stays, Unblocks
  <2>2. ASSUME NEW s \in Supervisor, Starts(s, t) \/ Returns(s, t) \/ Ends(s, t)
        PROVE  run'.issued[t] \in {run.issued[t], run.issued[t] + 1}
    BY <2>2 DEF Starts, Returns, Ends
  <2> QED
    BY <2>1, <2>2, TaskMoves
<1>3. \A n \in 0..MaxIssue : n \in Nat
  BY RunAssumption
<1> QED
  BY <1>1, <1>2, <1>3

LEMMA DrawnStays == ASSUME DrawnInv, [Next]_vars PROVE PendingFree' /\ IdsDrawn'
<1>0. /\ IInv /\ TypeOK /\ TypeOK' /\ op \in [Supervisor -> Handler]
      /\ \A t \in Task : run.agent[t] \in Nat /\ run.issued[t] \in Nat
  BY NextTyped, RunAssumption DEF DrawnInv, IInv, TypeOK, Run
<1>1. ASSUME NEW t \in Task
      PROVE  /\ run'.st[t] = "pending" => run'.agent[t] = 0
             /\ run'.agent[t] <= run'.issued[t]
  <2>1. /\ run.st[t] = "pending" => run.agent[t] = 0
        /\ run.agent[t] <= run.issued[t]
    BY DEF DrawnInv, PendingFree, IdsDrawn
  <2>2. CASE Stays(t) \/ Unblocks(t)
    BY <1>0, <2>1, <2>2 DEF Stays, Unblocks
  <2>3. ASSUME NEW s \in Supervisor, Starts(s, t) \/ Returns(s, t) \/ Ends(s, t)
        PROVE  /\ run'.st[t] = "pending" => run'.agent[t] = 0
               /\ run'.agent[t] <= run'.issued[t]
    BY <1>0, <2>1, <2>3 DEF Starts, Returns, Ends
  <2> QED
    BY <1>0, <2>2, <2>3, TaskMoves
<1>2. PendingFree' /\ \A t \in Task : run'.agent[t] <= run'.issued[t]
  BY <1>1 DEF PendingFree
<1>3. ASSUME NEW a \in AgentId, a[2] <= run.issued[a[1]]
      PROVE  a[2] <= run'.issued[a[1]]
  <2>1. a[1] \in Task /\ a[2] \in Nat
    BY DEF AgentId, Attempt
  <2> QED
    BY <1>0, <1>3, <2>1, IssuedGrows
<1>4. ASSUME NEW a \in AgentId, agents'[a] # "absent" PROVE a[2] <= run'.issued[a[1]]
  <2>1. agents[a] # "absent" \/ \E s \in Supervisor : a \in op[s].claims
    BY <1>0, <1>4, AgentMoves DEF Unspawned
  <2> QED
    BY <1>3, <2>1 DEF DrawnInv, IdsDrawn
<1>5. ASSUME NEW x \in Supervisor, NEW a \in op'[x].claims PROVE a[2] <= run'.issued[a[1]]
  <2>1. CASE op'[x].claims \subseteq op[x].claims
    <3>1. a \in AgentId /\ a[2] <= run.issued[a[1]]
      BY <1>0, <1>5, <2>1 DEF DrawnInv, IdsDrawn, Handler
    <3> QED
      BY <1>3, <3>1
  <2>2. CASE Claims(x)
    <3>1. PICK t \in Task : a = <<t, run'.agent[t]>>
      BY <1>5, <2>2 DEF Claims, Claimed, Ready, Missing
    <3> QED
      BY <1>2, <3>1
  <2> QED
    BY <1>0, <2>1, <2>2, HandlerMoves
    DEF Rests, Collects, Prepares, Proceeds, Locks, Spawns, Leaves, Resting, SameClaims
<1> QED
  BY <1>2, <1>4, <1>5 DEF IdsDrawn

LEMMA InitDrawn == ASSUME Init PROVE PendingFree /\ IdsDrawn
<1>1. PICK inBounds \in [Task -> BOOLEAN] : run = Created(inBounds)
  BY DEF Init
<1>2. /\ run.agent = [t \in Task |-> 0] /\ run.issued = [t \in Task |-> 0]
      /\ \A a \in AgentId : agents[a] = "absent"
  BY <1>1 DEF Created, Init
<1>3. \A s \in Supervisor : op[s].claims = {}
  <2>1. \A s \in Supervisor : op[s] \in {Scheduling(Idle, FALSE), Idle}
    BY DEF Init
  <2>2. Scheduling(Idle, FALSE).claims = {} /\ Idle.claims = {}
    BY DEF Scheduling, Idle
  <2> QED
    BY <2>1, <2>2
<1> QED
  BY <1>2, <1>3 DEF PendingFree, IdsDrawn

LEMMA DrawnInvariant == Spec => []DrawnInv
<1>1. Init => PendingFree /\ IdsDrawn
  BY InitDrawn
<1>2. IInv /\ PendingFree /\ IdsDrawn /\ [Next]_vars => PendingFree' /\ IdsDrawn'
  BY DrawnStays DEF DrawnInv
<1> QED
  BY <1>1, <1>2, StoreInvariant, PTL DEF Spec, DrawnInv

\* A scheduler holds the lease from its claims to its release.
LeaseHeld == \A s \in Supervisor : op[s].pc \in Holding => lease = s

\* From the claim until its own upsert an agent is missing from the agents'
\* file; when a spawn has failed, the one it was about may be there.
Spawning(s) == op[s].pc \in {"spawn", "spawnWrite", "rollback"}

ClaimsAbsent ==
    \A s \in Supervisor : Spawning(s) =>
        \A a \in Unspawned(s) :
            \/ agents[a] = "absent"
            \/ op[s].pc = "rollback" /\ Current(op[s], a)

SpawnInv == DrawnInv /\ LeaseHeld /\ ClaimsAbsent

\* Only its holder gives up a lease that does not lapse.
LEMMA LeaseMoves ==
  ASSUME TypeOK, [Next]_vars, LeaseMayLapse = FALSE, NEW x \in Supervisor, lease = x
  PROVE  lease' = x \/ op'[x].pc \notin Holding
<1>0. /\ op \in [Supervisor -> Handler] /\ Idle \in Handler
      /\ x # Nobody /\ x # Orphan
  BY IdleHandler, StoreAssumption DEF TypeOK
<1>1. ASSUME NEW s \in Supervisor, Start(s) PROVE lease' = lease
  BY <1>1 DEF Start, StartUpdate, StartRecover, StartResolve, StartClose, StartAdvance,
              StartCycle, Begin
<1>2. ASSUME NEW s \in Supervisor,
             \/ CycleNext(s) \/ Persist(s) \/ Close(s) \/ AgentCheck(s) \/ AgentWrite(s)
             \/ Claim(s) \/ SpawnCheck(s) \/ SpawnWrite(s) \/ SpawnFail(s) \/ Rollback(s)
      PROVE  lease' = lease
  BY <1>2 DEF CycleNext, Persist, Close, AgentCheck, AgentWrite, Claim, SpawnCheck,
              SpawnWrite, SpawnFail, Rollback
<1>3. ASSUME NEW s \in Supervisor, Acquire(s) PROVE lease' = lease
  BY <1>0, <1>3 DEF Acquire
<1>4. ASSUME NEW s \in Supervisor, Release(s) \/ Crash(s)
      PROVE  lease' = x \/ op'[x].pc \notin Holding
  <2>1. CASE s = x
    <3>1. op'[x] \in {Continue(op[x]), Idle}
      BY <1>0, <1>4, <2>1, OtherHandlers DEF Release, Crash
    <3> QED
      BY <1>0, <3>1, HandlerShapes DEF Resting, Holding
  <2>2. CASE s # x
    BY <1>4, <2>2 DEF Release, Crash
  <2> QED
    BY <2>1, <2>2
<1>5. ASSUME Expire \/ (\E a \in AgentId : AgentReport(a)) \/ UNCHANGED vars
      PROVE  lease' = lease
  BY <1>0, <1>5 DEF Expire, AgentReport, vars
<1> QED
  BY <1>1, <1>2, <1>3, <1>4, <1>5 DEF Next, Step

LEMMA LeaseStaysHeld ==
  ASSUME SpawnInv, [Next]_vars, LeaseMayLapse = FALSE PROVE LeaseHeld'
<1>0. TypeOK
  BY DEF SpawnInv, DrawnInv, IInv
<1> SUFFICES ASSUME NEW x \in Supervisor, op'[x].pc \in Holding PROVE lease' = x
  BY DEF LeaseHeld
<1>1. op[x].pc \in Holding => lease = x
  BY DEF SpawnInv, LeaseHeld
<1>2. CASE op'[x] = op[x]
  BY <1>0, <1>1, <1>2, LeaseMoves
<1>3. CASE Rests(x) \/ Collects(x) \/ Prepares(x) \/ Proceeds(x)
  BY <1>3 DEF Rests, Collects, Prepares, Proceeds, Resting, Holding
<1>4. CASE Locks(x) \/ Claims(x)
  BY <1>4 DEF Locks, Claims
<1>5. CASE Spawns(x) \/ Leaves(x)
  BY <1>1, <1>5 DEF Spawns, Leaves, Holding
<1> QED
  BY <1>0, <1>2, <1>3, <1>4, <1>5, HandlerMoves

\* A claim takes ids that nobody has used, or tasks whose agent is missing.
LEMMA ClaimedAreAbsent ==
  ASSUME DrawnInv, NEW x \in Supervisor, Claims(x), NEW a \in op'[x].claims
  PROVE  agents[a] = "absent"
<1>0. run \in Run
  BY DEF DrawnInv, IInv, TypeOK
<1>1. PICK t \in Claimed(run) \cup Missing : a = <<t, AfterClaim(run).agent[t]>>
  BY DEF Claims
<1>2. t \in Task /\ (t \in Claimed(run) => run.st[t] = "pending")
  BY DEF Claimed, Ready, Missing
<1>3. AfterClaim(run).agent[t] =
        IF t \in Claimed(run) /\ run.agent[t] = 0 THEN run.issued[t] + 1 ELSE run.agent[t]
  BY <1>0, <1>2 DEF AfterClaim, Run
<1>4. CASE t \in Claimed(run)
  <2>1. a = <<t, run.issued[t] + 1>>
    BY <1>1, <1>2, <1>3, <1>4 DEF DrawnInv, PendingFree
  <2>2. a \in AgentId
    BY <1>0, <1>1, <1>4, ClaimsTyped DEF Claims, Claimed, Ready
  <2>3. run.issued[t] \in Nat
    BY <1>0, <1>2, RunAssumption DEF Run
  <2> QED
    BY <2>1, <2>2, <2>3 DEF DrawnInv, IdsDrawn
<1>5. CASE t \notin Claimed(run)
  BY <1>1, <1>3, <1>5 DEF Missing
<1> QED
  BY <1>4, <1>5

LEMMA ClaimsStayAbsent == ASSUME SpawnInv, [Next]_vars PROVE ClaimsAbsent'
<1>0. /\ DrawnInv /\ TypeOK /\ op \in [Supervisor -> Handler]
      /\ TypeOK'
  BY NextTyped DEF SpawnInv, DrawnInv, IInv, TypeOK
<1> SUFFICES ASSUME NEW x \in Supervisor, Spawning(x)', NEW a \in Unspawned(x)'
             PROVE  agents'[a] = "absent" \/ (op'[x].pc = "rollback" /\ Current(op'[x], a))
  BY DEF ClaimsAbsent
<1>1. a \in AgentId /\ a \in op'[x].claims /\ a \notin op'[x].spawned
  BY <1>0 DEF Unspawned, TypeOK, Handler
<1>2. CASE Claims(x)
  BY <1>0, <1>1, <1>2, ClaimedAreAbsent DEF Claims
<1>3. CASE op'[x] = op[x] \/ Spawns(x)
  <2>1. Spawning(x) /\ a \in Unspawned(x)
    BY <1>1, <1>3 DEF Spawning, Unspawned, Spawns
  <2>2. lease = x
    BY <2>1 DEF SpawnInv, LeaseHeld, Spawning, Holding
  <2>3. CASE agents[a] = "absent"
    <3>1. ASSUME NEW s \in Supervisor, op[s].pc = "spawnWrite",
                 a \in op'[s].spawned \/ (op'[s].pc = "rollback" /\ Current(op'[s], a))
          PROVE  op'[x].pc = "rollback" /\ Current(op'[x], a)
      <4>1. s = x
        BY <2>2, <3>1 DEF SpawnInv, LeaseHeld, Holding
      <4> QED
        BY <1>1, <3>1, <4>1
    <3> QED
      BY <1>0, <1>1, <2>3, <3>1, AgentMoves
  <2>4. CASE agents[a] # "absent"
    <3>1. op[x].pc = "rollback" /\ Current(op[x], a)
      BY <2>1, <2>4 DEF SpawnInv, ClaimsAbsent
    <3> QED
      BY <1>3, <3>1 DEF Spawns
  <2> QED
    BY <2>3, <2>4
<1>4. CASE Rests(x) \/ Collects(x) \/ Prepares(x) \/ Proceeds(x) \/ Locks(x) \/ Leaves(x)
  BY <1>4 DEF Rests, Collects, Prepares, Proceeds, Locks, Leaves, Resting, Spawning
<1> QED
  BY <1>0, <1>2, <1>3, <1>4, HandlerMoves

LEMMA SpawnInvariant == ASSUME LeaseMayLapse = FALSE PROVE Spec => []SpawnInv
<1>1. Init => LeaseHeld /\ ClaimsAbsent
  <2> SUFFICES ASSUME Init PROVE LeaseHeld /\ ClaimsAbsent
    OBVIOUS
  <2>1. \A s \in Supervisor : op[s] \in {Scheduling(Idle, FALSE), Idle}
    BY DEF Init
  <2>2. Scheduling(Idle, FALSE).pc = "acquire" /\ Idle.pc = "idle"
    BY DEF Scheduling, Idle
  <2>3. \A s \in Supervisor : op[s].pc \notin Holding /\ ~Spawning(s)
    BY <2>1, <2>2 DEF Holding, Spawning
  <2> QED
    BY <2>3 DEF LeaseHeld, ClaimsAbsent
<1>2. DrawnInv /\ LeaseHeld /\ ClaimsAbsent /\ [Next]_vars => LeaseHeld' /\ ClaimsAbsent'
  BY LeaseStaysHeld, ClaimsStayAbsent DEF SpawnInv
<1> QED
  BY <1>1, <1>2, DrawnInvariant, PTL DEF Spec, SpawnInv

LEMMA EndedStays ==
  ASSUME SpawnInv, [Next]_vars, NEW a \in AgentId, agents[a] \in Terminal
  PROVE  agents'[a] \in Terminal
<1>1. TypeOK
  BY DEF SpawnInv, DrawnInv, IInv
<1>2. ASSUME NEW s \in Supervisor, op[s].pc = "spawnWrite", a \in Unspawned(s) PROVE FALSE
  BY <1>2 DEF SpawnInv, ClaimsAbsent, Spawning, Terminal
<1> QED
  BY <1>1, <1>2, AgentMoves

\* Between the get_agent of a scheduler and its upsert no other scheduler
\* brings the same agent up: where no lease lapses under a living scheduler, an
\* agent that has ended is never set running again, whatever else goes on.
THEOREM EndedAgentsAreNotRevived ==
  ASSUME LeaseMayLapse = FALSE PROVE Spec => EndedAgentsStayEnded
<1>1. SpawnInv /\ [Next]_vars =>
        \A a \in AgentId : agents[a] \in Terminal => agents'[a] # "running"
  BY EndedStays DEF Terminal
<1> QED
  BY <1>1, SpawnInvariant, PTL DEF Spec, EndedAgentsStayEnded

\* However many agents a schedule brings up, and whichever spawn of them raises
\* before or after its upsert: a rollback takes a task from an agent that is up
\* only when it is that agent's own spawn that raised, where no lease lapses
\* under a living scheduler.
THEOREM RollbacksSpareSpawned ==
  ASSUME LeaseMayLapse = FALSE PROVE Spec => RollbackSparesSpawned
<1>1. ASSUME SpawnInv, [Next]_vars, NEW t \in Task,
             run.st[t] = "running", run'.st[t] = "pending",
             run'.retries[t] = run.retries[t],
             agents[<<t, run.agent[t]>>] # "absent"
      PROVE  \E s \in Supervisor :
                op[s].pc = "rollback" /\ Current(op[s], <<t, run.agent[t]>>)
  <2>1. IInv
    BY <1>1 DEF SpawnInv, DrawnInv
  <2>2. run.retries[t] \in Nat
    BY <2>1 DEF IInv, TypeOK, Run
  <2>3. ~Stays(t) /\ ~Unblocks(t)
    BY <1>1 DEF Stays, Unblocks
  <2>4. ASSUME NEW s \in Supervisor PROVE ~Starts(s, t) /\ ~Ends(s, t)
    BY <1>1, <2>2 DEF Starts, Ends
  <2>5. PICK s \in Supervisor : Returns(s, t)
    BY <1>1, <2>1, <2>3, <2>4, TaskMoves
  <2> QED
    BY <1>1, <2>5 DEF SpawnInv, ClaimsAbsent, Spawning, Returns
<1>2. SpawnInv /\ [Next]_vars =>
        \A t \in Task :
            LET a == <<t, run.agent[t]>> IN
            (/\ run.st[t] = "running" /\ run'.st[t] = "pending"
             /\ run'.retries[t] = run.retries[t]
             /\ agents[a] # "absent")
                => \E s \in Supervisor : op[s].pc = "rollback" /\ Current(op[s], a)
  BY <1>1
<1> QED
  BY <1>2, SpawnInvariant, PTL DEF Spec, RollbackSparesSpawned

\* An agent that its task has moved on from, with or without word from it, is
\* never named again: what a run names anew was never in the agents' file,
\* whatever version of the run the writer had read.
THEOREM AgentsAreNeverRenamed == Spec => AgentsAreNotRenamed
<1>1. ASSUME DrawnInv, [Next]_vars, NEW t \in Task,
             run'.agent[t] \notin {0, run.agent[t]}
      PROVE  agents[<<t, run'.agent[t]>>] = "absent"
  <2>1. IInv /\ run \in Run /\ run' \in Run
    BY <1>1, NextTyped DEF DrawnInv, IInv, TypeOK
  <2>2. ~Stays(t) /\ ~Unblocks(t)
    BY <1>1 DEF Stays, Unblocks
  <2>3. ASSUME NEW s \in Supervisor PROVE ~Returns(s, t) /\ ~Ends(s, t)
    BY <1>1 DEF Returns, Ends
  <2>4. PICK s \in Supervisor : Starts(s, t)
    BY <1>1, <2>1, <2>2, <2>3, TaskMoves
  <2>5. run'.agent[t] = run.issued[t] + 1
    BY <1>1, <2>4 DEF Starts
  <2>6. run.issued[t] \in Nat /\ run'.agent[t] \in 0..MaxIssue
    BY <2>1, RunAssumption DEF Run
  <2>7. <<t, run'.agent[t]>> \in AgentId
    BY <1>1, <2>6, RunAssumption DEF AgentId, Attempt
  <2>8. ~(run'.agent[t] <= run.issued[t])
    BY <2>5, <2>6
  <2> QED
    BY <1>1, <2>7, <2>8 DEF DrawnInv, IdsDrawn
<1>2. DrawnInv /\ [Next]_vars =>
        \A t \in Task :
            run'.agent[t] \notin {0, run.agent[t]}
                => agents[<<t, run'.agent[t]>>] = "absent"
  BY <1>1
<1> QED
  BY <1>2, DrawnInvariant, PTL DEF Spec, AgentsAreNotRenamed
=============================================================================
