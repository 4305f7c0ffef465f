# A verification project for DGentic

DGentic is a backend for teams of software agents: it turns a goal into a graph of tasks, brings
up agents for the tasks that are ready, records what they report, and guards what they may execute
behind policies and approvals. It is a Python program that keeps nearly all of its state in JSON
files under one data directory. Several backend processes may share that directory, and each runs
background threads besides its requests. This directory holds TLA+ models of the parts of the
program where that is hard, TLC instances that check them, and TLAPS proofs about them.

Paths below are relative to `src/src/dgentic/` unless they say otherwise.

## 1. The system

### Components, their state and their operations

| component | source | state | operations | modelled in |
|---|---|---|---|---|
| JSON collections | `storage.py` | a file of records, quarantined copies, a lock file, a thread lock | list, get, upsert, update, transact, restore_quarantine | `JsonStore` |
| run record | `orchestration.py` | tasks, blockers, follow-ups, evidence, status of one run | create, update, recover, resolve, close, claim, roll back | `RunRecord` |
| run store | `orchestration.py`, `agents.py` | run, agent and lease files | update_task, recover_task, resolve_blocker, close_run, advance_run, run_cycle | `RunStore` |
| background executions | `orchestration.py`, `main.py` | execution and lease files, worker and heartbeat threads | start, list/status, cancel, reconcile, adopt on startup, loop, finalize | `BackgroundExecution` |
| async command runs | `cli_runtime.py` | run file, child processes, waiter and reader threads | start, output, cancel, reconcile on startup, finalize | `CliRuns` |
| approvals (five stores) | `cli_runtime.py`, `tool_runtime.py`, `guardrails.py`, `network_policy.py`, `provider_runtime.py` | pending, approved, denied, executed, expired records | request, approve, deny, expire, claim | `Approvals`, `ApprovalLedger`, and each store in the module of its gate |
| task context | `orchestration.py` and the gates | what a running task lets its agent do | verdict | `TaskContext` |
| hook rules | `hook_policy.py` | rules of operators, of plugins, of the managed policy | create, update, install, disable, decide | `HookPolicy` |
| files | `guardrails.py` | the tree, approvals | decide, approve, every file action | `FileGate` |
| commands | `command_policy.py`, `cli_runtime.py` | rules, approvals, runs | classify, request, approve, execute | `CommandPolicy`, `CommandGate` |
| network | `network_policy.py` | domain rules, approvals | decide, request, approve, claim | `NetworkGate` |
| provider calls | `provider_runtime.py`, `provider_policy.py`, `provider_transport.py` | approvals, circuits in memory | generate, stream, retry, break, probe | `ProviderGate` |
| generated tools | `tools/`, `tool_runtime.py` | files, manifests with usage counters, SQL rows, approvals | generate, execute, record, disable, deprecate, govern | `ToolGate` |
| operators and tokens | `auth.py` | operators, groups, tokens | create, update, issue, use, rotate, revoke, expire | `AuthTokens` |
| plugins and recipes | `plugins.py`, `command_recipes.py` | trust, recipes, reference components, hook rules | trust, install, disable, check, run | `Plugins` |
| git workflows | `git_workflows.py` | none of its own: the repository, a checkpoint digest | checkpoint, commit, push, pull request | `GitWorkflows` |
| the rest | project activation, credentials, memory, settings, redaction, routing, pricing, web retrieval, documents, planner, events, sessions, database, routes, web console | | | not modelled: section 6 |

`memory.py` and `tools.py` are shadowed by the packages of the same names and never run.

### How they interact

- Everything persistent goes through `JsonCollection`: a call locks the thread lock of its process
  and then `flock`s the lock file, loads the file, changes the items and renames a new file over it.
  *One* call is therefore atomic. What a service does with *two* calls is not, unless it uses
  `update` or `transact`, or compares before it writes. `JsonStore` establishes the first sentence;
  the other modules take it for granted and put a gap between any two calls.
- The HTTP middleware (`main.py:56`) serves the requests of a process one after the other. In one
  process, then, only worker, heartbeat and reader threads run beside the current request; two
  *requests* race only when two processes share the data directory.
- The mutating methods of `OrchestrationService` and the loop of a worker hold the process's
  `_mutation_lock` (`orchestration.py:112`); cancel, list, get and reconcile do not.
- Whoever schedules a run, in the foreground or in a background worker, holds the run's *scheduler
  lease*, a record with a token and a time to live of 300 seconds. It is what excludes processes
  from each other, and it can lapse while its holder still works.
- Agents are records; they report completed, failed or cancelled through the API, and `run_cycle`
  collects the reports into task updates.
- The gates (files, commands, provider calls, tools, network) decide alike: a policy of their own, the
  task that the caller names, and last the hook rules, which only tighten. What is then neither
  allowed nor blocked needs an approval: a record bound to a digest of the request, the decision and
  what the gate looked at. A provider call or a tool that reaches the network claims a second
  approval, of the network, on its way.
- Plugins put recipes and hook rules into the collections of others; the trust they are given is
  bound to the digest of their manifest, and each recipe to that of its file.

### What is hard

Interleavings of processes at file granularity, with optimistic writers (`_upsert_if_progress_unchanged`)
and blind ones (`close_run`, the rollback) side by side; leases that lapse under a living holder;
processes that die between two writes; executions that a restarted process adopts while threads of
the old one may still be about; cancellation that races with completion; readers that quarantine a
file others are waiting for; approvals claimed after the policy, the task or the file they were bound
to has changed; readers that write back the copy of a token; streams that fail long after the circuit
they belong to has opened; trust that is withdrawn from what is installed already. The list, line by
line, is `hazards` in `PROJECT.json`; each entry names the properties that cover it, or says why none
does.

## 2. The modules

```
CollectionData --- Collection <=== JsonStore ------ MCJsonStore, JsonStoreProofs
RunRecord --- RunStore ===> TaskBoard               (===> : implements)
                 |-- MCRunStore
                 `-- RunStoreProofs  (cites TaskBoardProofs)
BackgroundExecution ===> ExecutionLifecycle
                 |-- MCBackgroundExecution
                 `-- ExecutionProofs  (cites ExecutionLifecycleProofs)
CliRuns --- MCCliRuns, CliRunsProofs

Approvals --- HookPolicy, TaskContext
                 |-- FileGate                        --.
                 |-- CommandPolicy --- CommandGate     |-- Gates ===> ApprovalLedger
                 |-- NetworkGate --- ProviderGate      |     `-- MCGates, GatesProofs
                 |            `----- ToolGate        --'
                 `-- Plugins --.
AuthTokens, GitWorkflows ------'-- Services --- MCServices, ServicesProofs
```

**`RunRecord`** is one `OrchestrationRun` as a value and the operators on it: `Created`, `Updated`
(completed / failed with retries / blocked), `Recovered`, `Resolved`, `Closed`, `AfterClaim`,
`RolledBack`, and what the code derives (`Ready`, `Signature`, `Closeable`). Tasks are positions of
the list. Agent ids are pairs of a task and the number of its claim, standing for uuids. Texts are
left out except evidence, which is kept because `close_run` replaces it. The severity "security" is
left out: no code creates it.

**`RunStore`** has the files as variables (`run`, `agents`, `lease`) and `op[s]`, the handler that
process `s` is in. A request reads and validates (`Start...`), and its write is a later action
(`Persist`, with the comparison of `_upsert_if_progress_unchanged`; `Close`, without). Scheduling is
`Acquire`, `Claim`, `SpawnCheck`, `SpawnWrite` for each claim, `Rollback` when a spawn raises, and
`Release`. `CycleNext` works off the reports that `StartCycle` collected, one optimistic write each.
`Crash`, `Expire` and `AgentReport` are the surroundings. `Cycler` are the processes that are asked for
cycles: `run_cycle` (`orchestration.py:328`) is refused only while a background execution of another
worker is active, so any process may be.

**`TaskBoard`** is what a run promises to someone who sees only the statuses: tasks are claimed in
dependency order, handed back, finished, retried, blocked, unblocked, and the board is closed when
all are completed. Its invariants `StartedInOrder` and `ClosedIsDone` are properties of every
implementation.

**`BackgroundExecution`** has the execution records, the lease and whether the run is open, and per
process the request being served and, per execution, the worker and the heartbeat thread. A start is
`Arrive`, `Reconcile`, `Check`, `Acquire`, `Claim`, then `Launch` or `GiveBack` or `Fail`;
cancelling is `ArriveCancel`, `ReadForCancel`, `Cancel`; a worker is `Begin`, `AcquireForWorker`,
`Mark`, `EnterLoop`, then rounds of `Prepare`, `Loop`, `Cycle`, and at the end `Finalize` and
`DropLease`; a heartbeat is `BeatRenew`, `BeatWrite`. `Startup` and `Adopt` are the constructor's
call of `resume_stale_background_executions`. Time is two possible events, `HeartbeatLapses` and
`LeaseLapses`; the flag `younger` of the lease tells which of the two must come first.

**`ExecutionLifecycle`** is what a client may rely on: at most one execution of a run is active, an
outcome is final, and an accepted cancellation is never answered by success or failure.

**`CliRuns`** is one command that is run asynchronously: its record `run`, its process `child`, the
owner's lists (`registered`, `flagged`), per process the request it serves with the copy of the record
it has read, and the owner's `waiter` and `reader` threads with theirs. A start is `Start`, `Launch` or
`LaunchFails`, `Register`, `Mark`, `Supervise`; from `Register` on it may also raise (`StartRaises`) and
leave a command without a waiter. A cancellation of an own child is `CancelOwn`, `Kill`,
`SaveCancelled`, of anybody else's `CancelOrphan`, `Terminate`, `MarkStale`, which is also what
`Startup` does with every run it finds pending. The waiter judges (`JudgeEnded`, or `JudgeOverdue`
with a `Note` in the output), waits two seconds for the readers, whether they have ended by then or not
(`Deregister`), and saves (`Finalize`, `FinalSave`); readers go on reading and saving beside it. A
run belongs to a process *and* the number of its life, for which the code draws a supervisor id; a
restarted process therefore treats its own runs like anybody's.

**`JsonStore`** has the collection file, the files set aside, the two locks and the call of each
thread: `Lock`, `FileLock`, `Load`, `Save`, `FileUnlock`, `Unlock`; `LoadDamaged` and `Repair` when the file is
unreadable; `ReadKept`, `RefuseRestore`, `MoveAside` for a restore; `Raise` from any of the
operations inside, `Crash` of a process. **`Collection`** is what it implements: atomic calls, and
contents that are set aside are not destroyed. **`CollectionData`** holds the calls both use.

**`Approvals`** has the record all five stores share and what may become of it. The code compares
digests of what a record is bound to; the model keeps the bound value and compares that.
**`ApprovalLedger`** is what an approval promises: it is answered once, used up once, and one
operation acts on it.

**`TaskContext`** keeps of the orchestration runs what the gates ask: which agent and role a task has,
whether it is running in an open run, and what it declares it writes. **`HookPolicy`** has the rules,
the order in which they are asked (managed ones first), the decision, and the edit of a rule, which
reads it in one call and saves it in another.

**`FileGate`** has a small tree of files with the time of the last modification, the approvals, and
per process the request it serves: `EvaluateFile`, then `ClaimFile` or `AdmitFile`, then the operation.
The operation is `PerformFile`, or `ClearTarget` and `TransferFile` where there is a target to clear first.
None of them is atomic on disk: for each action the model has the *set* of trees it may leave (`Outcomes`,
`Transfers`), the truncated file, the directory that is half deleted or half copied and the copy whose source
could not be removed among them. Other processes, commands that run and operators act in between.
**`CommandPolicy`** classifies a command, given as the tree the parser makes of it, by the operator's
and the managed rules, the built-in tables, its parts, its task and the hook rules. The scan of a script as one
text finds the first of its commands only, as `_shell_command_position_token_indexes` does; the others are
looked at as parts. **`CommandGate`** is the way of
a command from the request to the record of its run: `ExecuteCommand` or `ExecuteApproved` evaluates it,
`AuthorizeCommand` claims the approval, then `LaunchCommand`, `RecordRun`, `MarkExecuted`. Rules and tasks may change, and the
process may crash, between any two.
**`NetworkGate`** decides about hosts and has the network approvals. **`ProviderGate`** is a call or stream:
`BeginCall`, `PassCircuit`, `AuthorizeCall`, `ClaimProvider`, `ClaimCallNetwork`, `SendCall` for
each attempt, `EndStream`; and the circuit of one endpoint per process. **`ToolGate`** has a
tool's files, manifest and row, written by `GenerateTool`, `WriteToolFiles`, `RegisterTool`,
`RegisterRow`, and a run with its claim, its network claim and the counters it records. Operators govern a tool by
reading its manifest and writing it back whole with any status (`ReadGovernance`, `GovernTool`), and clients
register manifests of their own over it, counters included (`CreateTool`).
**`Gates`** puts them side by side with the rules, tasks and network policy they share. The variable `gate` says
which of them a behaviour uses, since they have no state in common beyond those.

**`AuthTokens`** has the three collections of `auth.py` and what a worker has read and may still write
back. **`Plugins`** has a plugin's files on disk, which their author edits at any time, the trust
records, what is installed, and the request of each worker, which compares files and records one by one.
**`GitWorkflows`** has a repository with its remote, what the client has looked at, the approval
bound to it and the git command on its way, while developers and other clones go on working. A checkpoint
is what git could be made to print: each reading of the diff, the head, the upstream or the counts may come back as
nothing (`Optional`), since `_git_optional_output` swallows every failure, and nothing is then what the digest is taken of.
**`Services`** puts these three side by side; they share nothing.

Operators commented "Variant" are plausible mistakes in the code. They are not part of any
specification; each is paired in `PROJECT.json` with a property that detects it.

## 3. What TLC checks

| run | instance | properties | states, time |
|---|---|---|---|
| `RunStoreShared` | 2 processes, 2 tasks in a chain, every request, lapsing leases, failing spawns | type, `DependenciesRespected`, `BlockersMatchTasks`, `ClosedIsComplete`, `ClosedStaysClosed`, `AgentsAreNotRenamed`, `ImplementsTaskBoard` | 1.7 M, 220 s |
| `RunStoreLive` | 2 processes, one of which runs cycles, 2 tasks that are ready together, every request but updates by hand, spawns that raise before or after their write, a crash, fairness | `ClaimedTasksGetAgents`, `LeaseIsFreed`, `ReadyTasksStart`, `RollbackSparesSpawned`, `EndedAgentsStayEnded` | 219 k, 200 s |
| `ExecutionShared` | 2 processes, 2 executions, start / schedule / cancel, crash at any point | type, `RunningHasLease`, `LeaseIsNotForgotten`, `ImplementsLifecycle` | 603 k, 90 s |
| `ExecutionOverdue` | 2 slow processes, 1 execution, run may be closed | `OutcomeIsFenced` | 1.2 M, 110 s |
| `ExecutionLive` | 2 processes, 1 execution, crash, close, fairness | `ExecutionsEnd`, `LeaseIsFreed` | 60 k, 40 s |
| `CliRuns` | 2 processes, one dies and comes back, 2 pipes that may outlast the waiter, starts that raise, cancellation, fairness | type, `EndedRunsAreDead`, `OrphansAreReported`, `CommandsAreInReach`, `AppendsKeepOutput`, `RunsStayEnded` | 460 k, 105 s |
| `JsonStore` | 2 threads of one process, 1 of another, damage, failures, crashes | `LoadedIsCurrent`, `NoLockIsLeaked`, `ImplementsCollection` | 40 k, 20 s |
| `Gates` | each gate with the rules and tasks it shares: 2 processes for files, 2 calls, 1 approval per gate, production, fairness of calls | `ActsAsApproved`, `WrappingNeverWeakens`, `OpenNeedsFailures`, `ImplementsLedger`, `SourcesSurvive`, `CountsDisableFirst`, `ProbeIsReleased` | 544 k, 180 s |
| `Services` | 2 workers and 2 tokens; a plugin with recipes, or with hook rules; 2 branches and a remote | `ManagedNeverLoosened`, `RevocationIsFinal`, `RecipesRunAsShipped`, `ActsOnReviewed` | 953 k, 150 s |

Times are with 2 workers and coverage. What the properties say beyond the obvious:

- `ClosedStaysClosed` and `ClosedIsComplete` hold although `close_run` writes the run it validated
  without looking again, and although the optimistic comparison leaves the status of the run out:
  every other mutator needs a running or blocked task or an open blocker, and a closeable run has
  none, so the comparison fails for any write prepared before the run became closeable. With a
  comparison of fewer fields (variant `SignatureOfBlockers`) a closed run is changed.
- `ImplementsTaskBoard` says that each of the interleaved writes, the blind rollback included, is
  one legal move of the board.
- `RollbackSparesSpawned`: when one spawn of a schedule fails, the blind rollback takes back that claim and those
  it had not come to, and leaves alone what it has brought up. The exception it makes is real: a spawn
  whose event cannot be written raises *after* its agent was stored, and that agent loses its task. The run has two
  tasks that are ready together, so a schedule claims both, and either spawn may raise before or after its
  write. The property and `EndedAgentsStayEnded` are about schedulers that do not outlive their lease
  (`LeaseMayLapse`): one that does rolls back a claim for which its successor has brought the agent up.
- `AgentsAreNotRenamed` is what is left for agents when nothing is excluded. A task may come to have
  a second live agent: after such a spawn, after a lapsed lease, and after an update that has saved the run and
  dies before it ends the agent. What never happens is that a run names one of the older agents
  again, whatever version of it a handler still holds.
- Not stated, because it does not hold: that what is counted against a task is the report of its current agent.
  A cycle that has collected a failed report counts it against the *next* agent when an operator by hand, or
  a process whose cycle overlaps, has counted it meanwhile, or when the agent was replaced after a rollback: `_task_update_from_agent_status` is evaluated once for
  all tasks, and `update_task` checks only that the task is running. No document promises otherwise, so this
  is no finding; the hazard is listed with this note.
- `ImplementsLifecycle`, one active execution and `OutcomeIsFenced` are proved also for processes that
  outlast their leases (`Slow`), since finalization looks at status and owner in a transaction; the run with
  slow processes checks `OutcomeIsFenced`.
- `OutcomeIsFenced`: a process given up for dead that comes back late decides nothing about an
  execution that was taken over.
- `LeaseIsNotForgotten`: a lease nobody works under belongs to a dead process. The exemption in it is a
  real window: a process that dies between cancelling a starting execution and releasing its lease
  blocks scheduling for up to five minutes.
- `EndedRunsAreDead`: whatever copy is written by whichever thread or process, nobody is told of an
  outcome while the command still runs. `OrphansAreReported` is the other half: a command that escapes
  (its owner died before it saved the process id, or termination failed) is on record as such, whichever
  stale copy was written last, that of a reader which outlived the waiter included.
- `CommandsAreInReach` is about commands whose owner lives: a thread watches the command, or a client can still
  cancel it. When `Thread.start` or the event log raises in the middle of a start, the first half is
  gone, and it is the list of active processes that keeps the command in reach.
- `RunsStayEnded`: the many writes of old copies (the cancellation, the
  waiter's last save, a second process that takes a living owner's run for an orphan) may replace one
  final status by another, but do not leave a run pending for ever, with two exceptions named in
  `Unattended`, both of which are faults of the code while its owner lives. A start that raises leaves the run as it was. And a
  grandchild that holds a pipe for longer than the waiter's two seconds (`cli_runtime.py:1845`) leaves
  a reader whose late append writes the run back as running, for good. The property says that these are the
  only ones, and that in the second the command is dead.
- `AppendsKeepOutput`: as long as the waiter waits for them, readers and the waiter's note append under the lock,
  and take no chunk from each other. It says nothing of `SaveCancelled` and `FinalSave`, which are outside: a
  cancellation does take back chunks that were appended since it read the record, and so does the waiter once it has
  given up a reader.
- `ImplementsLedger`: every approval of every gate goes once from pending to approved or denied, once
  from approved to executed, and at most one operation acts on it, although three stores claim in
  a transaction and two under a lock of one process, and although processes die anywhere.
- `ActsAsApproved`: what goes ahead in production is the very request and decision that was approved,
  on a record that is used up and that nothing else goes ahead on. Rules, tasks, credentials and files
  change between the decision, the approval, the claim and the act.
- `WrappingNeverWeakens`: putting a command into a script, a prefix or a substitution does not make its
  decision milder, whatever rules operators have made. The scan of the whole text does not see to that, since it looks
  at the first command only (`command_policy.py:1891`); the look at each part does. There are two exemptions. A script that
  mentions the program's own state files is asked about before its parts are looked at
  (`command_policy.py:843`), so a part that is blocked on its own is then put up for approval. And a
  shell inside another shell's script needs no approval when an operator's rule vouches for all of its text
  (`command_policy.py:953`): with a rule that calls whatever contains `changer` safe, `bash -c "changer; reader"`
  waits for an approval on its own, because of the list, but not as the only command of another `bash -c`.
- `SourcesSurvive`: whichever of its calls a file operation fails at, and whatever others do to both places meanwhile, a
  move or rename gives up its source only when that has arrived as a whole, and nothing changes that the
  operation does not name. What it does not promise is the target, and the code does not keep it: an
  overwrite clears its target first (`guardrails.py:1158`), so an operation that fails afterwards has lost it, and
  a write that fails midway leaves a truncated file. The run has a write and an overwriting move of a directory;
  copies, deletions and renames are covered by the theorem.
- `OpenNeedsFailures`, `ProbeIsReleased`: the breaker opens only after enough failures with no
  success since, the probe's latch is held by a call that is on its way, and it is let go whichever way that call ends.
  With a latch that is only let go on failures of the provider (variant `AfterFailureLatched`) a
  probe that fails for another reason, such as a missing approval, would shut the endpoint off until the process restarts.
- `CountsDisableFirst`: the failures of a tool disable it before they could deprecate it, unless an operator makes
  it active again or registers a manifest in between. An operator may deprecate a tool outright; this
  is about the counting. Neither side compares before it writes back: a change of the governance can
  undo the counts of a run, and a run the change, which the property survives and nothing in the code prevents.
- `ManagedNeverLoosened`: no rule of an operator or a plugin hides a managed one. It is about managed
  rules only: plugin and local rules share a rank, so a plugin's rule that audits, with a smaller
  priority number, does hide a local rule that blocks.
- `RevocationIsFinal`: a reader that saw a token past its expiry writes back its own copy, over a
  revocation or a rotation; the token stays bad all the same, and gets no second successor.
- `RecipesRunAsShipped`: what a plugin's recipe runs is what its file says when it is checked, through
  edits of the files, new installations and withdrawn trust. Installed hook rules are not compared again.
- `ActsOnReviewed` has two halves. When nothing has moved between the last comparison and the command, a commit or push
  does what was reviewed, as far as git could read it: the branch and the paths always, the head and the content
  where they could be read. A staged diff that git cannot print, or that is not UTF-8, is digested
  as the empty text, and another content of the same paths then passes for it; the check for secrets does not see it
  either. When something *has* moved, which no lock prevents, a commit still only adds to local history, nothing others have pushed is
  lost, and the runner changes no remote branch but the one reviewed, and none that is protected. The plain
  `git push` of an approved command goes to the upstream of whatever branch is checked out by then.

### Where the code does not do what its documents say

Each is a run that must end in a counterexample (`findings` in `PROJECT.json`, with the quotations).

| run | what TLC shows |
|---|---|
| `ExecutionAdoption` | a process dies while its lease is younger than its last heartbeat: the restarted process adopts the execution, finds the lease still held and fails the execution it came to resume |
| `CliRunsCancelRace` | one process: a cancellation that comes after the waiter has judged the run, and before it has taken it off the active processes, is recorded and answered as cancelled; the waiter then saves completed |
| `ProviderProbe` | one process: a stream begun before the circuit opened fails while the half-open probe is on its way; it takes the probe's latch away, and after the next cooldown a second probe starts beside the first |

Noticed and modelled, but not stated as a run: of two close requests in two processes the second
replaces evidence and times of the run that the first has closed. And `spawn_agent` writes an event
after the agent; if the event file cannot be written, the claim is rolled back and the agent lives
on. `AuditMayFail` of both `RunStore` runs includes it, and the task board does not notice.

A crash in the middle of `restore_quarantine` leaves the collection empty; its items
survive, but in a `pre-restore` file that `list_quarantined_files` does not offer. `Collection` allows
that (`SetAside`). A crash of a tool's generation after its files are written leaves the new source under the old
manifest. A provider approval is spent also when the network claim after it fails. Making a tool
active again does not reset the mark that its row is deprecated, so it still does not run.

### Bounds

| constant | meaning | value and why it is enough |
|---|---|---|
| `TaskCount`, `Deps` | the graph | a chain of 2 has a dependency to break; the proofs cover every graph |
| `RetryLimit` | retries | 0 and 1: retried, and exhausted |
| `MaxIssue` | claims of a task | 2: an agent, and the one after it |
| `Cycler` | processes that run cycles | both in `RunStoreShared`; one in `RunStoreLive`, where the fairness of its cycles is what counts |
| `MaxReady` | `MAX_READY_TASKS_PER_ADVANCE` | 2: a schedule may claim all ready tasks at once |
| `MaxFailing` | agents of a task that may report no success | 1 in `RunStoreShared`; none in `RunStoreLive`, which is about starting tasks |
| `MaxBlockers` | blockers of a run | 1 beyond those of the role check: a task is blocked and unblocked again |
| `MaxCrashes`, `MayCrash` | crashes | 1 in `RunStoreLive`, at any point of any handler; in `BackgroundExecution` any process but the last |
| `LeaseMayLapse`, `Slow` | a living holder may outlast its lease | both values are used; liveness and `RunningHasLease` need the good one |
| `Supervisor` | processes | 2, every race is between two writers; the proofs cover any number |
| `Execution` | executions of a run | 2 in `ExecutionShared` (one after or against another), else 1 |
| `MaxLease` | leases granted to requests | 2 or 3; one id more is kept for an adoption |
| `MaxIterations` | rounds of a worker | 1 or 2: the last and one before |
| `Key`, `Value`, `Thread` | items, threads | 1 key, 2 values (count up, delete all), 2 + 1 threads: a lost update shows in one item |
| `Lives` | how often a process starts | `p1` twice (it dies at any one point and comes back), `p2` once, at any time, beside `p1` or after it |
| `MaxOutput`, `Retained` | chunks read, chunks kept | 2 and 2: the note of a timeout is the third, and drops one |
| `MayCancel` | cancellation | TRUE in both runs |
| `MaxKept` | files set aside before no more damage is done | 2: one corrupt, one moved aside by its restore |
| `FileProcess`, `FileId`, ... | who serves files; approvals | 2 processes against 1 approval: the race is for one record |
| `MaxStamp` | modifications of files | 1: by others, after the approval, before the claim or before the act, or by the operation itself |
| `FileRequest` | file operations | a write by the agent of a task, and a move that overwrites; the theorems cover all ten actions |
| `Call`, `Threshold`, `MaxAttempts` | calls of one process, failures that open a circuit, attempts | 2, 1 and 2: an old stream beside a probe; one retry. `OpenNeedsFailures` and `ProbeIsReleased` were also checked with more |
| `Registered` | manifests that clients register | one, active, with so many failures that its next run deprecates it |
| `MaxVersion`, `MaxToolRuns`, `WarnRuns`, `DeprecateRuns` | versions of a tool, counted runs, the two thresholds | 2, 4, 3, 4: both are reached, the lower one first |
| `CommandRuleId`, `Vocabulary` | rules of operators, commands scripts are made of | 2 rules; 6 commands, scripts of one or two segments with one substitution: rules and parts that pull in opposite directions |
| `TokenId`, `AuthWorker` | tokens, workers | 2 and 2: a token and its successor, a reader and a writer; the proof covers any number |
| `Manifest`, `Contents` | what a plugin has shipped | 2 manifests; of a recipe 2 contents, one of them also disabled, and an unreadable one |
| `Branch`, `Change`, `PathOf`, `Secret`, `ProtectedPath`, `MaxCommits` | branches, changes, their paths, those that hold a secret, commits of a branch | 2 with one protected, 2 of the same path with one secret, so that an unread diff hides one behind the other; 1 commit: ahead, behind and diverged are all reached |

A request that would need more than a bound gives is turned away before it does anything, so no
handler stops in the middle. Symmetry is used over processes and executions in runs without liveness.
Deadlock is not checked in `RunStore`, `BackgroundExecution`, `CliRuns`, `Gates` and `Services`, which come to rest
when the run is closed or has ended or no request is left within the bounds; in `JsonStore` it is.

`Gates` and `Services` keep to what their properties tell apart. `gate` is "files", "commands", "calls", or one
of these: in "policy" only the rules on commands are edited, two of them, where "commands" has one; rules on
domains are edited in "domains"; hook rules change beside files. In "tools" tools are approved and
replaced by newer versions, in "counts" operators govern and register tools that need no approval while these run, and
in "sockets" tools that reach the network run once. Commands and tools are served by one process, as `README.md:252` of the
repository describes and `main.py:56` serializes; file, network and provider approvals are claimed in transactions and are
shared by processes. Recipes and hook rules of a plugin are installed in separate behaviours. The
client of git asks for one thing at a time, with a checkpoint it can use, looks at it anew each
time, and has nothing left to stage when it does; developers leave protected branches to others.

### Fairness

- `RunStore`: a handler that has begun goes on (threads run); the processes that run cycles are asked for
  them again and again (by an operator or a background loop); a lease whose process has died expires (it is a time). Crashes,
  reports of agents and lapses under a living holder are never forced.
- `BackgroundExecution`: threads run, a dead process's heartbeat and lease lapse, processes are
  started, somebody polls (listing executions reconciles them). All of that is weak fairness. Entering the worker's
  loop is strongly fair: it waits for `_mutation_lock`, which requests take and give back, and a
  lock of Python gives no stronger guarantee than that a waiter gets it in one of many pauses.
- `CliRuns`: requests that are being served and threads run on (weak fairness of `Serving`, `Supervising`,
  `Reading`), a dead process is started again, and the waiter's wait ends because the code bounds it
  by `timeout_seconds`. Nobody has to start, cancel, crash or exit.
- `Gates`: the steps of a provider call are weakly fair: a request is bounded by its timeout, and a stream
  ends or falls silent until the read times out. Nothing else is forced, not even the cooldown.
- `JsonStore` and `Services` have no liveness property and no fairness.

## 4. What is proved

For every graph of tasks, any number of processes, lives, executions, threads, pipes, keys and
values, tokens, workers, requests, rules, calls, tools and repositories. Where a theorem has a
hypothesis, the table names it.

| module | theorem | says |
|---|---|---|
| `RunStoreProofs` | `StoreTyped` | `Spec => []TypeOK` |
| | `StoreInvariant` | the inductive invariant |
| | `BlockersStayMatched`, `ClosedRunsAreComplete`, `ClosedRunsStayClosed`, `CompletedTasksStay`, `DependenciesStayRespected` | the safety properties of `RunStoreShared`, and that completed tasks stay completed |
| | `StoreImplementsBoard` | `RunStore` implements `TaskBoard` |
| | `EndedAgentsAreNotRevived` | `EndedAgentsStayEnded`, if no lease lapses under a living holder |
| | `RollbacksSpareSpawned` | `RollbackSparesSpawned`, under the same condition, however many agents a schedule brings up |
| | `AgentsAreNeverRenamed` | `AgentsAreNotRenamed`, without any condition |
| `TaskBoardProofs` | `BoardTyped`, `BoardInOrder`, `BoardClosedIsDone` | the board keeps its invariants |
| `ExecutionProofs` | `ExecutionTypes`, `OneExecutionActive` | types, one active execution |
| | `ExecutionRefinement` | `BackgroundExecution` implements `ExecutionLifecycle` |
| | `OutcomesStay` | `OutcomesHold` of the life cycle, inherited by the executions |
| | `OutcomesAreFenced` | `Spec => OutcomeIsFenced`, slow processes included |
| | `RunningKeepsLease`, `LeasesAreNotForgotten` | `RunningHasLease` and `LeaseIsNotForgotten`, if no living process outlasts its lease (`Slow = {}`) |
| `ExecutionLifecycleProofs` | `LifecycleOneActive`, `LifecycleOutcomesHold` | what the life cycle promises |
| `CliRunsProofs` | `CommandTypes`, `OutcomesAreTrue`, `OrphansAreKnown` | types, `EndedRunsAreDead` and `OrphansAreReported` |
| | `CommandsStayInReach`, `OutputIsKept` | `CommandsAreInReach` and `AppendsKeepOutput` |
| `JsonStoreProofs` | `StoreTypes`, `LocksAreReleased`, `NoLostUpdate` | types, locks, no lost update |
| | `StoreRefinement` | `JsonStore` implements `Collection` |
| `GatesProofs` | `GatesKeepLedger` | all gates side by side implement `ApprovalLedger` |
| | `ApprovedActsOnly` | `GatesSpec => []ActsAsApproved` |
| | `ApprovalsActOnce`, `AnswersHold` | what the ledger promises, of every gate: an approval is acted upon once at most and only when used up; answers stand, and nothing acts on what nobody has approved |
| | `WrappingHolds` | `GatesSpec => []WrappingNeverWeakens`, for commands of any depth and any rules |
| | `NestingHolds` | for every script whatever: what is blocked alone stays blocked within any number of shells |
| | `StartsHold` | a command is decided in one state, in which its context is allowed and nothing it reaches through shells is blocked alone; what is launched is what was decided, and in production it has used up a record bound to it if it needed one |
| | `CircuitsHold`, `DisabledBeforeDeprecated`, `SourcesAreKept` | `OpenNeedsFailures`, `CountsDisableFirst`, `SourcesSurvive` |
| `ServicesProofs` | `CopiesAlwaysBelong` | the inductive invariant of the tokens |
| | `RevocationHolds`, `RevocationHoldsInServices` | `RevocationIsFinal`, of `AuthTokens` alone and side by side with the others |
| | `ServicesKeepTokens` | what the services do is what `AuthTokens` allows |
| | `ManagedHolds`, `ReviewsHold`, `RecipesHold` | `ManagedNeverLoosened`, `ActsOnReviewed`, `RecipesRunAsShipped` |

**Assumptions** are those named in the modules. `RunAssumption` (a finite acyclic graph, listed with
dependencies first), `StoreAssumption`, `ExecutionAssumption`, `CliAssumption`, `DataAssumption`,
`ProviderAssumption`, `ToolAssumption`, `RequestsAreCommands` and `VocabularyAssumption` give constants their types,
`ToolAssumption` also the order of the two thresholds. `NobodyIsApart`, `FileAssumption`, `CommandIdAssumption`,
`NetworkIdAssumption` and `GatesApart` say that the value for "none" is no id, and that an id names an approval of one gate;
`FileAssumption` also which actions there are, and that those with a target have one.
`ManagedHooksAreRanked` says that no two managed rules have the same rank, which the code gives them by
time and id; `PluginFilesAssumption` that a manifest lists files which can be read in some form;
`CommandRulesAreRanked` the same of the rules on commands, and that requests for rules have the fields of
`CommandPolicyRuleRequest`. `CommandsAreWhole` says that a command is of one of the six kinds, that the segments of a
shell's script are a sequence, and that what stands inside a command is a command with less text (`TextLength`). TLC
evaluates them in every run.

**Run store.** `BlockersMatchTasks` is not inductive: a handler writes a record it computed earlier.
The invariant therefore speaks of what is *in preparation*. A handler at `persist` holds a run on
which its request is legal and which satisfies the same consistency; since `Persist` compares the
signatures, its result is also legal for the run on disk. A handler about to close has seen a run
with all tasks completed, and such a run is *sealed*: no other action is enabled on it that changes
the signature. That is why the blind write of `close_run` does no harm to tasks and blockers.
Claims in preparation belong to tasks whose agents they name. Dependencies are then inherited from
the board: the refinement shows each step is a board step, and `BoardInOrder` is a theorem of the
board.

**Agents.** What a handler knows of agents needs invariants of its own, built on each other, over three
lemmas that say what one step does to a task (`TaskMoves`), an agent (`AgentMoves`) and a handler
(`HandlerMoves`). `DrawnInv`: a pending task names no agent, and every agent that exists or is claimed has
a number that was drawn; so a claim takes fresh numbers, or agents that are missing. `SpawnInv`: where no
lease lapses, a scheduler has the lease from its claims to its release, and what it has claimed and
not brought up is absent, for only the holder brings agents up; the one exception is the claim whose own
spawn has just raised. Hence an agent that has ended is not
revived, and what a rollback takes back never came up, but for that one. `AgentsAreNotRenamed` needs `DrawnInv` only: a
name comes into a run with a claim, and any record a handler writes back names what the run on disk names, by the
comparison before the write.

**Executions.** The invariant adds to the types that a request never targets an execution another one is about
to create (`Targeted`, `Reserved`), that a decision to claim or fail agrees with the record
(`Decided`), and that one execution is active. Then only `Claim` brings an execution up, all other
actions move statuses along edges of the life cycle, and one active execution means at most one
status changes in a step, which is a step of `ExecutionLifecycle`. `OutcomeIsFenced` follows from the same
invariant.

`LeaseInv` is the invariant for the scheduler's lease, without slow processes. Each request, each worker
and each record that names a lease agrees with the lease file about whose it is and for what
(`RequestFits`, `WorkerFits`, `ExecutionFits`), active records of living owners name the lease that is held,
and a lease that is held is at hand somewhere: in a request, a worker or a record, or with a process
that died, or in the window of a cancellation (`Kept`). That a heartbeat is missed only when its process died
is what `Slow = {}` gives, and what the rest depends on.

**Command runs.** `EndedRunsAreDead` is not inductive, since records are written from copies and a
child is launched without a look at the record. The invariant `IInv` adds that a process about to
launch or register is the owner, is the only one to do so and has no threads yet (`Launching`), that only the
owner holds a cancellation (`Cancelling`), that copies held by requests are from when the run was
pending and copies held by readers tell no outcome of a living command (`CopiesAreTrue`), that past its wait
the waiter knows the command dead and has an outcome (`WaiterIsRight`), and that a number is left for
each chunk whose turn it is (`NumbersLeft`, for the types). That numbers have a greatest among them
comes from the library's theorem that strict inclusion of finite sets is well founded, since
induction itself cannot be cited.

`OrphansAreReported` needs that every record *and every copy* fits the command: its output is what retention
has left of the chunks up to some number, it is called stale only after an attempt to terminate, and
what it says of the command has happened (`RecordsFit`). `OutputInv` is for the rest. For `AppendsKeepOutput` it
adds that the lock lets one thread append at a time, that a reader or the waiter which is about to append has the
latest output, and that the copy of a cancellation may be behind the record but never ahead of it
(`CopiesInOrder`): all that as long as the waiter waits, for its last save can put the run ahead of what a
reader it has given up is about to write. For `CommandsAreInReach` it adds that a launcher on its way to the thread has the child
on the list (`Listed`), which only the waiter takes it from, and a process that dies with all the rest.

**Store.** The invariant says which thread holds which lock at which point, that a thread in the
process's lock excludes the others of its process and one in the file lock all others (`NoLockIsLeaked`), that calls are
well formed (`Asked`, `Ready`), and that what is about to be saved was computed from what the file
holds (`LoadedIsCurrent`). The refinement maps a call to *called* until its save is done.

**Tokens.** That a spent token stays spent is a matter of one step, but what a step may write depends
on what a worker has read. The invariant adds to the types that a copy about to be written back is of
a token that is still stored and descends from the same one, and that what is about to be issued
descends from nobody (`CopiesBelong`). A stale copy is only ever written as expired, so it is spent;
and since descent never changes, it makes nobody an heir.

**Gates.** Each gate has an invariant about its own variables, and a step of another gate leaves them alone;
`GatesInv` is their conjunction. `FileLedgerInv`, `CommandLedgerInv`, `ProviderLedgerInv`, `ToolLedgerInv`
and `NetworkLedgerInv` say of a gate that its records are in one of the five states, that nothing was done
on a record that is not executed and at most one thing on one that is (`Balanced`), that an operation past
its claim names a record which is used up, was bound to this request and this decision, and has not been
acted upon yet, and that no two operations are on one record. A file operation between clearing its target and
the transfer counts as having acted. Then every step turns at most one record,
along an edge of the ledger (`Books`). `CircuitInv` adds to `OpenNeedsFailures` that only a call which
passed the breaker is a probe. `ReliabilityInv` says that a manifest which is active, and neither was made active
again nor registered by hand, has a reliable record, and that the same goes for what a run (`ManifestsInv`) and an update of
the governance (`EditSound`) have read and may still write back, since either overwrites the other. `FilesInv` says
that an absent place has no content; for `SourcesSurvive` the proof then follows each of the ten file actions to
each of the trees it may leave: those without a target change what they name, and those with one change the target, and
their source only in a tree where the target has all of it (`Spares`).

**Command policy.** The verdict on a command is a recursive function, and `f[c \in Command] == ...` only means
something if a function with that property exists. No induction theorem with an operator for a parameter can be used,
so `Recursion` proves once, from the fact that a non-empty set of numbers has a least element (`WFMin` of the library),
that a recursion has a solution if its step looks only at elements of a smaller size: two solutions on the elements below a size agree (`SolutionsAgree`),
so those below every size can be put together. A step is there a function, not an operator, which is what makes the lemma
first-order. It gives equations for `Within` and `Leading` (`Gathering`, `WithinIs`, `LeadingFits`) and for the
verdict (`VerdictsFit`, `DefaultIs`), whose size is the text of a command. The proof attempt found a fault of the
model: two guards of the CASE in `DefaultGiven` overlapped, so that the verdict on a shell was whichever branch
`CHOOSE` took; they are now disjoint, as the chain of returns in `_default_decision` is.

`WrappingNeverWeakens` then needs that the rule which decides is one of the matching rules. That holds because
there is a first one in the order of the ranks, for which no two stored rules may have the same time: `RulesInv` says that a new rule
comes after all others. The rest is a comparison of two evaluations, the script's and the part's: a blocked part blocks the
script (`BlockedPart`), a safe verdict on a script has read-only parts (`ScanIsSafe`, `SafeScript`), and where a part
asks for an approval so does the script, unless its rule is believed (`ApprovalPart`, `WrappingKeeps`). Of the scan of
the whole text it uses the first command only. `NestingHolds` takes a
counterexample with the least text and applies the same lemma to it. `StartsHold` adds that hook rules only tighten
(`DecidedOnAll`), that approvals are for requests clients made (`RequestsInv`), and that a request is decided again when it
is executed (`CommandOpMoves`): a rule that was made stricter after the approval is heard. From then on the decision stands,
whatever becomes of rules and tasks, until the command is launched; its claim is compared with this decision and no other.

**Plugins, hooks, git.** `RecipeInv`: every stored recipe is either a local one, or shipped: it runs the
template of the content recorded as its origin, and the manifest recorded with it lists its file. A recipe
that is being compared or checked is shipped as well, and an installation under way holds only files its
manifest lists. `ManagedHolds` is a statement about all sets of rules: the rule that decides is a least one
in an order in which managed rules come first, so a managed rule that applies is never hidden. `Reviewed`
says that a git command on its way carries the checkpoint it was reviewed with, that this shows the repository as it was at the last
comparison except where a reading came back as nothing (`Shows`), and that the runner pushes to no protected branch; `Histories` gives branches
their type. `Confined` and `Published` are the two halves of `ActsOnReviewed`: what holds whatever has moved, and what holds if nothing has.

**Only model-checked:** the liveness properties `ClaimedTasksGetAgents`, `LeaseIsFreed`, `ReadyTasksStart`,
`ExecutionsEnd`, `RunsStayEnded` and `ProbeIsReleased`, since the prover cannot reason about fairness and
`ENABLED`. Every other property of a passing run is a theorem, some of them under the hypotheses above. Of the
theorems, `NestingHolds`, `StartsHold`, `ApprovalsActOnce`, `AnswersHold`, `OutcomesStay` and `CompletedTasksStay`
state more than a run checks: `NestingHolds` quantifies over all scripts, which TLC cannot, `StartsHold` builds on the
same recursion, and the others spell out what the refinements that are checked imply.

## 5. What the models leave out

- Texts, documents written beside a run, memory published on completion, and the event log, except
  that logging may fail after a spawn.
- Errors while reading a file, in `RunStore` and `BackgroundExecution` (`JsonStore` has them).
- Reports of agents other than from running to an end: the API would accept any status from anyone;
  the models let an agent report once, itself.
- The lookup of an agent right after the claim is part of `Claim`; the second look inside
  `update_agent_status` is part of the report; a heartbeat's reading is part of its renewal; waiting
  for a request's turn and taking the mutation lock are one step. In each of these gaps the other
  threads can change nothing that the merged step reads, or the change is a lapse that
  may equally come before.
- An expired lease and no lease are the same: both let the next one in.
- The lease id kept in the record of an ended execution: no code reads it.
- `RunStore` and `BackgroundExecution` are not composed. The first treats any scheduler as a process with
  a lease; the second treats what happens under the lease as one step.
- In `CliRuns`: the approval a start may consume (which is in `CommandGate`), synchronous execution (also
  there), the text of the output and its redaction, records that are missing,
  errors of the store inside the waiter or a reader, and process ids that are used again. A cancellation's look at the
  record before it takes the lock is merged with the one under it; the waiter's look at the flag and its
  kill are one step. SIGKILL works, if the owner sends it; against an orphan either signal may fail.
- In `JsonStore`: the Windows branch (`msvcrt`, with its retries), the order of items, names of
  files, temporary files that a crash leaves. Outside edits of the file are assumed not to fall into
  a call.
- In the gates: the wording of requests, answers and outputs, prices and telemetry; the parser of command
  lines, of addresses and of domain names, whose results are where the models start; symbolic links
  that change under the code; places that lie inside one another, and with them the deletion or moving of a directory above the
  program's own state files; which part of a tree a failing operation leaves, beyond that it is not all; the
  generated source of tools and its sandbox. A use that is reported to
  the SQL registry by hand changes the statistics of the row, which no gate reads.
- In `AuthTokens`: tokens configured in the environment and records without an operator profile. A
  listing of tokens is one record of one read.
- In `Plugins`: how directories are discovered. A manifest's digest is its content, a recipe's template
  is a value.
- In `GitWorkflows`: a checkpoint is read in one step, where the code calls git several times, each of which may fail by
  itself; its last comparison and the command it allows are two steps. The statistics of a diff are taken to depend on its
  paths only. `git push` goes by `push.default=simple`. Test evidence is always given.
  Change reviews and raw diffs (`git_workflows.py:513-663`) keep metadata and decide nothing. Repository hooks
  run under an approved command but not under the runner, and change nothing here.

## 6. Not modelled, and what is left

- **Project activation** looks for running work and then switches the root of one process. Requests of
  that process are serialized, the other processes are not told, and the root only says where
  paths lead: the state stays in its directory (`settings.py:348`). The window in which a worker of
  another process starts work is a hazard without a property.
- **Credentials**: create, revoke and rotate are transactions on one collection. What can go wrong
  in between depends on the vault key each process was started with, and a change of key is a restart.
  That a credential changes under a provider call is in `ProviderGate`.
- **Memory**: scores and ages are floating-point numbers, and each decision is one SQL transaction.
  Noticed while reading: the lifecycle takes the oldest rows up to a limit, kept ones included, so
  that rows that are kept can fill the window for good.
- **Web retrieval** is one HTTP request with redirects; it claims network approvals as a provider call
  does.
- Settings, redaction, routing, pricing, documents, planner, events, sessions, database, routes and
  web console have no state, or an upsert of it. `PROJECT.json` gives the reason for each.

What would add most next: `Plugins` together with the gate that runs what it installs; two processes that share the
approvals of commands and tools, which the code guards by a lock of one process; and a checkpoint of git read in
several steps.
