------------------------ MODULE BackgroundExecution ------------------------
(***************************************************************************)
(* Detached background executions of one orchestration run: the records in *)
(* orchestration-executions.json, the run's lease in                       *)
(* orchestration-scheduler-leases.json, and in every backend process       *)
(* (a supervisor, which draws a new id each time it starts):               *)
(*                                                                         *)
(*   - one request at a time (the HTTP middleware serves one after the     *)
(*     other): start an execution, cancel one, poll, or schedule in the    *)
(*     foreground, as advance_run, run_cycle and the others do;            *)
(*   - per execution a worker thread and its heartbeat thread.             *)
(*                                                                         *)
(* Requests that change the run and the loop of a worker exclude each      *)
(* other by the process's _mutation_lock; everything else interleaves at   *)
(* every file access.  What scheduling does to the run is RunStore's       *)
(* business; here it is the critical section the lease protects.           *)
(*                                                                         *)
(* Time is what may lapse: a heartbeat and a lease both after 300 seconds. *)
(* Which of the two was renewed last decides which lapses first.           *)
(***************************************************************************)
EXTENDS Naturals, FiniteSets

CONSTANTS
    Supervisor,     \* processes, each with the supervisor id of one start
    Execution,      \* execution ids
    None,
    MaxLease,       \* bound: leases granted to requests
    Offered,        \* kinds of request that arrive: start, schedule, cancel
    MaxIterations,  \* request.max_iterations
    MayCrash,       \* processes may die
    Slow,           \* processes that may outlast their lease and heartbeat
    MayClose        \* close_run may end the run meanwhile

ASSUME ExecutionAssumption ==
    /\ None \notin Supervisor \cup Execution
    /\ MaxLease \in Nat
    /\ Slow \subseteq Supervisor
    /\ Offered \subseteq {"start", "schedule", "cancel"}
    /\ MaxIterations \in Nat \ {0}
    /\ {MayCrash, MayClose} \subseteq BOOLEAN

VARIABLES
    sup,        \* sup[s]: "new" before it starts, "up", "dead"
    exec,       \* exec[e]: the record of execution e
    lease,      \* the scheduler lease of the run
    granted,    \* number of leases granted so far
    open,       \* the run is not closed
    request,    \* request[s]: the request supervisor s is serving
    worker,     \* worker[s][e]: the thread of s that runs execution e
    beat        \* beat[s][e]: the heartbeat thread of that worker

vars == <<sup, exec, lease, granted, open, request, worker, beat>>

Active == {"starting", "running", "cancelling"}
Outcome == {"cancelled", "completed", "failed", "stale"}

LeaseId == 0..(MaxLease + 1)    \* 0: no lease; one beyond the bound for an adoption

ExecRecord == [status : {"absent"} \cup Active \cup Outcome,
               owner  : Supervisor \cup {None},
               lease  : LeaseId,        \* scheduler_lease_id
               fresh  : BOOLEAN]        \* last_heartbeat_at is recent enough

Lease == [id      : LeaseId,
          exec    : Execution \cup {None},
          owner   : Supervisor \cup {None},
          younger : BOOLEAN]            \* renewed after exec's last heartbeat

\* A lease that has expired is as good as none to every reader.
NoLease == [id |-> 0, exec |-> None, owner |-> None, younger |-> FALSE]

Request == [pc    : {"idle", "adopt", "reconcile", "check", "acquire", "claim",
                     "launch", "finalize", "release", "work", "giveBack", "read", "cancel"},
            kind  : {"none", "start", "schedule", "cancel", "startup"},
            exec  : Execution \cup {None},
            lease : LeaseId,
            open  : BOOLEAN]            \* the run as it was read

Worker == [pc      : {"none", "begin", "acquire", "mark", "drop", "enter", "prepare",
                      "loop", "cycle", "finalize", "release", "done"},
           lease   : LeaseId,
           rounds  : 0..MaxIterations,
           outcome : {"none", "cancelled", "completed", "failed"}]

Beat == {"off", "wait", "write"}

TypeOK ==
    /\ sup \in [Supervisor -> {"new", "up", "dead"}]
    /\ exec \in [Execution -> ExecRecord]
    /\ lease \in Lease
    /\ granted \in LeaseId
    /\ open \in BOOLEAN
    /\ request \in [Supervisor -> Request]
    /\ worker \in [Supervisor -> [Execution -> Worker]]
    /\ beat \in [Supervisor -> [Execution -> Beat]]

Idle == [pc |-> "idle", kind |-> "none", exec |-> None, lease |-> 0, open |-> TRUE]
NoWorker == [pc |-> "none", lease |-> 0, rounds |-> 0, outcome |-> "none"]

Serve(s, r) == request' = [request EXCEPT ![s] = r]
Work(s, e, w) == worker' = [worker EXCEPT ![s][e] = w]

\* The mutation lock of a process: held by a request (cancel and poll do
\* without), or by the loop of one of its workers.
InLoop(s) == \E e \in Execution : worker[s][e].pc \in {"prepare", "loop", "cycle"}
HoldsLock(s) == request[s].kind \in {"start", "schedule"}

----------------------------------------------------------------------------
(* Reading and writing the two files.                                      *)

Mine(s, e) == exec[e].status \in Active /\ exec[e].owner = s

\* The lease recorded in the execution is the run's, and this process's.
Holds(s, e) == lease.id = exec[e].lease /\ lease.exec = e /\ lease.owner = s

\* Nobody looks at the lease of an execution that has ended.
Ended(x, status) == [x EXCEPT !.status = status, !.lease = 0, !.fresh = TRUE]

\* Variant: only an execution that got as far as running can be given up.
ExpiredRunning(s, e) ==
    exec[e].status = "running" /\ exec[e].owner # s /\ ~exec[e].fresh

\* _should_mark_background_execution_stale
Expired(s, e) ==
    exec[e].status \in Active /\ exec[e].owner # s /\ ~exec[e].fresh

LostLease(s, e) == Mine(s, e) /\ exec[e].lease # 0 /\ ~Holds(s, e)

\* reconcile_stale_background_executions
Reconciled(s) ==
    [e \in Execution |->
        IF Expired(s, e) \/ LostLease(s, e) THEN Ended(exec[e], "stale") ELSE exec[e]]

\* _acquire_scheduler_lease, where it succeeds.
Grant(s, e) ==
    /\ lease = NoLease
    /\ granted + 1 \in LeaseId
    /\ granted' = granted + 1
    /\ lease' = [id |-> granted + 1, exec |-> e, owner |-> s, younger |-> e # None]

\* Variant: whatever lease the run has is removed.
ReleasedAnyhow(id) == NoLease

\* Releasing by token or by id leaves a lease of anybody else alone.
Released(id) == IF lease.id = id THEN NoLease ELSE lease

\* Variant: the outcome is stored whoever owns the execution now.
FinalizedAnyhow(s, e, status) ==
    IF exec[e].status \notin Active THEN exec[e]
    ELSE Ended(exec[e], IF exec[e].status = "cancelling" THEN "cancelled" ELSE status)

\* _finalize_background_execution
Finalized(s, e, status) ==
    CASE ~Mine(s, e)     -> exec[e]
      [] LostLease(s, e) -> Ended(exec[e], "stale")
      [] OTHER -> Ended(exec[e], IF exec[e].status = "cancelling" THEN "cancelled" ELSE status)

\* The lease to give back after finalizing.
Leftover(s, e) == IF Mine(s, e) /\ ~LostLease(s, e) THEN exec[e].lease ELSE 0

\* Somebody will still renew the lease, work under it or release it.
InUse ==
    \/ \E s \in Supervisor : request[s].lease = lease.id
    \/ \E s \in Supervisor, e \in Execution :
          worker[s][e].lease = lease.id /\ worker[s][e].pc # "done"
    \/ \E e \in Execution : exec[e].status \in Active /\ exec[e].lease = lease.id

Stamped(e) == IF lease.exec = e THEN [lease EXCEPT !.younger = FALSE] ELSE lease

----------------------------------------------------------------------------
(* Processes.                                                              *)

\* OrchestrationService.__init__ reads the runs first.
Startup(s) ==
    /\ sup[s] = "new"
    /\ sup' = [sup EXCEPT ![s] = "up"]
    /\ Serve(s, [Idle EXCEPT !.pc = "adopt", !.kind = "startup", !.open = open])
    /\ UNCHANGED <<exec, lease, granted, open, worker, beat>>

Late(s) == {e \in Execution : Expired(s, e)}

Resumable(s) ==
    IF request[s].open THEN {e \in Late(s) : exec[e].status # "cancelling"} ELSE {}

TakenOver(s) == [status |-> "starting", owner |-> s, lease |-> 0, fresh |-> TRUE]

\* _adopt_stale_background_executions: of those whose process is silent, one is
\* taken over, what was being cancelled is cancelled, the rest is stale.
Adopted(s, taken) ==
    [e \in Execution |->
        IF e \notin Late(s) THEN exec[e]
        ELSE IF e = taken THEN TakenOver(s)
        ELSE Ended(exec[e], IF exec[e].status = "cancelling" THEN "cancelled" ELSE "stale")]

Adopt(s) ==
    /\ request[s].pc = "adopt"
    /\ \/ /\ Resumable(s) = {}
          /\ exec' = Adopted(s, None)
          /\ Serve(s, Idle)
          /\ UNCHANGED lease
       \/ \E taken \in Resumable(s) :
          /\ exec' = Adopted(s, taken)
          /\ lease' = Stamped(taken)
          /\ Serve(s, [Idle EXCEPT !.pc = "launch", !.kind = "startup", !.exec = taken])
    /\ UNCHANGED <<sup, granted, open, worker, beat>>

\* The process dies with all its threads.  Bound: the last one stays alive.
Crash(s) ==
    /\ MayCrash /\ sup[s] = "up"
    /\ \E x \in Supervisor \ {s} : sup[x] # "dead"
    /\ sup' = [sup EXCEPT ![s] = "dead"]
    /\ Serve(s, Idle)
    /\ worker' = [worker EXCEPT ![s] = [e \in Execution |-> NoWorker]]
    /\ beat' = [beat EXCEPT ![s] = [e \in Execution |-> "off"]]
    /\ UNCHANGED <<exec, lease, granted, open>>

\* 300 seconds pass without a heartbeat.
HeartbeatLapses(e) ==
    /\ exec[e].status \in Active
    /\ exec[e].fresh
    /\ exec[e].owner \in Slow \/ sup[exec[e].owner] = "dead"
    /\ lease.exec = e => lease.younger
    /\ exec' = [exec EXCEPT ![e].fresh = FALSE]
    /\ UNCHANGED <<sup, lease, granted, open, request, worker, beat>>

\* 300 seconds pass without a renewal.
LeaseLapses ==
    /\ lease # NoLease
    /\ lease.owner \in Slow \/ ~InUse \/ sup[lease.owner] = "dead"
    /\ (lease.exec # None /\ lease.younger) =>
            ~(exec[lease.exec].status \in Active /\ exec[lease.exec].fresh)
    /\ lease' = NoLease
    /\ UNCHANGED <<sup, exec, granted, open, request, worker, beat>>

\* close_run by anybody; RunStore has the details.
CloseRun ==
    /\ MayClose /\ open
    /\ open' = FALSE
    /\ UNCHANGED <<sup, exec, lease, granted, request, worker, beat>>

----------------------------------------------------------------------------
(* Requests.                                                               *)

Free(s) == sup[s] = "up" /\ request[s] = Idle

\* list_, get_background_execution: a poll reconciles.
Poll(s) ==
    /\ Free(s)
    /\ exec' = Reconciled(s)
    /\ UNCHANGED <<sup, lease, granted, open, request, worker, beat>>

\* start_background_execution or a foreground scheduler gets the mutation
\* lock; a closed run is refused.
Arrive(s) ==
    /\ Free(s) /\ ~InLoop(s) /\ open
    /\ \E kind \in Offered \ {"cancel"} :
        Serve(s, [Idle EXCEPT !.pc = "reconcile", !.kind = kind])
    /\ UNCHANGED <<sup, exec, lease, granted, open, worker, beat>>

\* cancel_background_execution
ArriveCancel(s) ==
    /\ Free(s) /\ "cancel" \in Offered
    /\ \E e \in Execution :
        /\ exec[e].status # "absent"
        /\ Serve(s, [Idle EXCEPT !.pc = "reconcile", !.kind = "cancel", !.exec = e])
    /\ UNCHANGED <<sup, exec, lease, granted, open, worker, beat>>

Reconcile(s) ==
    /\ request[s].pc = "reconcile"
    /\ exec' = Reconciled(s)
    /\ Serve(s, [request[s] EXCEPT !.pc = CASE request[s].kind = "start"    -> "acquire"
                                            [] request[s].kind = "schedule" -> "check"
                                            [] OTHER -> "read"])
    /\ UNCHANGED <<sup, lease, granted, open, worker, beat>>

\* A foreground scheduler gives way to any active execution.
Check(s) ==
    /\ request[s].pc = "check"
    /\ Serve(s, IF \E e \in Execution : exec[e].status \in Active THEN Idle
                ELSE [request[s] EXCEPT !.pc = "acquire"])
    /\ UNCHANGED <<sup, exec, lease, granted, open, worker, beat>>

Unused(e) == exec[e].status = "absent" /\ \A s \in Supervisor : request[s].exec # e

\* The lease is taken, in the name of a new execution id or of none; a request
\* that finds it taken, or the bounds exhausted, is turned away.
Acquire(s) ==
    /\ request[s].pc = "acquire"
    /\ \/ /\ request[s].kind = "start" /\ granted < MaxLease
          /\ \E e \in Execution :
              /\ Unused(e)
              /\ Grant(s, e)
              /\ Serve(s, [request[s] EXCEPT !.pc = "claim", !.exec = e, !.lease = granted + 1])
       \/ /\ request[s].kind = "schedule" /\ granted < MaxLease
          /\ Grant(s, None)
          /\ Serve(s, [request[s] EXCEPT !.pc = "work", !.lease = granted + 1])
       \/ /\ lease # NoLease \/ granted >= MaxLease \/ ~\E e \in Execution : Unused(e)
          /\ Serve(s, Idle)
          /\ UNCHANGED <<lease, granted>>
    /\ UNCHANGED <<sup, exec, open, worker, beat>>

\* _schedule_ready_tasks has done its work, or raised.
EndWork(s) ==
    /\ request[s].pc = "work"
    /\ Serve(s, [request[s] EXCEPT !.pc = "giveBack"])
    /\ UNCHANGED <<sup, exec, lease, granted, open, worker, beat>>

\* Variant: only the lease decides who may start.
ClaimUnchecked(s) ==
    /\ request[s].pc = "claim"
    /\ exec' = [exec EXCEPT ![request[s].exec] =
            [status |-> "starting", owner |-> s, lease |-> request[s].lease, fresh |-> TRUE]]
    /\ Serve(s, [request[s] EXCEPT !.pc = "launch"])
    /\ UNCHANGED <<sup, lease, granted, open, worker, beat>>

\* Variant: a refused request leaves with its lease.
AfterRefusalLeave(r) == Idle

AfterRefusal(r) == [r EXCEPT !.pc = "giveBack"]

\* _claim_background_execution
Claim(s) ==
    /\ request[s].pc = "claim"
    /\ IF \E e \in Execution : exec[e].status \in Active
       THEN Serve(s, AfterRefusal(request[s])) /\ UNCHANGED exec
       ELSE /\ exec' = [exec EXCEPT ![request[s].exec] =
                    [status |-> "starting", owner |-> s,
                     lease |-> request[s].lease, fresh |-> TRUE]]
            /\ Serve(s, [request[s] EXCEPT !.pc = "launch"])
    /\ UNCHANGED <<sup, lease, granted, open, worker, beat>>

GiveBack(s) ==
    /\ request[s].pc \in {"giveBack", "release"}
    /\ lease' = Released(request[s].lease)
    /\ Serve(s, Idle)
    /\ UNCHANGED <<sup, exec, granted, open, worker, beat>>

\* _start_background_worker: a thread, or no thread.
Launch(s) ==
    LET e == request[s].exec IN
    /\ request[s].pc = "launch"
    /\ \/ /\ Work(s, e, [NoWorker EXCEPT !.pc = "begin"])
          /\ Serve(s, Idle)
       \/ /\ Serve(s, [request[s] EXCEPT !.pc = "finalize"])
          /\ UNCHANGED worker
    /\ UNCHANGED <<sup, exec, lease, granted, open, beat>>

\* What could not be launched is finalized as failed.
Fail(s) ==
    LET e == request[s].exec IN
    /\ request[s].pc = "finalize"
    /\ exec' = [exec EXCEPT ![e] = Finalized(s, e, "failed")]
    /\ Serve(s, IF Leftover(s, e) = 0 THEN Idle
                ELSE [request[s] EXCEPT !.pc = "release", !.lease = Leftover(s, e)])
    /\ UNCHANGED <<sup, lease, granted, open, worker, beat>>

\* Cancelling: the execution is read, with the lease it names ...
ReadForCancel(s) ==
    LET e == request[s].exec IN
    /\ request[s].pc = "read"
    /\ Serve(s, IF exec[e].status \notin Active THEN Idle
                ELSE [request[s] EXCEPT !.pc = "cancel", !.lease = exec[e].lease])
    /\ UNCHANGED <<sup, exec, lease, granted, open, worker, beat>>

\* ... and changed as it is by now: _request_background_execution_cancellation.
Cancel(s) ==
    LET e == request[s].exec IN
    /\ request[s].pc = "cancel"
    /\ \/ /\ exec[e].status = "starting"
          /\ exec' = [exec EXCEPT ![e] = Ended(@, "cancelled")]
          /\ Serve(s, IF request[s].lease = 0 THEN Idle
                      ELSE [request[s] EXCEPT !.pc = "release"])
          /\ UNCHANGED lease
       \/ /\ exec[e].status = "running"
          /\ exec' = [exec EXCEPT ![e].status = "cancelling", ![e].fresh = TRUE]
          /\ lease' = Stamped(e)
          /\ Serve(s, Idle)
       \/ /\ exec[e].status \notin {"starting", "running"}
          /\ Serve(s, Idle)
          /\ UNCHANGED <<exec, lease>>
    /\ UNCHANGED <<sup, granted, open, worker, beat>>

----------------------------------------------------------------------------
(* The worker: _run_background_execution.                                  *)

Over == [NoWorker EXCEPT !.pc = "done"]

Stop(s, e, outcome) == Work(s, e, [NoWorker EXCEPT !.pc = "finalize", !.outcome = outcome])

\* _mark_background_execution_running looks at the execution and its lease ...
Begin(s, e) ==
    /\ worker[s][e].pc = "begin"
    /\ Work(s, e, CASE ~(Mine(s, e) /\ exec[e].status = "starting") ->
                        Over
                    [] Mine(s, e) /\ exec[e].status = "starting" /\ Holds(s, e) ->
                        [worker[s][e] EXCEPT !.pc = "mark", !.lease = lease.id]
                    [] OTHER -> [worker[s][e] EXCEPT !.pc = "acquire"])
    /\ UNCHANGED <<sup, exec, lease, granted, open, request, beat>>

\* ... takes a lease if the execution, adopted, has none ...
AcquireForWorker(s, e) ==
    /\ worker[s][e].pc = "acquire"
    /\ \/ /\ Grant(s, e)
          /\ Work(s, e, [worker[s][e] EXCEPT !.pc = "mark", !.lease = granted + 1])
       \/ /\ lease # NoLease
          /\ Stop(s, e, "failed")
          /\ UNCHANGED <<lease, granted>>
    /\ UNCHANGED <<sup, exec, open, request, beat>>

\* ... and marks it running if it still is to run; the heartbeat thread starts
\* or fails to.
Mark(s, e) ==
    /\ worker[s][e].pc = "mark"
    /\ IF Mine(s, e) /\ exec[e].status = "starting"
       THEN /\ exec' = [exec EXCEPT ![e].status = "running", ![e].fresh = TRUE,
                                    ![e].lease = worker[s][e].lease]
            /\ lease' = Stamped(e)
            /\ \/ /\ Work(s, e, [worker[s][e] EXCEPT !.pc = "enter"])
                  /\ beat' = [beat EXCEPT ![s][e] = "wait"]
               \/ /\ Stop(s, e, "failed")
                  /\ UNCHANGED beat
       ELSE /\ Work(s, e, [worker[s][e] EXCEPT !.pc = "drop"])
            /\ UNCHANGED <<exec, lease, beat>>
    /\ UNCHANGED <<sup, granted, open, request>>

\* run_loop waits for the mutation lock; a closed run is refused.
EnterLoop(s, e) ==
    /\ worker[s][e].pc = "enter"
    /\ ~HoldsLock(s) /\ ~InLoop(s)
    /\ IF open THEN Work(s, e, [worker[s][e] EXCEPT !.pc = "prepare"]) ELSE Stop(s, e, "failed")
    /\ UNCHANGED <<sup, exec, lease, granted, open, request, beat>>

\* It reconciles, gives way to another active execution, and stops at once
\* when it was cancelled or has nothing to do.
Prepare(s, e) ==
    /\ worker[s][e].pc = "prepare"
    /\ exec' = Reconciled(s)
    /\ \/ /\ \E x \in Execution \ {e} : exec'[x].status \in Active
          /\ Stop(s, e, "failed")
       \/ /\ \A x \in Execution \ {e} : exec'[x].status \notin Active
          /\ \/ Stop(s, e, IF exec'[e].status \in {"cancelling", "cancelled"}
                           THEN "cancelled" ELSE "completed")
             \/ /\ exec'[e].status \notin {"cancelling", "cancelled"}
                /\ Work(s, e, [worker[s][e] EXCEPT !.pc = "loop"])
    /\ UNCHANGED <<sup, lease, granted, open, request, beat>>

\* Variant: the loop forgets to count.
Uncounted(w) == [w EXCEPT !.pc = "cycle"]

Counted(w) == [w EXCEPT !.pc = "cycle", !.rounds = @ + 1]

\* Variant: one iteration too many.
Overspent(w) == w.rounds > MaxIterations

Spent(w) == w.rounds >= MaxIterations

\* run_cycle: _scheduler_lease_token_for_execution, then it reconciles.
Loop(s, e) ==
    /\ worker[s][e].pc = "loop"
    /\ IF open /\ Mine(s, e) /\ exec[e].lease # 0 /\ Holds(s, e)
       THEN Work(s, e, Counted(worker[s][e]))
       ELSE Stop(s, e, "failed")
    /\ exec' = IF worker'[s][e].pc = "cycle" THEN Reconciled(s) ELSE exec
    /\ UNCHANGED <<sup, lease, granted, open, request, beat>>

\* The cycle schedules under its lease, or raises; then the loop looks for a
\* cancellation, for a reason to stop and at its budget.
Cycle(s, e) ==
    /\ worker[s][e].pc = "cycle"
    /\ \/ Stop(s, e, "failed")
       \/ /\ lease.id = worker[s][e].lease
          /\ \/ Stop(s, e, IF exec[e].status \in {"cancelling", "cancelled"}
                           THEN "cancelled" ELSE "completed")
             \/ /\ exec[e].status \notin {"cancelling", "cancelled"}
                /\ ~Spent(worker[s][e])
                /\ Work(s, e, [worker[s][e] EXCEPT !.pc = "loop"])
    /\ UNCHANGED <<sup, exec, lease, granted, open, request, beat>>

Finalize(s, e) ==
    /\ worker[s][e].pc = "finalize"
    /\ exec' = [exec EXCEPT ![e] = Finalized(s, e, worker[s][e].outcome)]
    /\ Work(s, e, IF Leftover(s, e) = 0 THEN Over
                  ELSE [NoWorker EXCEPT !.pc = "release", !.lease = Leftover(s, e)])
    /\ UNCHANGED <<sup, lease, granted, open, request, beat>>

DropLease(s, e) ==
    /\ worker[s][e].pc \in {"drop", "release"}
    /\ lease' = Released(worker[s][e].lease)
    /\ Work(s, e, Over)
    /\ UNCHANGED <<sup, exec, granted, open, request, beat>>

----------------------------------------------------------------------------
(* The heartbeat thread: _renew_background_execution_heartbeat.            *)

Pulse(s, e, pc) == beat' = [beat EXCEPT ![s][e] = pc]

\* The execution is read and its lease renewed; what comes between the two
\* accesses makes no difference ...
BeatRenew(s, e) ==
    /\ beat[s][e] = "wait"
    /\ IF worker[s][e].pc # "done" /\ Mine(s, e) /\ Holds(s, e)
       THEN lease' = [lease EXCEPT !.younger = TRUE] /\ Pulse(s, e, "write")
       ELSE UNCHANGED lease /\ Pulse(s, e, "off")
    /\ UNCHANGED <<sup, exec, granted, open, request, worker>>

\* ... and the execution is stamped.
BeatWrite(s, e) ==
    /\ beat[s][e] = "write"
    /\ IF Mine(s, e)
       THEN /\ exec' = [exec EXCEPT ![e].fresh = TRUE]
            /\ lease' = Stamped(e)
            /\ Pulse(s, e, "wait")
       ELSE UNCHANGED <<exec, lease>> /\ Pulse(s, e, "off")
    /\ UNCHANGED <<sup, granted, open, request, worker>>

----------------------------------------------------------------------------
Init ==
    /\ sup = [s \in Supervisor |-> "new"]
    /\ exec = [e \in Execution |->
            [status |-> "absent", owner |-> None, lease |-> 0, fresh |-> FALSE]]
    /\ lease = NoLease
    /\ granted = 0
    /\ open = TRUE
    /\ request = [s \in Supervisor |-> Idle]
    /\ worker = [s \in Supervisor |-> [e \in Execution |-> NoWorker]]
    /\ beat = [s \in Supervisor |-> [e \in Execution |-> "off"]]

\* What a process does of itself once a request has arrived.
Serving(s) ==
    \/ Adopt(s) \/ Reconcile(s) \/ Check(s) \/ Acquire(s) \/ EndWork(s)
    \/ Claim(s) \/ GiveBack(s) \/ Launch(s) \/ Fail(s) \/ ReadForCancel(s) \/ Cancel(s)

Working(s, e) ==
    \/ Begin(s, e) \/ AcquireForWorker(s, e) \/ Mark(s, e) \/ EnterLoop(s, e)
    \/ Prepare(s, e) \/ Loop(s, e) \/ Cycle(s, e) \/ Finalize(s, e) \/ DropLease(s, e)

Beating(s, e) == BeatRenew(s, e) \/ BeatWrite(s, e)

Next ==
    \/ \E s \in Supervisor :
        \/ Startup(s) \/ Crash(s)
        \/ Poll(s) \/ Arrive(s) \/ ArriveCancel(s)
        \/ Serving(s)
        \/ \E e \in Execution : Working(s, e) \/ Beating(s, e)
    \/ \E e \in Execution : HeartbeatLapses(e)
    \/ LeaseLapses
    \/ CloseRun

Spec == Init /\ [][Next]_vars

\* Processes are restarted, threads run, time passes, somebody polls, and the
\* loop of a worker, which waits for the mutation lock, gets it in one of the
\* pauses between requests.
Fairness ==
    /\ \A s \in Supervisor :
        /\ WF_vars(Startup(s)) /\ WF_vars(Serving(s)) /\ WF_vars(Poll(s))
        /\ \A e \in Execution : /\ WF_vars(Working(s, e)) /\ SF_vars(EnterLoop(s, e))
                                /\ WF_vars(Beating(s, e))
    /\ \A e \in Execution : WF_vars(HeartbeatLapses(e))
    /\ WF_vars(LeaseLapses)

FairSpec == Spec /\ Fairness

----------------------------------------------------------------------------
(* The promise.                                                            *)

Lifecycle == INSTANCE ExecutionLifecycle WITH st <- [e \in Execution |-> exec[e].status]

\* Whatever the threads of the processes do to the records, crashing, slow or
\* cancelled: one execution is active at a time, outcomes are final and
\* cancellations hold.
ImplementsLifecycle == Lifecycle!Spec

\* An execution that runs in a living process has the lease of the run, so
\* that no foreground scheduler and no other execution can get in (while
\* nobody outlasts a lease).
RunningHasLease ==
    \A s \in Supervisor, e \in Execution :
        (sup[s] = "up" /\ Mine(s, e) /\ exec[e].status # "starting") => Holds(s, e)

\* Success or failure is recorded only by the process that owns the execution at
\* that moment and, where the execution names a lease, still holds it: one that
\* was given up for dead and comes back late cannot decide about an execution
\* that was taken over.
OutcomeIsFenced ==
    [][\A e \in Execution :
        (exec[e].status \in Active /\ exec'[e].status \in {"completed", "failed"}) =>
            LET s == exec[e].owner IN
            /\ exec[e].lease = 0 \/ Holds(s, e)
            /\ \/ worker[s][e].pc = "finalize" /\ worker'[s][e].pc # "finalize"
               \/ request[s].pc = "finalize" /\ request[s].exec = e]_vars

\* While nobody outlasts a lease, one that nobody works under, renews or is about
\* to release is left only by a process that died: the one that held it, or the
\* one that cancelled the execution before it ran.  Otherwise the run could not
\* be scheduled for five minutes.
LeaseIsNotForgotten ==
    (lease # NoLease /\ ~InUse) =>
        \/ sup[lease.owner] = "dead"
        \/ /\ lease.exec # None
           /\ exec[lease.exec].status = "cancelled"
           /\ \E s \in Supervisor : sup[s] = "dead"

\* An execution taken over after a restart does not fail because of the lease
\* its own former process has left behind.
AdoptionNotRefused ==
    [][\A s \in Supervisor, e \in Execution :
        (worker[s][e].pc = "acquire" /\ worker'[s][e].pc = "finalize") => lease.exec # e]_vars

\* An execution that was recorded comes to an end, through crashes before,
\* while and after its worker runs.
ExecutionsEnd ==
    \A e \in Execution : exec[e].status \in Active ~> exec[e].status \in Outcome

\* The run can be scheduled again: no lease is held for ever.
LeaseIsFreed == lease # NoLease ~> lease = NoLease
=============================================================================
