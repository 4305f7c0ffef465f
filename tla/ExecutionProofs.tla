-------------------------- MODULE ExecutionProofs --------------------------
(* Theorems about BackgroundExecution, for any number of processes and      *)
(* executions, and whatever crashes, lapses and is closed.                  *)
EXTENDS BackgroundExecution, TLAPS

----------------------------------------------------------------------------
(* The inductive invariant.                                                *)

\* A request that has chosen an execution has one.
Targeted ==
    \A s \in Supervisor :
        (\/ request[s].pc \in {"claim", "launch", "finalize", "read", "cancel"}
         \/ request[s].pc = "reconcile" /\ request[s].kind \notin {"start", "schedule"}) =>
            request[s].exec \in Execution

\* An execution about to be recorded is unknown to everybody else.
Reserved ==
    \A s \in Supervisor :
        request[s].pc = "claim" =>
            /\ exec[request[s].exec].status = "absent"
            /\ \A x \in Supervisor \ {s} : request[x].exec # request[s].exec

\* A worker knows its outcome before it stores it, and counts below its budget.
Decided ==
    \A s \in Supervisor, e \in Execution :
        /\ worker[s][e].pc = "finalize" => worker[s][e].outcome # "none"
        /\ worker[s][e].pc = "loop" => worker[s][e].rounds < MaxIterations
        /\ worker[s][e].pc \in {"begin", "acquire", "mark", "enter", "prepare"} =>
              worker[s][e].rounds = 0

IInv == TypeOK /\ Targeted /\ Reserved /\ Decided /\ Lifecycle!OneActive

----------------------------------------------------------------------------
(* What the operations on the files return.                                *)

LEMMA NothingTyped ==
  /\ NoLease \in Lease /\ Idle \in Request /\ NoWorker \in Worker
  /\ 0 \in LeaseId /\ None \notin Execution
BY ExecutionAssumption DEF NoLease, Lease, LeaseId, Idle, Request, NoWorker, Worker

LEMMA EndedTyped ==
  ASSUME NEW x \in ExecRecord, NEW status \in Outcome
  PROVE  Ended(x, status) \in ExecRecord /\ Ended(x, status).status = status
BY NothingTyped DEF Ended, ExecRecord, Outcome

\* Reconciling ends active executions as stale and does nothing else.
LEMMA ReconciledTyped ==
  ASSUME TypeOK, NEW s \in Supervisor
  PROVE  /\ Reconciled(s) \in [Execution -> ExecRecord]
         /\ \A e \in Execution :
              \/ Reconciled(s)[e] = exec[e]
              \/ exec[e].status \in Active /\ Reconciled(s)[e].status = "stale"
<1>1. ASSUME NEW e \in Execution
      PROVE  /\ Ended(exec[e], "stale") \in ExecRecord /\ exec[e] \in ExecRecord
             /\ Ended(exec[e], "stale").status = "stale"
  BY EndedTyped DEF TypeOK, Outcome
<1> QED
  BY <1>1, Zenon DEF Reconciled, Expired, LostLease, Mine

\* Finalizing ends an active execution, a cancelled one as cancelled or stale.
LEMMA FinalizedTyped ==
  ASSUME TypeOK, NEW s \in Supervisor, NEW e \in Execution,
         NEW status \in {"cancelled", "completed", "failed"}
  PROVE  /\ Finalized(s, e, status) \in ExecRecord
         /\ \/ Finalized(s, e, status) = exec[e]
            \/ /\ exec[e].status \in Active
               /\ Finalized(s, e, status).status \in Outcome
               /\ exec[e].status = "cancelling" =>
                    Finalized(s, e, status).status \in {"cancelled", "stale"}
<1> DEFINE told == IF exec[e].status = "cancelling" THEN "cancelled" ELSE status
<1>1. exec[e] \in ExecRecord /\ "stale" \in Outcome /\ told \in Outcome
  BY DEF TypeOK, Outcome
<1>2. Ended(exec[e], "stale") \in ExecRecord /\ Ended(exec[e], "stale").status = "stale"
  BY <1>1, EndedTyped
<1>3. Ended(exec[e], told) \in ExecRecord /\ Ended(exec[e], told).status = told
  BY <1>1, EndedTyped
<1>4. CASE ~Mine(s, e)
  BY <1>1, <1>4 DEF Finalized, LostLease
<1>5. CASE Mine(s, e)
  <2>1. Finalized(s, e, status) \in {Ended(exec[e], "stale"), Ended(exec[e], told)}
    BY <1>5 DEF Finalized
  <2> QED
    BY <2>1, <1>1, <1>2, <1>3, <1>5 DEF Mine, Outcome
<1> QED
  BY <1>4, <1>5

\* Adopting leaves what is alive alone, takes over or ends the rest.
LEMMA AdoptedTyped ==
  ASSUME TypeOK, NEW s \in Supervisor, NEW taken
  PROVE  /\ Adopted(s, taken) \in [Execution -> ExecRecord]
         /\ \A e \in Execution :
              \/ Adopted(s, taken)[e] = exec[e]
              \/ Expired(s, e) /\ e = taken /\ Adopted(s, taken)[e].status = "starting"
              \/ /\ Expired(s, e)
                 /\ Adopted(s, taken)[e].status =
                      IF exec[e].status = "cancelling" THEN "cancelled" ELSE "stale"
<1> DEFINE told(e) == IF exec[e].status = "cancelling" THEN "cancelled" ELSE "stale"
<1>1. ASSUME NEW e \in Execution
      PROVE  /\ exec[e] \in ExecRecord /\ Ended(exec[e], told(e)) \in ExecRecord
             /\ Ended(exec[e], told(e)).status = told(e)
  BY EndedTyped DEF TypeOK, Outcome
<1>2. TakenOver(s) \in ExecRecord /\ TakenOver(s).status = "starting"
  BY NothingTyped DEF TakenOver, ExecRecord, Active
<1>3. ASSUME NEW e \in Execution
      PROVE  \/ Adopted(s, taken)[e] = exec[e]
             \/ Expired(s, e) /\ e = taken /\ Adopted(s, taken)[e] = TakenOver(s)
             \/ Expired(s, e) /\ Adopted(s, taken)[e] = Ended(exec[e], told(e))
  BY DEF Adopted, Late
<1>4. Adopted(s, taken) \in [Execution -> ExecRecord]
  <2>1. \A e \in Execution : Adopted(s, taken)[e] \in ExecRecord
    BY <1>1, <1>2, <1>3
  <2> QED
    BY <2>1 DEF Adopted
<1> QED
  BY <1>1, <1>2, <1>3, <1>4

LEMMA LeaseTyped ==
  ASSUME TypeOK
  PROVE  /\ \A id : Released(id) \in Lease
         /\ \A e : Stamped(e) \in Lease
         /\ \A s \in Supervisor, e \in Execution \cup {None} :
              Grant(s, e) => lease' \in Lease /\ granted' \in LeaseId /\ granted' = granted + 1
<1>1. \A e : Stamped(e) \in Lease
  BY DEF TypeOK, Stamped, Lease
<1>2. \A id : Released(id) \in Lease
  BY NothingTyped DEF TypeOK, Released
<1>3. ASSUME NEW s \in Supervisor, NEW e \in Execution \cup {None}, Grant(s, e)
      PROVE  lease' \in Lease /\ granted' \in LeaseId
  BY <1>3 DEF Grant, Lease
<1> QED
  BY <1>1, <1>2, <1>3 DEF Grant

LEMMA LeftoverTyped ==
  ASSUME TypeOK, NEW s \in Supervisor, NEW e \in Execution
  PROVE  Leftover(s, e) \in LeaseId
BY NothingTyped DEF Leftover, TypeOK, ExecRecord

LEMMA ServeTyped ==
  ASSUME TypeOK, NEW s \in Supervisor, NEW r \in Request, Serve(s, r)
  PROVE  request' \in [Supervisor -> Request]
BY DEF TypeOK, Serve

LEMMA WorkTyped ==
  ASSUME TypeOK, NEW s \in Supervisor, NEW e \in Execution, NEW w \in Worker, Work(s, e, w)
  PROVE  worker' \in [Supervisor -> [Execution -> Worker]]
BY DEF TypeOK, Work

LEMMA PulseTyped ==
  ASSUME TypeOK, NEW s \in Supervisor, NEW e \in Execution, NEW pc \in Beat, Pulse(s, e, pc)
  PROVE  beat' \in [Supervisor -> [Execution -> Beat]]
BY DEF TypeOK, Pulse

LEMMA StopTyped ==
  ASSUME TypeOK, NEW s \in Supervisor, NEW e \in Execution,
         NEW outcome \in {"cancelled", "completed", "failed"}, Stop(s, e, outcome)
  PROVE  worker' \in [Supervisor -> [Execution -> Worker]]
<1>1. [NoWorker EXCEPT !.pc = "finalize", !.outcome = outcome] \in Worker
  BY NothingTyped DEF Worker, NoWorker
<1> QED
  BY <1>1, WorkTyped DEF Stop

----------------------------------------------------------------------------
(* Every step keeps the types.                                             *)

LEMMA ProcessTyped ==
  ASSUME TypeOK, Targeted, NEW s \in Supervisor, Startup(s) \/ Adopt(s) \/ Crash(s)
  PROVE  TypeOK'
<1>1. CASE Startup(s)
  <2>1. [Idle EXCEPT !.pc = "adopt", !.kind = "startup", !.open = open] \in Request
    BY NothingTyped DEF Idle, Request, TypeOK
  <2>2. request' \in [Supervisor -> Request]
    BY <1>1, <2>1, ServeTyped DEF Startup
  <2> QED
    BY <1>1, <2>2 DEF Startup, TypeOK
<1>2. CASE Adopt(s)
  <2>1. PICK t : exec' = Adopted(s, t)
    BY <1>2 DEF Adopt
  <2>2. exec' \in [Execution -> ExecRecord]
    BY <2>1, AdoptedTyped
  <2>3. Resumable(s) \subseteq Execution
    BY DEF Resumable, Late
  <2>4. \A e \in Resumable(s) :
          [Idle EXCEPT !.pc = "launch", !.kind = "startup", !.exec = e] \in Request
    BY <2>3, NothingTyped DEF Idle, Request
  <2>5. request' \in [Supervisor -> Request]
    BY <1>2, <2>4, NothingTyped, ServeTyped DEF Adopt
  <2>6. lease' \in Lease
    BY <1>2, LeaseTyped DEF Adopt, TypeOK
  <2> QED
    BY <1>2, <2>2, <2>5, <2>6 DEF Adopt, TypeOK
<1>3. CASE Crash(s)
  <2>1. request' \in [Supervisor -> Request]
    BY <1>3, NothingTyped, ServeTyped DEF Crash
  <2>2. worker' \in [Supervisor -> [Execution -> Worker]]
    BY <1>3, NothingTyped DEF Crash, TypeOK
  <2>3. beat' \in [Supervisor -> [Execution -> Beat]]
    BY <1>3 DEF Crash, TypeOK, Beat
  <2> QED
    BY <1>3, <2>1, <2>2, <2>3 DEF Crash, TypeOK
<1> QED
  BY <1>1, <1>2, <1>3

LEMMA TimeTyped ==
  ASSUME TypeOK, LeaseLapses \/ CloseRun \/ \E e \in Execution : HeartbeatLapses(e)
  PROVE  TypeOK'
<1>1. CASE LeaseLapses
  BY <1>1, NothingTyped DEF LeaseLapses, TypeOK
<1>2. CASE CloseRun
  BY <1>2 DEF CloseRun, TypeOK
<1>3. ASSUME NEW e \in Execution, HeartbeatLapses(e)
      PROVE  TypeOK'
  <2>1. [exec EXCEPT ![e].fresh = FALSE] \in [Execution -> ExecRecord]
    BY DEF TypeOK, ExecRecord
  <2> QED
    BY <1>3, <2>1 DEF HeartbeatLapses, TypeOK
<1> QED
  BY <1>1, <1>2, <1>3

LEMMA RequestTyped ==
  ASSUME TypeOK, Targeted, NEW s \in Supervisor,
         \/ Poll(s) \/ Arrive(s) \/ ArriveCancel(s) \/ Reconcile(s) \/ Check(s)
         \/ EndWork(s) \/ GiveBack(s) \/ ReadForCancel(s)
  PROVE  TypeOK'
<1> DEFINE req == request[s]
<1>0. req \in Request
  BY DEF TypeOK
<1>1. CASE Poll(s)
  BY <1>1, ReconciledTyped DEF Poll, TypeOK
<1>2. CASE Arrive(s)
  <2>1. \A kind \in Offered \ {"cancel"} :
          [Idle EXCEPT !.pc = "reconcile", !.kind = kind] \in Request
    BY NothingTyped, ExecutionAssumption DEF Idle, Request
  <2>2. request' \in [Supervisor -> Request]
    BY <1>2, <2>1, ServeTyped DEF Arrive
  <2> QED
    BY <1>2, <2>2 DEF Arrive, TypeOK
<1>3. CASE ArriveCancel(s)
  <2>1. \A e \in Execution :
          [Idle EXCEPT !.pc = "reconcile", !.kind = "cancel", !.exec = e] \in Request
    BY NothingTyped DEF Idle, Request
  <2>2. request' \in [Supervisor -> Request]
    BY <1>3, <2>1, ServeTyped DEF ArriveCancel
  <2> QED
    BY <1>3, <2>2 DEF ArriveCancel, TypeOK
<1>4. CASE Reconcile(s)
  <2>1. PICK pc \in {"acquire", "check", "read"} : Serve(s, [req EXCEPT !.pc = pc])
    BY <1>4 DEF Reconcile
  <2>2. request' \in [Supervisor -> Request]
    BY <2>1, <1>0, ServeTyped DEF Request
  <2> QED
    BY <1>4, <2>2, ReconciledTyped DEF Reconcile, TypeOK
<1>5. CASE Check(s) \/ EndWork(s)
  <2>1. /\ Idle \in Request /\ [req EXCEPT !.pc = "acquire"] \in Request
        /\ [req EXCEPT !.pc = "giveBack"] \in Request
    BY <1>0, NothingTyped DEF Request
  <2>2. request' \in [Supervisor -> Request]
    BY <1>5, <2>1, ServeTyped DEF Check, EndWork
  <2> QED
    BY <1>5, <2>2 DEF Check, EndWork, TypeOK
<1>6. CASE GiveBack(s)
  <2>1. request' \in [Supervisor -> Request] /\ lease' \in Lease
    BY <1>6, NothingTyped, ServeTyped, LeaseTyped DEF GiveBack
  <2> QED
    BY <1>6, <2>1 DEF GiveBack, TypeOK
<1>7. CASE ReadForCancel(s)
  <2>1. req.exec \in Execution
    BY <1>7 DEF ReadForCancel, Targeted
  <2>2. [req EXCEPT !.pc = "cancel", !.lease = exec[req.exec].lease] \in Request
    BY <2>1, <1>0 DEF TypeOK, ExecRecord, Request
  <2>3. request' \in [Supervisor -> Request]
    BY <1>7, <2>2, NothingTyped, ServeTyped DEF ReadForCancel
  <2> QED
    BY <1>7, <2>3 DEF ReadForCancel, TypeOK
<1> QED
  BY <1>1, <1>2, <1>3, <1>4, <1>5, <1>6, <1>7

LEMMA StartTyped ==
  ASSUME TypeOK, Targeted, NEW s \in Supervisor,
         Acquire(s) \/ Claim(s) \/ Launch(s) \/ Fail(s) \/ Cancel(s)
  PROVE  TypeOK'
<1> DEFINE req == request[s]
<1>0. req \in Request /\ granted \in Nat
  BY ExecutionAssumption DEF TypeOK, LeaseId
<1>1. CASE Acquire(s)
  <2>1. CASE UNCHANGED <<lease, granted>> /\ Serve(s, Idle)
    BY <1>1, <2>1, NothingTyped, ServeTyped DEF Acquire, TypeOK
  <2>2. ASSUME NEW e \in Execution \cup {None}, Grant(s, e), NEW r,
               \/ r = [req EXCEPT !.pc = "claim", !.exec = e, !.lease = granted + 1]
               \/ r = [req EXCEPT !.pc = "work", !.lease = granted + 1],
               Serve(s, r)
        PROVE  TypeOK'
    <3>1. lease' \in Lease /\ granted' \in LeaseId /\ granted' = granted + 1
      BY <2>2, LeaseTyped
    <3>2. r \in Request
      BY <1>0, <2>2, <3>1 DEF Request
    <3> QED
      BY <1>1, <2>2, <3>1, <3>2, ServeTyped DEF Acquire, TypeOK
  <2> QED
    BY <1>1, <2>1, <2>2 DEF Acquire
<1>2. CASE Claim(s)
  <2>1. req.exec \in Execution /\ req.lease \in LeaseId
    BY <1>0, <1>2 DEF Claim, Targeted, Request
  <2>2. [status |-> "starting", owner |-> s, lease |-> req.lease, fresh |-> TRUE] \in ExecRecord
    BY <2>1 DEF ExecRecord, Active
  <2>3. exec' \in [Execution -> ExecRecord]
    BY <1>2, <2>2 DEF Claim, TypeOK
  <2>4. AfterRefusal(req) \in Request /\ [req EXCEPT !.pc = "launch"] \in Request
    BY <1>0 DEF AfterRefusal, Request
  <2>5. request' \in [Supervisor -> Request]
    BY <1>2, <2>4, ServeTyped DEF Claim
  <2> QED
    BY <1>2, <2>3, <2>5 DEF Claim, TypeOK
<1>3. CASE Launch(s)
  <2>1. req.exec \in Execution
    BY <1>3 DEF Launch, Targeted
  <2>2. [NoWorker EXCEPT !.pc = "begin"] \in Worker /\ [req EXCEPT !.pc = "finalize"] \in Request
    BY <1>0, NothingTyped DEF Worker, Request, NoWorker
  <2>3. request' \in [Supervisor -> Request]
    BY <1>3, <2>2, NothingTyped, ServeTyped DEF Launch
  <2>4. worker' \in [Supervisor -> [Execution -> Worker]]
    BY <1>3, <2>1, <2>2, WorkTyped DEF Launch, TypeOK
  <2> QED
    BY <1>3, <2>3, <2>4 DEF Launch, TypeOK
<1>4. CASE Fail(s)
  <2>1. req.exec \in Execution
    BY <1>4 DEF Fail, Targeted
  <2>2. Finalized(s, req.exec, "failed") \in ExecRecord /\ Leftover(s, req.exec) \in LeaseId
    BY <2>1, FinalizedTyped, LeftoverTyped
  <2>3. [req EXCEPT !.pc = "release", !.lease = Leftover(s, req.exec)] \in Request
    BY <1>0, <2>2 DEF Request
  <2>4. request' \in [Supervisor -> Request]
    BY <1>4, <2>3, NothingTyped, ServeTyped DEF Fail
  <2> QED
    BY <1>4, <2>2, <2>4 DEF Fail, TypeOK
<1>5. CASE Cancel(s)
  <2>1. req.exec \in Execution
    BY <1>5 DEF Cancel, Targeted
  <2>2. [req EXCEPT !.pc = "release"] \in Request
    BY <1>0 DEF Request
  <2>3. request' \in [Supervisor -> Request]
    BY <1>5, <2>2, NothingTyped, ServeTyped DEF Cancel
  <2>4. exec[req.exec] \in ExecRecord /\ Ended(exec[req.exec], "cancelled") \in ExecRecord
    BY <2>1, EndedTyped DEF TypeOK, Outcome
  <2>5. [exec[req.exec] EXCEPT !.status = "cancelling", !.fresh = TRUE] \in ExecRecord
    BY <2>4 DEF ExecRecord, Active
  <2>6. exec' \in [Execution -> ExecRecord] /\ lease' \in Lease
    <3>1. CASE exec' = [exec EXCEPT ![req.exec] = Ended(@, "cancelled")] /\ UNCHANGED lease
      BY <3>1, <2>1, <2>4 DEF TypeOK
    <3>2. CASE /\ exec' = [exec EXCEPT ![req.exec].status = "cancelling", ![req.exec].fresh = TRUE]
               /\ lease' = Stamped(req.exec)
      <4>1. exec' = [exec EXCEPT ![req.exec] =
                        [exec[req.exec] EXCEPT !.status = "cancelling", !.fresh = TRUE]]
        BY <3>2, <2>1 DEF TypeOK
      <4> QED
        BY <3>2, <4>1, <2>1, <2>5, LeaseTyped DEF TypeOK
    <3>3. CASE UNCHANGED <<exec, lease>>
      BY <3>3 DEF TypeOK
    <3> QED
      BY <1>5, <3>1, <3>2, <3>3 DEF Cancel
  <2> QED
    BY <1>5, <2>3, <2>6 DEF Cancel, TypeOK
<1> QED
  BY <1>1, <1>2, <1>3, <1>4, <1>5

LEMMA WorkerTyped ==
  ASSUME TypeOK, Decided, NEW s \in Supervisor, NEW e \in Execution, Working(s, e)
  PROVE  TypeOK'
<1> DEFINE w == worker[s][e]
<1>0. w \in Worker /\ exec[e] \in ExecRecord /\ Over \in Worker /\ lease.id \in LeaseId
  <2>1. w \in Worker /\ exec[e] \in ExecRecord
    BY DEF TypeOK
  <2>2. Over \in Worker
    BY NothingTyped DEF Over, NoWorker, Worker
  <2>3. lease.id \in LeaseId
    BY DEF TypeOK, Lease
  <2> QED
    BY <2>1, <2>2, <2>3
<1>1. CASE Begin(s, e)
  <2>1. /\ [w EXCEPT !.pc = "mark", !.lease = lease.id] \in Worker
        /\ [w EXCEPT !.pc = "acquire"] \in Worker
    BY <1>0 DEF Worker
  <2>2. worker' \in [Supervisor -> [Execution -> Worker]]
    BY <1>0, <1>1, <2>1, WorkTyped DEF Begin
  <2> QED
    BY <1>1, <2>2 DEF Begin, TypeOK
<1>2. CASE AcquireForWorker(s, e)
  <2>1. CASE Grant(s, e) /\ Work(s, e, [w EXCEPT !.pc = "mark", !.lease = granted + 1])
    <3>1. lease' \in Lease /\ granted' \in LeaseId /\ granted' = granted + 1
      BY <2>1, LeaseTyped
    <3>2. [w EXCEPT !.pc = "mark", !.lease = granted + 1] \in Worker
      BY <1>0, <3>1 DEF Worker
    <3>3. worker' \in [Supervisor -> [Execution -> Worker]]
      BY <2>1, <3>2, WorkTyped
    <3> QED
      BY <1>2, <3>1, <3>3 DEF AcquireForWorker, TypeOK
  <2>2. CASE Stop(s, e, "failed") /\ UNCHANGED <<lease, granted>>
    BY <1>2, <2>2, StopTyped DEF AcquireForWorker, TypeOK
  <2> QED
    BY <1>2, <2>1, <2>2 DEF AcquireForWorker
<1>3. CASE Mark(s, e)
  <2>1. /\ [w EXCEPT !.pc = "enter"] \in Worker /\ [w EXCEPT !.pc = "drop"] \in Worker
        /\ [exec[e] EXCEPT !.status = "running", !.fresh = TRUE, !.lease = w.lease] \in ExecRecord
    BY <1>0 DEF Worker, ExecRecord, Active
  <2>2. worker' \in [Supervisor -> [Execution -> Worker]]
    BY <1>3, <2>1, WorkTyped, StopTyped DEF Mark
  <2>3. beat' \in [Supervisor -> [Execution -> Beat]]
    BY <1>3 DEF Mark, TypeOK, Beat
  <2>4. CASE Mine(s, e) /\ exec[e].status = "starting"
    <3>1. exec' = [exec EXCEPT ![e] =
              [exec[e] EXCEPT !.status = "running", !.fresh = TRUE, !.lease = w.lease]]
      BY <1>3, <2>4 DEF Mark, TypeOK
    <3>2. exec' \in [Execution -> ExecRecord] /\ lease' \in Lease
      BY <1>3, <2>1, <2>4, <3>1, LeaseTyped DEF Mark, TypeOK
    <3> QED
      BY <1>3, <2>2, <2>3, <3>2 DEF Mark, TypeOK
  <2>5. CASE ~(Mine(s, e) /\ exec[e].status = "starting")
    BY <1>3, <2>2, <2>3, <2>5 DEF Mark, TypeOK
  <2> QED
    BY <2>4, <2>5
<1>4. CASE EnterLoop(s, e)
  <2>1. [w EXCEPT !.pc = "prepare"] \in Worker
    BY <1>0 DEF Worker
  <2>2. worker' \in [Supervisor -> [Execution -> Worker]]
    BY <1>4, <2>1, WorkTyped, StopTyped DEF EnterLoop
  <2> QED
    BY <1>4, <2>2 DEF EnterLoop, TypeOK
<1>5. CASE Prepare(s, e)
  <2>1. [w EXCEPT !.pc = "loop"] \in Worker
    BY <1>0 DEF Worker
  <2>2. PICK outcome \in {"cancelled", "completed", "failed"} :
          Stop(s, e, outcome) \/ Work(s, e, [w EXCEPT !.pc = "loop"])
    BY <1>5 DEF Prepare
  <2>3. worker' \in [Supervisor -> [Execution -> Worker]]
    BY <2>1, <2>2, WorkTyped, StopTyped
  <2> QED
    BY <1>5, <2>3, ReconciledTyped DEF Prepare, TypeOK
<1>6. CASE Loop(s, e)
  <2>1. w.rounds < MaxIterations /\ w.rounds \in 0..MaxIterations
    BY <1>0, <1>6 DEF Loop, Decided, Worker
  <2>2. Counted(w) \in Worker
    <3>1. w.rounds + 1 \in 0..MaxIterations
      BY <2>1, ExecutionAssumption
    <3> QED
      BY <1>0, <3>1 DEF Counted, Worker
  <2>3. worker' \in [Supervisor -> [Execution -> Worker]]
    BY <1>6, <2>2, WorkTyped, StopTyped DEF Loop
  <2> QED
    BY <1>6, <2>3, ReconciledTyped DEF Loop, TypeOK
<1>7. CASE Cycle(s, e)
  <2>1. [w EXCEPT !.pc = "loop"] \in Worker
    BY <1>0 DEF Worker
  <2>2. PICK outcome \in {"cancelled", "completed", "failed"} :
          Stop(s, e, outcome) \/ Work(s, e, [w EXCEPT !.pc = "loop"])
    BY <1>7 DEF Cycle
  <2>3. worker' \in [Supervisor -> [Execution -> Worker]]
    BY <2>1, <2>2, WorkTyped, StopTyped
  <2> QED
    BY <1>7, <2>3 DEF Cycle, TypeOK
<1>8. CASE Finalize(s, e)
  <2>1. w.outcome \in {"cancelled", "completed", "failed"}
    BY <1>0, <1>8 DEF Finalize, Decided, Worker
  <2>2. Finalized(s, e, w.outcome) \in ExecRecord /\ Leftover(s, e) \in LeaseId
    BY <2>1, FinalizedTyped, LeftoverTyped
  <2>3. [NoWorker EXCEPT !.pc = "release", !.lease = Leftover(s, e)] \in Worker
    BY <2>2, NothingTyped DEF NoWorker, Worker
  <2>4. worker' \in [Supervisor -> [Execution -> Worker]]
    BY <1>0, <1>8, <2>3, WorkTyped DEF Finalize
  <2> QED
    BY <1>8, <2>2, <2>4 DEF Finalize, TypeOK
<1>9. CASE DropLease(s, e)
  <2>1. worker' \in [Supervisor -> [Execution -> Worker]]
    BY <1>0, <1>9, WorkTyped DEF DropLease
  <2> QED
    BY <1>9, <2>1, LeaseTyped DEF DropLease, TypeOK
<1> QED
  BY <1>1, <1>2, <1>3, <1>4, <1>5, <1>6, <1>7, <1>8, <1>9 DEF Working

LEMMA BeatTyped ==
  ASSUME TypeOK, NEW s \in Supervisor, NEW e \in Execution, Beating(s, e)
  PROVE  TypeOK'
<1>1. beat' \in [Supervisor -> [Execution -> Beat]]
  BY PulseTyped DEF Beating, BeatRenew, BeatWrite, Beat
<1>2. CASE BeatRenew(s, e)
  <2>1. [lease EXCEPT !.younger = TRUE] \in Lease
    BY DEF TypeOK, Lease
  <2> QED
    BY <1>1, <1>2, <2>1 DEF BeatRenew, TypeOK
<1>3. CASE BeatWrite(s, e)
  <2>1. [exec EXCEPT ![e].fresh = TRUE] \in [Execution -> ExecRecord]
    BY DEF TypeOK, ExecRecord
  <2> QED
    BY <1>1, <1>3, <2>1, LeaseTyped DEF BeatWrite, TypeOK
<1> QED
  BY <1>2, <1>3 DEF Beating

LEMMA StepTyped == TypeOK /\ Targeted /\ Decided /\ [Next]_vars => TypeOK'
<1> SUFFICES ASSUME TypeOK, Targeted, Decided, [Next]_vars PROVE TypeOK'
  OBVIOUS
<1>1. CASE UNCHANGED vars
  BY <1>1 DEF vars, TypeOK
<1>2. CASE Next
  BY <1>2, ProcessTyped, TimeTyped, RequestTyped, StartTyped, WorkerTyped, BeatTyped
    DEF Next, Serving
<1> QED
  BY <1>1, <1>2

----------------------------------------------------------------------------
(* The parts of the invariant about requests and workers.                  *)

\* Only a process of its own touches the request of a supervisor.
LEMMA Served ==
  ASSUME TypeOK, [Next]_vars, NEW s \in Supervisor, request'[s] # request[s]
  PROVE  /\ \A r : \A x \in Supervisor : Serve(x, r) => x = s /\ request'[s] = r
         /\ Startup(s) \/ Adopt(s) \/ Crash(s) \/ Arrive(s) \/ ArriveCancel(s) \/ Serving(s)
<1>1. \A r : \A x \in Supervisor : Serve(x, r) => x = s /\ request'[s] = r
  BY DEF Serve, TypeOK
<1>2. \A x \in Supervisor, e \in Execution : ~Working(x, e) /\ ~Beating(x, e)
  BY DEF Working, Begin, AcquireForWorker, Mark, EnterLoop, Prepare, Loop, Cycle,
    Finalize, DropLease, Beating, BeatRenew, BeatWrite
<1>3. ~LeaseLapses /\ ~CloseRun /\ ~UNCHANGED vars /\ \A e \in Execution : ~HeartbeatLapses(e)
  BY DEF LeaseLapses, CloseRun, HeartbeatLapses, vars
<1>4. \A x \in Supervisor : ~Poll(x)
  BY DEF Poll
<1>5. PICK x \in Supervisor :
        Startup(x) \/ Adopt(x) \/ Crash(x) \/ Arrive(x) \/ ArriveCancel(x) \/ Serving(x)
  BY <1>2, <1>3, <1>4 DEF Next
<1>6. \E r : Serve(x, r)
  BY <1>5 DEF Startup, Adopt, Crash, Arrive, ArriveCancel, Serving, Reconcile, Check, Acquire,
    EndWork, Claim, GiveBack, Launch, Fail, ReadForCancel, Cancel
<1> QED
  BY <1>1, <1>5, <1>6

LEMMA TargetedStep == TypeOK /\ Targeted /\ [Next]_vars => Targeted'
<1> SUFFICES ASSUME TypeOK, Targeted, [Next]_vars PROVE Targeted'
  OBVIOUS
<1> DEFINE Chosen(r) ==
      (\/ r.pc \in {"claim", "launch", "finalize", "read", "cancel"}
       \/ r.pc = "reconcile" /\ r.kind \notin {"start", "schedule"}) => r.exec \in Execution
<1>1. SUFFICES ASSUME NEW s \in Supervisor, request'[s] # request[s] PROVE Chosen(request'[s])
  BY DEF Targeted
<1>2. request[s] \in Request /\ Chosen(request[s])
  BY DEF TypeOK, Targeted
<1>3. \A r : \A x \in Supervisor : Serve(x, r) => x = s /\ request'[s] = r
  BY <1>1, Served
<1>4. Chosen(Idle)
  BY DEF Idle
<1>5. CASE Startup(s)
  <2>1. Chosen([Idle EXCEPT !.pc = "adopt", !.kind = "startup", !.open = open])
    BY DEF Idle
  <2> QED
    BY <1>3, <1>5, <2>1 DEF Startup
<1>6. CASE Adopt(s)
  <2>1. \A e \in Resumable(s) :
          Chosen([Idle EXCEPT !.pc = "launch", !.kind = "startup", !.exec = e])
    BY DEF Idle, Resumable, Late
  <2> QED
    BY <1>3, <1>4, <1>6, <2>1 DEF Adopt
<1>7. CASE Arrive(s) \/ ArriveCancel(s)
  <2>1. \A kind \in Offered \ {"cancel"} : Chosen([Idle EXCEPT !.pc = "reconcile", !.kind = kind])
    BY ExecutionAssumption DEF Idle
  <2>2. \A e \in Execution :
          Chosen([Idle EXCEPT !.pc = "reconcile", !.kind = "cancel", !.exec = e])
    BY DEF Idle
  <2> QED
    BY <1>3, <1>7, <2>1, <2>2 DEF Arrive, ArriveCancel
<1>8. CASE Reconcile(s) \/ Check(s) \/ EndWork(s) \/ Claim(s) \/ ReadForCancel(s)
  BY <1>2, <1>3, <1>4, <1>8
    DEF Reconcile, Check, EndWork, Claim, ReadForCancel, AfterRefusal, Request
<1>9. CASE Acquire(s)
  BY <1>2, <1>3, <1>4, <1>9 DEF Acquire, Request
<1>10. CASE GiveBack(s) \/ Launch(s) \/ Fail(s) \/ Cancel(s) \/ Crash(s)
  BY <1>2, <1>3, <1>4, <1>10 DEF GiveBack, Launch, Fail, Cancel, Crash, Request
<1>11. Startup(s) \/ Adopt(s) \/ Crash(s) \/ Arrive(s) \/ ArriveCancel(s) \/ Serving(s)
  BY <1>1, Served
<1> QED
  BY <1>5, <1>6, <1>7, <1>8, <1>9, <1>10, <1>11 DEF Serving

LEMMA DecidedStep == TypeOK /\ Decided /\ [Next]_vars => Decided'
<1> SUFFICES ASSUME TypeOK, Decided, [Next]_vars PROVE Decided'
  OBVIOUS
<1> DEFINE Sound(w) ==
      /\ w.pc = "finalize" => w.outcome # "none"
      /\ w.pc = "loop" => w.rounds < MaxIterations
      /\ w.pc \in {"begin", "acquire", "mark", "enter", "prepare"} => w.rounds = 0
<1>1. SUFFICES ASSUME NEW s \in Supervisor, NEW e \in Execution, worker'[s][e] # worker[s][e]
               PROVE  Sound(worker'[s][e])
  BY DEF Decided
<1>2. /\ worker[s][e] \in Worker /\ Sound(worker[s][e])
      /\ 0 \in Nat /\ 0 < MaxIterations /\ MaxIterations \in Nat
  BY ExecutionAssumption DEF TypeOK, Decided
<1>3. \A w : \A x \in Supervisor, d \in Execution :
        Work(x, d, w) => (x = s /\ d = e /\ worker'[s][e] = w)
  BY <1>1 DEF Work, TypeOK
<1>4. Sound(NoWorker) /\ Sound([NoWorker EXCEPT !.pc = "begin"]) /\ Sound(Over)
  BY DEF NoWorker, Over
<1>5. \A outcome \in {"cancelled", "completed", "failed"} :
        Stop(s, e, outcome) => Sound(worker'[s][e])
  <2>1. ASSUME NEW outcome \in {"cancelled", "completed", "failed"}
        PROVE  Sound([NoWorker EXCEPT !.pc = "finalize", !.outcome = outcome])
    BY DEF NoWorker
  <2> QED
    BY <1>3, <2>1 DEF Stop
<1>6. CASE \E x \in Supervisor : Crash(x)
  BY <1>1, <1>4, <1>6 DEF Crash, TypeOK
<1>7. CASE \E x \in Supervisor : Launch(x)
  <2>1. PICK x \in Supervisor : Work(x, request[x].exec, [NoWorker EXCEPT !.pc = "begin"])
    BY <1>1, <1>7 DEF Launch
  <2>2. worker'[s][e] = [NoWorker EXCEPT !.pc = "begin"]
    BY <1>1, <2>1 DEF Work, TypeOK
  <2> QED
    BY <1>4, <2>2
<1>8. CASE Begin(s, e)
  <2>1. Sound([worker[s][e] EXCEPT !.pc = "mark", !.lease = lease.id])
    BY <1>2, <1>8 DEF Begin, Worker
  <2>2. Sound([worker[s][e] EXCEPT !.pc = "acquire"])
    BY <1>2, <1>8 DEF Begin, Worker
  <2>3. \/ Work(s, e, Over) \/ Work(s, e, [worker[s][e] EXCEPT !.pc = "acquire"])
        \/ Work(s, e, [worker[s][e] EXCEPT !.pc = "mark", !.lease = lease.id])
    BY <1>8 DEF Begin
  <2> QED
    BY <1>3, <1>4, <2>1, <2>2, <2>3
<1>9. CASE AcquireForWorker(s, e)
  <2>1. Sound([worker[s][e] EXCEPT !.pc = "mark", !.lease = granted + 1])
    BY <1>2, <1>9 DEF AcquireForWorker, Worker
  <2>2. \/ Stop(s, e, "failed")
        \/ Work(s, e, [worker[s][e] EXCEPT !.pc = "mark", !.lease = granted + 1])
    BY <1>9 DEF AcquireForWorker
  <2> QED
    BY <1>3, <1>5, <2>1, <2>2
<1>10. CASE Mark(s, e)
  BY <1>2, <1>3, <1>5, <1>10 DEF Mark, Worker
<1>11. CASE EnterLoop(s, e)
  BY <1>2, <1>3, <1>5, <1>11 DEF EnterLoop, Worker
<1>12. CASE Prepare(s, e)
  <2>1. Sound([worker[s][e] EXCEPT !.pc = "loop"])
    BY <1>2, <1>12 DEF Prepare, Worker
  <2>2. \/ \E outcome \in {"cancelled", "completed", "failed"} : Stop(s, e, outcome)
        \/ Work(s, e, [worker[s][e] EXCEPT !.pc = "loop"])
    BY <1>12 DEF Prepare
  <2> QED
    BY <1>3, <1>5, <2>1, <2>2
<1>13. CASE Loop(s, e)
  <2>1. Sound(Counted(worker[s][e]))
    BY <1>2 DEF Counted, Worker
  <2> QED
    BY <1>3, <1>5, <1>13, <2>1 DEF Loop
<1>14. CASE Cycle(s, e)
  <2>1. CASE \E outcome \in {"cancelled", "completed", "failed"} : Stop(s, e, outcome)
    BY <1>5, <2>1
  <2>2. CASE Work(s, e, [worker[s][e] EXCEPT !.pc = "loop"]) /\ ~Spent(worker[s][e])
    <3>1. worker[s][e].rounds < MaxIterations
      BY <1>2, <2>2 DEF Spent, Worker
    <3>2. Sound([worker[s][e] EXCEPT !.pc = "loop"])
      BY <1>2, <3>1 DEF Worker
    <3> QED
      BY <1>3, <2>2, <3>2
  <2> QED
    BY <1>14, <2>1, <2>2 DEF Cycle
<1>15. CASE Finalize(s, e)
  <2>1. \A lid : Sound([NoWorker EXCEPT !.pc = "release", !.lease = lid])
    BY DEF NoWorker
  <2>2. \/ Work(s, e, Over)
        \/ Work(s, e, [NoWorker EXCEPT !.pc = "release", !.lease = Leftover(s, e)])
    BY <1>15 DEF Finalize
  <2> QED
    BY <1>3, <1>4, <2>1, <2>2
<1>16. CASE DropLease(s, e)
  BY <1>3, <1>4, <1>16 DEF DropLease
<1>17. \/ \E x \in Supervisor : Crash(x) \/ Launch(x)
       \/ \E x \in Supervisor, d \in Execution : Working(x, d)
  BY <1>1 DEF Next, Serving, Startup, Adopt, Poll, Arrive, ArriveCancel, Reconcile, Check,
    Acquire, EndWork, Claim, GiveBack, Fail, ReadForCancel, Cancel, Beating, BeatRenew, BeatWrite,
    HeartbeatLapses, LeaseLapses, CloseRun, vars
<1>18. \A x \in Supervisor, d \in Execution : Working(x, d) => x = s /\ d = e
  <2>1. ASSUME NEW x \in Supervisor, NEW d \in Execution, Working(x, d)
        PROVE  \E w : Work(x, d, w)
    BY <1>1, <2>1 DEF Working, Begin, AcquireForWorker, Mark, EnterLoop, Prepare, Loop, Cycle,
      Finalize, DropLease, Stop
  <2> QED
    BY <1>3, <2>1
<1> QED
  BY <1>6, <1>7, <1>8, <1>9, <1>10, <1>11, <1>12, <1>13, <1>14, <1>15, <1>16, <1>17, <1>18
    DEF Working

----------------------------------------------------------------------------
(* What a step may do to the status of an execution.                       *)

\* Only the claim of a start request brings up an execution; everything else
\* moves active ones along.
Moves(e) ==
    LET from == exec[e].status
        to == exec'[e].status IN
    \/ from = to
    \/ from = "starting" /\ to = "running"
    \/ from = "running" /\ to \in {"starting", "cancelling"}
    \/ from \in Active /\ to \in Outcome /\ (from = "cancelling" => to \in {"cancelled", "stale"})

Claims ==
    \E s \in Supervisor :
        /\ Claim(s)
        /\ \A e \in Execution : exec[e].status \notin Active
        /\ exec' = [exec EXCEPT ![request[s].exec] =
              [status |-> "starting", owner |-> s, lease |-> request[s].lease, fresh |-> TRUE]]

LEMMA ReconcileMoves ==
  ASSUME TypeOK, NEW s \in Supervisor, exec' = Reconciled(s)
  PROVE  \A e \in Execution : Moves(e)
<1> TAKE e \in Execution
<1>1. \/ exec'[e] = exec[e]
      \/ exec[e].status \in Active /\ exec'[e].status = "stale"
  BY ReconciledTyped
<1> QED
  BY <1>1 DEF Moves, Outcome

LEMMA FinalizeMoves ==
  ASSUME TypeOK, NEW s \in Supervisor, NEW e \in Execution,
         NEW status \in {"cancelled", "completed", "failed"},
         exec' = [exec EXCEPT ![e] = Finalized(s, e, status)]
  PROVE  \A x \in Execution : Moves(x)
<1> TAKE x \in Execution
<1>1. CASE x = e
  <2>1. exec'[e] = Finalized(s, e, status)
    BY DEF TypeOK
  <2> QED
    BY <1>1, <2>1, FinalizedTyped DEF Moves
<1>2. CASE x # e
  BY <1>2 DEF Moves, TypeOK
<1> QED
  BY <1>1, <1>2

LEMMA AdoptMoves ==
  ASSUME TypeOK, NEW s \in Supervisor, Adopt(s)
  PROVE  \A e \in Execution : Moves(e)
<1> TAKE e \in Execution
<1>1. PICK t \in Resumable(s) \cup {None} : exec' = Adopted(s, t)
  BY DEF Adopt
<1>2. e = t => exec[e].status # "cancelling"
  BY NothingTyped DEF Resumable
<1>3. \/ exec'[e] = exec[e]
      \/ Expired(s, e) /\ e = t /\ exec'[e].status = "starting"
      \/ /\ Expired(s, e)
         /\ exec'[e].status = IF exec[e].status = "cancelling" THEN "cancelled" ELSE "stale"
  BY <1>1, AdoptedTyped
<1> QED
  BY <1>2, <1>3 DEF Moves, Outcome, Active, Expired

LEMMA StepMoves ==
  ASSUME TypeOK, Targeted, Decided, [Next]_vars
  PROVE  Claims \/ \A e \in Execution : Moves(e)
<1>1. UNCHANGED exec => \A e \in Execution : Moves(e)
  BY DEF Moves
<1>2. ASSUME NEW s \in Supervisor, Adopt(s) \/ Poll(s) \/ Reconcile(s)
      PROVE  \A e \in Execution : Moves(e)
  BY <1>2, AdoptMoves, ReconcileMoves DEF Poll, Reconcile
<1>3. ASSUME NEW s \in Supervisor, Claim(s)
      PROVE  Claims \/ \A e \in Execution : Moves(e)
  BY <1>1, <1>3 DEF Claim, Claims
<1>4. ASSUME NEW s \in Supervisor, Fail(s)
      PROVE  \A e \in Execution : Moves(e)
  <2>1. request[s].exec \in Execution
    BY <1>4 DEF Fail, Targeted
  <2> QED
    BY <1>4, <2>1, FinalizeMoves DEF Fail
<1>5. ASSUME NEW s \in Supervisor, Cancel(s), NEW x \in Execution
      PROVE  Moves(x)
  <2> DEFINE e == request[s].exec
  <2>1. e \in Execution
    BY <1>5 DEF Cancel, Targeted
  <2>2. exec[e] \in ExecRecord /\ Ended(exec[e], "cancelled").status = "cancelled"
    BY <2>1, EndedTyped DEF TypeOK, Outcome
  <2>3. CASE exec[e].status = "starting" /\ exec' = [exec EXCEPT ![e] = Ended(@, "cancelled")]
    BY <2>1, <2>2, <2>3 DEF TypeOK, Moves, Outcome, Active
  <2>4. CASE /\ exec[e].status = "running"
             /\ exec' = [exec EXCEPT ![e].status = "cancelling", ![e].fresh = TRUE]
    <3>1. exec'[e].status = "cancelling" /\ (x # e => exec'[x] = exec[x])
      BY <2>1, <2>2, <2>4 DEF TypeOK, ExecRecord
    <3> QED
      BY <2>4, <3>1 DEF Moves
  <2> QED
    BY <1>1, <1>5, <2>3, <2>4 DEF Cancel
<1>6. ASSUME NEW s \in Supervisor, NEW d \in Execution, Working(s, d)
      PROVE  \A e \in Execution : Moves(e)
  <2>1. CASE Mark(s, d) /\ Mine(s, d) /\ exec[d].status = "starting"
    <3>1. exec' = [exec EXCEPT ![d].status = "running", ![d].fresh = TRUE,
                               ![d].lease = worker[s][d].lease]
      BY <2>1 DEF Mark
    <3>2. exec'[d].status = "running" /\ \A e \in Execution \ {d} : exec'[e] = exec[e]
      BY <3>1 DEF TypeOK, ExecRecord
    <3> QED
      BY <2>1, <3>2 DEF Moves
  <2>2. CASE Finalize(s, d)
    <3>1. worker[s][d].outcome \in {"cancelled", "completed", "failed"}
      BY <2>2 DEF Finalize, Decided, TypeOK, Worker
    <3> QED
      BY <2>2, <3>1, FinalizeMoves DEF Finalize
  <2>3. CASE Prepare(s, d) \/ Loop(s, d)
    BY <1>1, <2>3, ReconcileMoves DEF Prepare, Loop
  <2> QED
    BY <1>1, <1>6, <2>1, <2>2, <2>3 DEF Working, Begin, AcquireForWorker, Mark, EnterLoop,
      Cycle, DropLease
<1>7. ASSUME NEW e \in Execution, exec' = [exec EXCEPT ![e].fresh = TRUE]
                                  \/ exec' = [exec EXCEPT ![e].fresh = FALSE]
      PROVE  \A x \in Execution : Moves(x)
  <2> TAKE x \in Execution
  <2>1. PICK fresh \in BOOLEAN : exec' = [exec EXCEPT ![e] = [exec[e] EXCEPT !.fresh = fresh]]
    BY <1>7 DEF TypeOK
  <2>2. exec'[x].status = exec[x].status
    BY <2>1 DEF TypeOK, ExecRecord
  <2> QED
    BY <2>2 DEF Moves
<1>8. ASSUME NEW e \in Execution, HeartbeatLapses(e) \/ \E s \in Supervisor : Beating(s, e)
      PROVE  \A x \in Execution : Moves(x)
  BY <1>1, <1>7, <1>8 DEF HeartbeatLapses, Beating, BeatRenew, BeatWrite
<1>9. ASSUME NEW s \in Supervisor,
             \/ Startup(s) \/ Crash(s) \/ Arrive(s) \/ ArriveCancel(s) \/ Check(s) \/ Acquire(s)
             \/ EndWork(s) \/ GiveBack(s) \/ Launch(s) \/ ReadForCancel(s)
      PROVE  UNCHANGED exec
  BY <1>9 DEF Startup, Crash, Arrive, ArriveCancel, Check, Acquire, EndWork, GiveBack, Launch,
    ReadForCancel
<1>10. LeaseLapses \/ CloseRun \/ UNCHANGED vars => UNCHANGED exec
  BY DEF LeaseLapses, CloseRun, vars
<1> QED
  BY <1>1, <1>2, <1>3, <1>4, <1>5, <1>6, <1>8, <1>9, <1>10 DEF Next, Serving

----------------------------------------------------------------------------
(* Every step is a step of the lifecycle.                                  *)

StatusOf == [e \in Execution |-> exec[e].status]

LEMMA Refines == IInv /\ [Next]_vars => [Lifecycle!Next]_StatusOf
<1> SUFFICES ASSUME IInv, [Next]_vars PROVE Lifecycle!Next \/ StatusOf' = StatusOf
  OBVIOUS
<1>1. TypeOK /\ Targeted /\ Reserved /\ Decided
  BY DEF IInv
<1>2. \A e, x \in Execution : exec[e].status \in Active /\ exec[x].status \in Active => e = x
  BY DEF IInv, Lifecycle!OneActive, Lifecycle!Active, Active
<1>3. CASE Claims
  <2>1. PICK s \in Supervisor :
          /\ Claim(s)
          /\ \A e \in Execution : exec[e].status \notin Active
          /\ exec' = [exec EXCEPT ![request[s].exec] =
                [status |-> "starting", owner |-> s, lease |-> request[s].lease, fresh |-> TRUE]]
    BY <1>3 DEF Claims
  <2>2. PICK e \in Execution : e = request[s].exec /\ exec[e].status = "absent"
    BY <1>1, <2>1 DEF Claim, Targeted, Reserved
  <2>3. StatusOf' = [StatusOf EXCEPT ![e] = "starting"]
    BY <1>1, <2>1, <2>2 DEF StatusOf, TypeOK
  <2>4. Lifecycle!Record(e)
    BY <2>1, <2>2, <2>3 DEF Lifecycle!Record, Lifecycle!Move, Lifecycle!Active, Active, StatusOf
  <2> QED
    BY <2>2, <2>4 DEF Lifecycle!Next
<1>4. CASE \A e \in Execution : Moves(e)
  <2>1. CASE \A e \in Execution : exec'[e].status = exec[e].status
    <3>1. StatusOf' = StatusOf
      BY <2>1 DEF StatusOf
    <3> QED
      BY <3>1
  <2>2. ASSUME NEW e \in Execution, exec'[e].status # exec[e].status
        PROVE  Lifecycle!Next
    <3>1. exec[e].status \in Active
      BY <1>4, <2>2 DEF Moves, Active
    <3>2. \A x \in Execution \ {e} : exec'[x].status = exec[x].status
      BY <1>2, <1>4, <3>1 DEF Moves, Active
    <3>3. StatusOf' = [StatusOf EXCEPT ![e] = exec'[e].status]
      BY <3>2 DEF StatusOf
    <3>4. StatusOf[e] = exec[e].status
      BY DEF StatusOf
    <3>5. Lifecycle!Begin(e) \/ Lifecycle!Adopt(e) \/ Lifecycle!RequestCancel(e) \/ Lifecycle!End(e)
      BY <1>4, <2>2, <3>3, <3>4 DEF Moves, Outcome, Active, StatusOf, Lifecycle!Begin,
        Lifecycle!Adopt, Lifecycle!RequestCancel, Lifecycle!End, Lifecycle!Move,
        Lifecycle!Active, Lifecycle!Outcome
    <3> QED
      BY <3>5 DEF Lifecycle!Next
  <2> QED
    BY <2>1, <2>2
<1> QED
  BY <1>1, <1>3, <1>4, StepMoves

LEMMA OneActiveStep == IInv /\ [Next]_vars => Lifecycle!OneActive'
<1> SUFFICES ASSUME IInv, [Next]_vars PROVE Lifecycle!OneActive'
  OBVIOUS
<1>1. TypeOK /\ Targeted /\ Reserved /\ Decided
  BY DEF IInv
<1>2. \A e, x \in Execution : exec[e].status \in Active /\ exec[x].status \in Active => e = x
  BY DEF IInv, Lifecycle!OneActive, Lifecycle!Active, Active
<1>3. SUFFICES ASSUME NEW e \in Execution, NEW x \in Execution,
                      exec'[e].status \in Active, exec'[x].status \in Active
               PROVE  e = x
  BY DEF Lifecycle!OneActive, Lifecycle!Active, Active
<1>4. CASE Claims
  BY <1>1, <1>3, <1>4 DEF Claims, TypeOK
<1>5. CASE \A d \in Execution : Moves(d)
  <2>1. exec[e].status \in Active /\ exec[x].status \in Active
    BY <1>3, <1>5 DEF Moves, Active, Outcome
  <2> QED
    BY <1>2, <2>1
<1> QED
  BY <1>1, <1>4, <1>5, StepMoves

\* A request comes to name an execution only when it is unused or, to take it
\* over or to cancel it, known.
LEMMA Naming ==
  ASSUME TypeOK, [Next]_vars, NEW s \in Supervisor, request'[s] # request[s]
  PROVE  \/ Acquire(s) /\ Unused(request'[s].exec)
         \/ /\ request'[s].pc # "claim"
            /\ \/ request'[s].exec \in {None, request[s].exec}
               \/ exec[request'[s].exec].status # "absent"
<1> DEFINE Named(r) ==
      r.pc # "claim" /\ (r.exec \in {None, request[s].exec} \/ exec[r.exec].status # "absent")
<1>1. request[s] \in Request /\ request[s].exec \in Execution \cup {None}
  BY DEF TypeOK, Request
<1>2. \A r : Serve(s, r) => request'[s] = r
  BY Served
<1>3. Named(Idle)
  BY DEF Idle
<1>4. CASE Startup(s)
  <2>1. Named([Idle EXCEPT !.pc = "adopt", !.kind = "startup", !.open = open])
    BY DEF Idle
  <2> QED
    BY <1>2, <1>4, <2>1 DEF Startup
<1>5. CASE Adopt(s)
  <2>1. \A e \in Resumable(s) :
          Named([Idle EXCEPT !.pc = "launch", !.kind = "startup", !.exec = e])
    BY DEF Idle, Resumable, Late, Expired, Active
  <2> QED
    BY <1>2, <1>3, <1>5, <2>1 DEF Adopt
<1>6. CASE Arrive(s) \/ ArriveCancel(s)
  <2>1. \A kind \in Offered : Named([Idle EXCEPT !.pc = "reconcile", !.kind = kind])
    BY DEF Idle
  <2>2. \A e \in Execution : exec[e].status # "absent" =>
          Named([Idle EXCEPT !.pc = "reconcile", !.kind = "cancel", !.exec = e])
    BY DEF Idle
  <2> QED
    BY <1>2, <1>6, <2>1, <2>2 DEF Arrive, ArriveCancel
<1>7. CASE Reconcile(s) \/ Check(s) \/ EndWork(s) \/ Claim(s) \/ ReadForCancel(s)
  BY <1>1, <1>2, <1>3, <1>7
    DEF Reconcile, Check, EndWork, Claim, ReadForCancel, AfterRefusal, Request
<1>8. CASE Acquire(s)
  <2>1. ASSUME NEW e \in Execution, Unused(e),
               Serve(s, [request[s] EXCEPT !.pc = "claim", !.exec = e, !.lease = granted + 1])
        PROVE  Unused(request'[s].exec)
    BY <1>1, <1>2, <2>1 DEF Request
  <2>2. Serve(s, [request[s] EXCEPT !.pc = "work", !.lease = granted + 1]) => Named(request'[s])
    BY <1>1, <1>2 DEF Request
  <2> QED
    BY <1>2, <1>3, <1>8, <2>1, <2>2 DEF Acquire
<1>9. CASE GiveBack(s) \/ Launch(s) \/ Fail(s) \/ Cancel(s) \/ Crash(s)
  BY <1>1, <1>2, <1>3, <1>9 DEF GiveBack, Launch, Fail, Cancel, Crash, Request
<1> QED
  BY <1>4, <1>5, <1>6, <1>7, <1>8, <1>9, Served DEF Serving

LEMMA ReservedStep == IInv /\ [Next]_vars => Reserved'
<1> SUFFICES ASSUME IInv, [Next]_vars, NEW s \in Supervisor, request'[s].pc = "claim"
             PROVE  /\ exec'[request'[s].exec].status = "absent"
                    /\ \A x \in Supervisor \ {s} : request'[x].exec # request'[s].exec
  BY DEF Reserved
<1>1. TypeOK /\ Targeted /\ Reserved /\ Decided /\ TypeOK'
  BY StepTyped DEF IInv
<1>2. \A x, y \in Supervisor : request'[x] # request[x] /\ request'[y] # request[y] => x = y
  <2>1. ASSUME NEW x \in Supervisor, NEW y \in Supervisor,
               request'[x] # request[x], request'[y] # request[y]
        PROVE  x = y
    <3>1. PICK r : Serve(x, r)
      BY <1>1, <2>1, Served DEF Startup, Adopt, Crash, Arrive, ArriveCancel, Serving, Reconcile,
        Check, Acquire, EndWork, Claim, GiveBack, Launch, Fail, ReadForCancel, Cancel
    <3> QED
      BY <1>1, <2>1, <3>1, Served
  <2> QED
    BY <2>1
<1>3. CASE request'[s] # request[s]
  <2>1. Acquire(s) /\ Unused(request'[s].exec)
    BY <1>1, <1>3, Naming
  <2> QED
    BY <1>2, <1>3, <2>1 DEF Acquire, Unused
<1>4. CASE request'[s] = request[s]
  <2> DEFINE e == request[s].exec
  <2>1. /\ e \in Execution /\ exec[e].status = "absent"
        /\ \A x \in Supervisor \ {s} : request[x].exec # e
    BY <1>1, <1>4 DEF Targeted, Reserved
  <2>2. exec'[e].status = "absent"
    <3>1. CASE \A d \in Execution : Moves(d)
      BY <2>1, <3>1 DEF Moves, Active
    <3>2. CASE Claims
      <4>1. PICK x \in Supervisor :
              /\ Claim(x)
              /\ exec' = [exec EXCEPT ![request[x].exec] = [status |-> "starting", owner |-> x,
                            lease |-> request[x].lease, fresh |-> TRUE]]
        BY <3>2 DEF Claims
      <4>2. \/ Serve(x, AfterRefusal(request[x]))
            \/ Serve(x, [request[x] EXCEPT !.pc = "launch"])
        BY <4>1 DEF Claim
      <4>3. request'[x].pc # "claim" /\ request[x].pc = "claim"
        BY <1>1, <4>1, <4>2 DEF Claim, AfterRefusal, Serve, TypeOK, Request
      <4>4. x # s
        BY <4>3
      <4> QED
        BY <1>1, <2>1, <4>1, <4>4 DEF TypeOK
    <3> QED
      BY <1>1, <3>1, <3>2, StepMoves
  <2>3. ASSUME NEW x \in Supervisor \ {s} PROVE request'[x].exec # e
    <3>1. CASE request'[x] = request[x]
      BY <2>1, <3>1
    <3>2. CASE request'[x] # request[x]
      <4>1. e # None
        BY <2>1, NothingTyped
      <4> QED
        BY <1>1, <2>1, <3>2, <4>1, Naming DEF Unused
    <3> QED
      BY <3>1, <3>2
  <2> QED
    BY <1>4, <2>1, <2>2, <2>3
<1> QED
  BY <1>3, <1>4

----------------------------------------------------------------------------
(* Who may record a success or a failure.                                  *)

Told(e) == exec[e].status \in Active /\ exec'[e].status \in {"completed", "failed"}

\* Finalizing records an outcome only for the owner that has not lost its lease.
LEMMA FinalizeFenced ==
  ASSUME TypeOK, NEW s \in Supervisor, NEW e \in Execution,
         NEW status \in {"cancelled", "completed", "failed"},
         exec' = [exec EXCEPT ![e] = Finalized(s, e, status)]
  PROVE  \A d \in Execution :
           (exec[d].status \in Active /\ exec'[d].status \in {"completed", "failed"}) =>
              d = e /\ exec[e].owner = s /\ (exec[e].lease = 0 \/ Holds(s, e))
<1> SUFFICES ASSUME NEW d \in Execution,
                    exec[d].status \in Active, exec'[d].status \in {"completed", "failed"}
             PROVE  d = e /\ exec[e].owner = s /\ (exec[e].lease = 0 \/ Holds(s, e))
  OBVIOUS
<1>1. d = e
  BY DEF TypeOK, Active
<1>2. exec'[e] = Finalized(s, e, status)
  BY DEF TypeOK
<1>3. Mine(s, e)
  BY <1>1, <1>2 DEF Finalized, LostLease, Active
<1>4. Ended(exec[e], "stale").status = "stale"
  BY EndedTyped DEF TypeOK, Outcome
<1>5. ~LostLease(s, e)
  BY <1>1, <1>2, <1>3, <1>4 DEF Finalized
<1> QED
  BY <1>1, <1>3, <1>5 DEF Mine, LostLease

\* A worker past its finalizing has left it.
LEMMA FinalizeLeaves ==
  ASSUME TypeOK, NEW s \in Supervisor, NEW e \in Execution, Finalize(s, e)
  PROVE  worker'[s][e].pc # "finalize"
<1>1. \A w : Work(s, e, w) => worker'[s][e] = w
  BY DEF Work, TypeOK
<1>2. /\ Over.pc # "finalize"
      /\ [NoWorker EXCEPT !.pc = "release", !.lease = Leftover(s, e)].pc # "finalize"
  BY DEF Over, NoWorker
<1> QED
  BY <1>1, <1>2 DEF Finalize

Fenced(e) ==
    LET s == exec[e].owner IN
    /\ exec[e].lease = 0 \/ Holds(s, e)
    /\ \/ worker[s][e].pc = "finalize" /\ worker'[s][e].pc # "finalize"
       \/ request[s].pc = "finalize" /\ request[s].exec = e

LEMMA StepFenced ==
  ASSUME TypeOK, Targeted, Decided, [Next]_vars, NEW e \in Execution, Told(e)
  PROVE  Fenced(e)
<1>0. exec[e].status \in Active /\ exec'[e].status \in {"completed", "failed"}
  BY DEF Told
<1>1. exec'[e] # exec[e] /\ exec[e] \in ExecRecord
  BY DEF Told, TypeOK, Active
<1>2. ASSUME NEW s \in Supervisor, exec' = Reconciled(s)
      PROVE  FALSE
  BY <1>1, <1>2, ReconciledTyped DEF Told
<1>3. ASSUME NEW s \in Supervisor, Adopt(s)
      PROVE  FALSE
  <2>1. PICK t : exec' = Adopted(s, t)
    BY <1>3 DEF Adopt
  <2> QED
    BY <1>1, <2>1, AdoptedTyped DEF Told
<1>4. ASSUME NEW s \in Supervisor, Claim(s)
      PROVE  FALSE
  BY <1>1, <1>4 DEF Claim, Told, TypeOK
<1>5. ASSUME NEW s \in Supervisor, Cancel(s)
      PROVE  FALSE
  <2> DEFINE d == request[s].exec
  <2>1. d \in Execution /\ exec[d] \in ExecRecord
    BY <1>5 DEF Cancel, Targeted, TypeOK
  <2>2. Ended(exec[d], "cancelled").status = "cancelled"
    BY <2>1, EndedTyped DEF Outcome
  <2>3. CASE exec' = [exec EXCEPT ![d] = Ended(@, "cancelled")]
    BY <1>1, <2>1, <2>2, <2>3 DEF TypeOK, Told
  <2>4. CASE exec' = [exec EXCEPT ![d].status = "cancelling", ![d].fresh = TRUE]
    <3>1. exec'[d].status = "cancelling" /\ (e # d => exec'[e] = exec[e])
      BY <2>1, <2>4 DEF TypeOK, ExecRecord
    <3> QED
      BY <1>1, <3>1 DEF Told
  <2> QED
    BY <1>1, <1>5, <2>3, <2>4 DEF Cancel
<1>6. ASSUME NEW s \in Supervisor, NEW d \in Execution, Mark(s, d)
      PROVE  FALSE
  <2>1. exec' = [exec EXCEPT ![d].status = "running", ![d].fresh = TRUE,
                             ![d].lease = worker[s][d].lease]
    BY <1>1, <1>6 DEF Mark
  <2>2. exec'[d].status = "running" /\ (e # d => exec'[e] = exec[e])
    BY <2>1 DEF TypeOK, ExecRecord
  <2> QED
    BY <1>1, <2>2 DEF Told
<1>7. ASSUME NEW d \in Execution, NEW fresh \in BOOLEAN, exec' = [exec EXCEPT ![d].fresh = fresh]
      PROVE  FALSE
  <2>1. exec'[e].status = exec[e].status
    BY <1>7 DEF TypeOK, ExecRecord
  <2> QED
    BY <2>1 DEF Told, Active
<1>8. ASSUME NEW s \in Supervisor, Fail(s)
      PROVE  Fenced(e)
  <2>1. PICK d \in Execution : d = request[s].exec /\ request[s].pc = "finalize"
    BY <1>8 DEF Fail, Targeted
  <2>2. exec' = [exec EXCEPT ![d] = Finalized(s, d, "failed")]
    BY <1>8, <2>1 DEF Fail
  <2>3. \A x \in Execution :
           (exec[x].status \in Active /\ exec'[x].status \in {"completed", "failed"}) =>
              x = d /\ exec[d].owner = s /\ (exec[d].lease = 0 \/ Holds(s, d))
    BY <2>2, FinalizeFenced
  <2>4. e = d /\ exec[e].owner = s /\ (exec[e].lease = 0 \/ Holds(s, e))
    BY <1>0, <2>3
  <2> QED
    BY <2>1, <2>4 DEF Fenced
<1>9. ASSUME NEW s \in Supervisor, NEW d \in Execution, Finalize(s, d)
      PROVE  Fenced(e)
  <2>1. worker[s][d].outcome \in {"cancelled", "completed", "failed"} /\ worker[s][d].pc = "finalize"
    BY <1>9 DEF Finalize, Decided, TypeOK, Worker
  <2>2. exec' = [exec EXCEPT ![d] = Finalized(s, d, worker[s][d].outcome)]
    BY <1>9 DEF Finalize
  <2>3. \A x \in Execution :
           (exec[x].status \in Active /\ exec'[x].status \in {"completed", "failed"}) =>
              x = d /\ exec[d].owner = s /\ (exec[d].lease = 0 \/ Holds(s, d))
    BY <2>1, <2>2, FinalizeFenced
  <2>4. e = d /\ exec[e].owner = s /\ (exec[e].lease = 0 \/ Holds(s, e))
    BY <1>0, <2>3
  <2> QED
    BY <1>9, <2>1, <2>4, FinalizeLeaves DEF Fenced
<1>10. ASSUME NEW s \in Supervisor, NEW d \in Execution, Working(s, d), ~Mark(s, d), ~Finalize(s, d)
       PROVE  FALSE
  BY <1>1, <1>2, <1>10 DEF Working, Begin, AcquireForWorker, EnterLoop, Prepare, Loop, Cycle,
    DropLease
<1>11. ASSUME NEW d \in Execution, HeartbeatLapses(d) \/ \E s \in Supervisor : Beating(s, d)
       PROVE  FALSE
  BY <1>1, <1>7, <1>11 DEF HeartbeatLapses, Beating, BeatRenew, BeatWrite
<1>12. ASSUME NEW s \in Supervisor,
              \/ Startup(s) \/ Crash(s) \/ Arrive(s) \/ ArriveCancel(s) \/ Check(s) \/ Acquire(s)
              \/ EndWork(s) \/ GiveBack(s) \/ Launch(s) \/ ReadForCancel(s)
       PROVE  FALSE
  BY <1>1, <1>12 DEF Startup, Crash, Arrive, ArriveCancel, Check, Acquire, EndWork, GiveBack,
    Launch, ReadForCancel
<1>13. ~(LeaseLapses \/ CloseRun \/ UNCHANGED vars)
  BY <1>1 DEF LeaseLapses, CloseRun, vars
<1>14. \A s \in Supervisor : ~Poll(s) /\ ~Reconcile(s)
  BY <1>2 DEF Poll, Reconcile
<1> QED
  BY <1>3, <1>4, <1>5, <1>6, <1>8, <1>9, <1>10, <1>11, <1>12, <1>13, <1>14 DEF Next, Serving

----------------------------------------------------------------------------
(* Who works under the lease, while no living process outlasts one         *)
(* (Slow = {}): an invariant that relates the lease to every request,      *)
(* record and thread that names it.                                        *)

\* The run's lease is id, granted to s for e.
Current(s, e, id) == id # 0 /\ lease.id = id /\ lease.exec = e /\ lease.owner = s

\* A request that has a lease has the run's lease, for an execution that does
\* not exist yet or for none; one that launches, gives up or cancels an
\* execution fits that execution's record and worker.
RequestFits(s, r) ==
    /\ r.lease <= granted
    /\ sup[s] # "up" => r = Idle
    /\ r.pc = "adopt" => \A e \in Execution : worker[s][e] = NoWorker
    /\ r.pc \in {"launch", "finalize", "cancel", "release"} => r.exec \in Execution
    /\ r.pc \in {"launch", "finalize", "cancel"} => exec[r.exec].status # "absent"
    /\ r.pc \in {"launch", "finalize"} => worker[s][r.exec] = NoWorker
    /\ r.pc \in {"claim", "work", "giveBack"} =>
          /\ r.lease # 0 /\ r.lease = lease.id /\ lease.owner = s
          /\ \/ /\ r.pc # "work" /\ r.exec \in Execution
                /\ lease.exec = r.exec /\ exec[r.exec].status = "absent"
             \/ r.pc # "claim" /\ lease.exec = None
    /\ (r.pc \in {"cancel", "release"} /\ r.lease # 0 /\ r.lease = lease.id) =>
          lease.exec = r.exec
    /\ r.pc = "release" => exec[r.exec].status \in Outcome
    /\ (r.pc = "cancel" /\ exec[r.exec].status = "starting" /\ exec[r.exec].lease # 0) =>
          r.lease = exec[r.exec].lease

\* The record of an active execution names an owner that has started, whose
\* heartbeat is missed only when it died, and, if it lives, the run's lease.
ExecutionFits(e, x) ==
    /\ x.lease <= granted
    /\ x.status \notin Active => x.lease = 0
    /\ x.status \in Active =>
          /\ x.owner \in Supervisor /\ sup[x.owner] # "new"
          /\ ~x.fresh => sup[x.owner] = "dead"
          /\ (sup[x.owner] = "up" /\ (x.lease # 0 \/ x.status # "starting")) =>
                Current(x.owner, e, x.lease)
    /\ (x.lease # 0 /\ x.lease = lease.id) => lease.exec = e /\ lease.owner = x.owner

\* A worker works for a process that lives, and runs its loop only on an
\* execution that is its own and names its lease.
WorkerFits(s, e, w) ==
    /\ w.lease <= granted
    /\ (sup[s] # "up" \/ exec[e].status = "absent") => w = NoWorker
    /\ (w.lease # 0 /\ w.lease = lease.id) => lease.exec = e /\ lease.owner = s
    /\ w.pc \in {"none", "begin", "acquire", "finalize", "done"} => w.lease = 0
    /\ (w.pc = "mark" /\ Mine(s, e) /\ exec[e].status = "starting") => Current(s, e, w.lease)
    /\ w.pc \in {"enter", "prepare", "loop", "cycle"} =>
          Mine(s, e) /\ exec[e].status # "starting" /\ exec[e].lease = w.lease
    /\ w.pc \in {"drop", "release", "done"} => ~Mine(s, e)
    /\ (sup[s] = "up" /\ Mine(s, e) /\ exec[e].status # "starting") =>
          w.pc \in {"enter", "prepare", "loop", "cycle", "finalize"}

\* Leases are numbered as they are granted, to processes that have started.
LeaseFits ==
    /\ lease.id <= granted
    /\ lease.id = 0 => lease = NoLease
    /\ lease.id # 0 => lease.owner \in Supervisor /\ sup[lease.owner] # "new"

\* Somebody who still works has the lease at hand, or a process died with it.
Kept ==
    lease.id # 0 =>
        \/ sup[lease.owner] = "dead"
        \/ /\ request[lease.owner].pc \in {"claim", "work", "giveBack", "release"}
           /\ request[lease.owner].lease = lease.id
        \/ \E e \in Execution : worker[lease.owner][e].lease = lease.id
        \/ \E e \in Execution : exec[e].lease = lease.id
        \/ /\ lease.exec \in Execution /\ exec[lease.exec].status = "cancelled"
           /\ \/ \E s \in Supervisor : sup[s] = "dead"
              \/ \E s \in Supervisor : request[s].pc = "release" /\ request[s].lease = lease.id

LeaseInv ==
    /\ \A s \in Supervisor : RequestFits(s, request[s])
    /\ \A e \in Execution : ExecutionFits(e, exec[e])
    /\ \A s \in Supervisor, e \in Execution : WorkerFits(s, e, worker[s][e])
    /\ LeaseFits
    /\ Kept

LEMMA Parts ==
  ASSUME TypeOK
  PROVE /\ \A s \in Supervisor : request[s].lease \in Nat /\ request[s].exec \in Execution \cup {None}
        /\ \A s \in Supervisor, e \in Execution : worker[s][e].lease \in Nat
        /\ \A e \in Execution : exec[e].lease \in Nat /\ exec[e].owner \in Supervisor \cup {None}
        /\ lease.id \in Nat /\ lease.owner \in Supervisor \cup {None} /\ lease.exec \in Execution \cup {None}
        /\ granted \in Nat
<1>0. LeaseId \subseteq Nat
  BY ExecutionAssumption DEF LeaseId
<1>1. ASSUME NEW s \in Supervisor
      PROVE  request[s].lease \in Nat /\ request[s].exec \in Execution \cup {None}
  BY <1>0 DEF TypeOK, Request
<1>2. ASSUME NEW s \in Supervisor, NEW e \in Execution PROVE worker[s][e].lease \in Nat
  BY <1>0 DEF TypeOK, Worker
<1>3. ASSUME NEW e \in Execution
      PROVE  exec[e].lease \in Nat /\ exec[e].owner \in Supervisor \cup {None}
  BY <1>0 DEF TypeOK, ExecRecord
<1>4. /\ lease.id \in Nat /\ granted \in Nat
      /\ lease.owner \in Supervisor \cup {None} /\ lease.exec \in Execution \cup {None}
  BY <1>0 DEF TypeOK, Lease
<1> QED BY <1>1, <1>2, <1>3, <1>4

LEMMA ServeFrame ==
  ASSUME TypeOK, NEW s \in Supervisor, NEW r, Serve(s, r)
  PROVE  request'[s] = r /\ \A x \in Supervisor : x # s => request'[x] = request[x]
BY DEF TypeOK, Serve

LEMMA WorkFrame ==
  ASSUME TypeOK, NEW s \in Supervisor, NEW e \in Execution, NEW w, Work(s, e, w)
  PROVE  /\ worker'[s][e] = w
         /\ \A x \in Supervisor, d \in Execution :
              (x # s \/ d # e) => worker'[x][d] = worker[x][d]
BY DEF TypeOK, Work

\* Reconciled or stamped: an execution keeps its owner and its lease, or its
\* process is dead and it ends.
Tame(e) ==
    \/ /\ exec'[e].status = exec[e].status
       /\ exec'[e].owner = exec[e].owner
       /\ exec'[e].lease = exec[e].lease
       /\ exec'[e].fresh \/ exec'[e].fresh = exec[e].fresh \/ sup[exec[e].owner] = "dead"
    \/ /\ exec[e].status \in Active /\ sup[exec[e].owner] = "dead"
       /\ exec'[e].status \in {"stale", "cancelled"} /\ exec'[e].lease = 0

LEMMA Steady ==
  ASSUME TypeOK, LeaseInv, NEW s \in Supervisor, NEW r, NEW e, NEW w,
         Serve(s, r) \/ (UNCHANGED request /\ r = request[s]),
         RequestFits(s, r),
         (lease.id # 0 /\ request[s].pc \in {"claim", "work", "giveBack", "release"}
              /\ request[s].lease = lease.id) =>
            /\ r.lease = request[s].lease
            /\ r.pc = request[s].pc \/ (r.pc = "giveBack" /\ request[s].pc # "release"),
         \/ UNCHANGED worker
         \/ /\ e \in Execution /\ Work(s, e, w) /\ WorkerFits(s, e, w)
            /\ (lease.id # 0 /\ worker[s][e].lease = lease.id) =>
                  worker[s][e].lease \in {w.lease, exec'[e].lease}
            /\ r.pc # "adopt" /\ ~(r.pc \in {"launch", "finalize"} /\ r.exec = e),
         UNCHANGED <<sup, granted>>,
         \A d \in Execution : Tame(d),
         lease'.id = lease.id, lease'.exec = lease.exec, lease'.owner = lease.owner,
         lease' = lease \/ lease.id # 0
  PROVE  LeaseInv'
<1>1. /\ request'[s] = r
      /\ \A x \in Supervisor : x # s => request'[x] = request[x]
  BY ServeFrame
<1>2. \/ UNCHANGED worker
      \/ /\ e \in Execution /\ worker'[s][e] = w
         /\ \A x \in Supervisor, d \in Execution : (x # s \/ d # e) => worker'[x][d] = worker[x][d]
  BY WorkFrame
<1>3. ASSUME NEW x \in Supervisor PROVE RequestFits(x, request[x])'
  <2>1. PICK q : /\ request'[x] = q /\ RequestFits(x, q)
                 /\ q.pc = "adopt" => \A d \in Execution : worker'[x][d] = NoWorker
                 /\ q.pc \in {"launch", "finalize"} => worker'[x][q.exec] = NoWorker
    <3>1. CASE x = s
      BY <1>1, <1>2, <3>1 DEF RequestFits
    <3>2. CASE x # s
      BY <1>1, <1>2, <3>2 DEF RequestFits, LeaseInv
    <3> QED
      BY <3>1, <3>2
  <2>2. q.exec \in Execution => Tame(q.exec)
    OBVIOUS
  <2>3. q.exec \in Execution =>
          /\ exec[q.exec].status = "absent" => exec'[q.exec].status = "absent"
          /\ exec[q.exec].status \in Outcome => exec'[q.exec].status \in Outcome
          /\ exec[q.exec].status # "absent" => exec'[q.exec].status # "absent"
          /\ exec'[q.exec].status = "starting" =>
                exec[q.exec].status = "starting" /\ exec'[q.exec].lease = exec[q.exec].lease
    BY <2>2 DEF Tame, Active, Outcome
  <2> QED
    BY <2>1, <2>3 DEF RequestFits
<1>4. \A d \in Execution : ExecutionFits(d, exec[d])'
  BY Parts DEF LeaseInv, ExecutionFits, Current, Tame, Active
<1>5. \A x \in Supervisor, d \in Execution : WorkerFits(x, d, worker[x][d])'
  BY <1>2 DEF LeaseInv, WorkerFits, Current, Mine, Tame, Active, NoWorker
<1>6. LeaseFits'
  BY DEF LeaseInv, LeaseFits
<1>7. Kept'
  BY <1>1, <1>2 DEF LeaseInv, Kept, LeaseFits, ExecutionFits, Tame, Active
<1> QED
  BY <1>3, <1>4, <1>5, <1>6, <1>7 DEF LeaseInv

LEMMA SteadyRequest ==
  ASSUME TypeOK, LeaseInv, NEW s \in Supervisor, NEW r, Serve(s, r), RequestFits(s, r),
         request[s].pc # "release",
         request[s].pc \in {"claim", "work", "giveBack"} =>
            r.lease = request[s].lease /\ r.pc \in {request[s].pc, "giveBack"},
         UNCHANGED <<sup, granted, worker, lease>>,
         \A d \in Execution : Tame(d)
  PROVE  LeaseInv'
BY Steady

LEMMA SteadyWorker ==
  ASSUME TypeOK, LeaseInv, NEW s \in Supervisor, NEW e \in Execution, NEW w,
         Work(s, e, w), WorkerFits(s, e, w), worker[s][e] # NoWorker,
         worker[s][e].lease \in {0, w.lease, exec'[e].lease},
         UNCHANGED <<sup, granted, request, lease>>,
         \A d \in Execution : Tame(d)
  PROVE  LeaseInv'
<1>1. RequestFits(s, request[s])
  BY DEF LeaseInv
<1>2. request[s].pc # "adopt" /\ ~(request[s].pc \in {"launch", "finalize"} /\ request[s].exec = e)
  BY <1>1 DEF RequestFits
<1> QED
  BY <1>1, <1>2, Steady

LEMMA Untouched == UNCHANGED exec => \A d \in Execution : Tame(d)
BY DEF Tame

LEMMA Up ==
  ASSUME LeaseInv
  PROVE  /\ \A s \in Supervisor : request[s].pc # "idle" => sup[s] = "up"
         /\ \A s \in Supervisor, e \in Execution : worker[s][e].pc # "none" => sup[s] = "up"
BY DEF LeaseInv, RequestFits, WorkerFits, Idle, NoWorker

LEMMA Reaped ==
  ASSUME TypeOK, LeaseInv, NEW s \in Supervisor, sup[s] = "up", exec' = Reconciled(s)
  PROVE  \A d \in Execution : Tame(d) /\ (Mine(s, d) => exec'[d] = exec[d])
<1> TAKE d \in Execution
<1>1. ExecutionFits(d, exec[d])
  BY DEF LeaseInv
<1>2. ~LostLease(s, d)
  BY <1>1 DEF ExecutionFits, LostLease, Mine, Holds, Current
<1>3. exec'[d] = IF Expired(s, d) THEN Ended(exec[d], "stale") ELSE exec[d]
  BY <1>2 DEF Reconciled
<1>4. exec[d] \in ExecRecord
  BY DEF TypeOK
<1>5. Expired(s, d) => Tame(d)
  BY <1>1, <1>3, <1>4 DEF Expired, ExecutionFits, Ended, ExecRecord, Tame
<1>6. ~Expired(s, d) => Tame(d)
  BY <1>3 DEF Tame
<1>7. Mine(s, d) => ~Expired(s, d)
  BY DEF Mine, Expired
<1> QED
  BY <1>3, <1>5, <1>6, <1>7

LEMMA ArriveLease ==
  ASSUME TypeOK, LeaseInv, NEW s \in Supervisor, Arrive(s) \/ ArriveCancel(s)
  PROVE  LeaseInv'
<1>1. PICK kind, e : Serve(s, [Idle EXCEPT !.pc = "reconcile", !.kind = kind])
                  \/ Serve(s, [Idle EXCEPT !.pc = "reconcile", !.kind = kind, !.exec = e])
  BY DEF Arrive, ArriveCancel
<1>2. request[s] = Idle /\ sup[s] = "up"
  BY DEF Arrive, ArriveCancel, Free
<1>3. PICK r : Serve(s, r) /\ RequestFits(s, r)
  <2>1. /\ RequestFits(s, [Idle EXCEPT !.pc = "reconcile", !.kind = kind])
        /\ RequestFits(s, [Idle EXCEPT !.pc = "reconcile", !.kind = kind, !.exec = e])
    BY <1>2, Parts DEF RequestFits, Idle
  <2> QED
    BY <1>1, <2>1
<1>4. request[s].pc = "idle"
  BY <1>2 DEF Idle
<1>5. UNCHANGED <<sup, granted, worker, lease>> /\ UNCHANGED exec
  BY DEF Arrive, ArriveCancel
<1> QED
  BY <1>3, <1>4, <1>5, SteadyRequest, Untouched

LEMMA IdleFits == ASSUME TypeOK, NEW s \in Supervisor PROVE RequestFits(s, Idle)
BY Parts DEF RequestFits, Idle

LEMMA ReconcileLease ==
  ASSUME TypeOK, LeaseInv, NEW s \in Supervisor, Reconcile(s) \/ Poll(s)
  PROVE  LeaseInv'
<1>1. sup[s] = "up"
  BY Up DEF Reconcile, Poll, Free
<1>2. \A d \in Execution : Tame(d)
  BY <1>1, Reaped DEF Reconcile, Poll
<1>3. CASE Reconcile(s)
  <2>1. PICK pc \in {"acquire", "check", "read"} : Serve(s, [request[s] EXCEPT !.pc = pc])
    BY <1>3 DEF Reconcile
  <2>2. RequestFits(s, [request[s] EXCEPT !.pc = pc])
    <3>1. request[s] \in Request /\ RequestFits(s, request[s])
      BY DEF LeaseInv, TypeOK
    <3> QED
      BY <1>1, <3>1 DEF RequestFits, Request
  <2> QED
    BY <1>2, <1>3, <2>1, <2>2, SteadyRequest DEF Reconcile
<1>4. CASE Poll(s)
  BY <1>2, <1>4, Steady DEF Poll, LeaseInv
<1> QED
  BY <1>3, <1>4

\* Giving way, working, and reading what is to be cancelled.
LEMMA ReadLease ==
  ASSUME TypeOK, Targeted, LeaseInv, NEW s \in Supervisor, Check(s) \/ EndWork(s) \/ ReadForCancel(s)
  PROVE  LeaseInv'
<1> DEFINE req == request[s]
<1>1. sup[s] = "up" /\ req \in Request /\ RequestFits(s, req)
  BY Up DEF Check, EndWork, ReadForCancel, LeaseInv, TypeOK
<1>2. CASE Check(s)
  <2>1. RequestFits(s, [req EXCEPT !.pc = "acquire"])
    BY <1>1 DEF RequestFits, Request
  <2> QED
    BY <1>2, <2>1, IdleFits, SteadyRequest, Untouched DEF Check
<1>3. CASE EndWork(s)
  <2>1. RequestFits(s, [req EXCEPT !.pc = "giveBack"])
    BY <1>1, <1>3 DEF EndWork, RequestFits, Request
  <2>2. LET r == [req EXCEPT !.pc = "giveBack"] IN r.lease = req.lease /\ r.pc = "giveBack"
    BY <1>1 DEF Request
  <2> QED
    BY <1>3, <2>1, <2>2, SteadyRequest, Untouched DEF EndWork
<1>4. CASE ReadForCancel(s)
  <2>1. req.exec \in Execution
    BY <1>4 DEF ReadForCancel, Targeted
  <2>2. ExecutionFits(req.exec, exec[req.exec])
    BY <2>1 DEF LeaseInv
  <2> DEFINE q == [req EXCEPT !.pc = "cancel", !.lease = exec[req.exec].lease]
  <2>3. q.pc = "cancel" /\ q.exec = req.exec /\ q.lease = exec[req.exec].lease
    BY <1>1 DEF Request
  <2>4. Serve(s, Idle) \/ (exec[req.exec].status \in Active /\ Serve(s, q))
    BY <1>4 DEF ReadForCancel
  <2> HIDE DEF q
  <2>5. exec[req.exec].status \in Active => RequestFits(s, q)
    BY <1>1, <2>1, <2>2, <2>3 DEF RequestFits, ExecutionFits, Active
  <2>6. req.pc = "read" /\ UNCHANGED <<sup, granted, worker, lease>> /\ UNCHANGED exec
    BY <1>4 DEF ReadForCancel
  <2> QED
    BY <2>4, <2>5, <2>6, IdleFits, SteadyRequest, Untouched
<1> QED
  BY <1>2, <1>3, <1>4

\* Requests that are turned away.
LEMMA RefusedLease ==
  ASSUME TypeOK, LeaseInv, NEW s \in Supervisor,
         \/ Acquire(s) /\ Serve(s, Idle) /\ UNCHANGED <<lease, granted>>
         \/ Claim(s) /\ Serve(s, AfterRefusal(request[s])) /\ UNCHANGED exec
         \/ Cancel(s) /\ Serve(s, Idle) /\ UNCHANGED <<exec, lease>>
         \/ Launch(s) /\ Serve(s, [request[s] EXCEPT !.pc = "finalize"]) /\ UNCHANGED worker
  PROVE  LeaseInv'
<1> DEFINE req == request[s]
<1>1. sup[s] = "up" /\ req \in Request /\ RequestFits(s, req)
  BY Up DEF Acquire, Claim, Cancel, Launch, LeaseInv, TypeOK
<1>2. CASE Claim(s) /\ Serve(s, AfterRefusal(req)) /\ UNCHANGED exec
  <2>1. RequestFits(s, AfterRefusal(req)) /\ AfterRefusal(req).lease = req.lease
    BY <1>1, <1>2 DEF Claim, RequestFits, Request, AfterRefusal
  <2>2. AfterRefusal(req).pc = "giveBack"
    BY <1>1 DEF AfterRefusal, Request
  <2> QED
    BY <1>2, <2>1, <2>2, SteadyRequest, Untouched DEF Claim
<1>3. CASE Launch(s) /\ Serve(s, [req EXCEPT !.pc = "finalize"]) /\ UNCHANGED worker
  <2>1. RequestFits(s, [req EXCEPT !.pc = "finalize"])
    BY <1>1, <1>3 DEF Launch, RequestFits, Request
  <2> QED
    BY <1>3, <2>1, SteadyRequest, Untouched DEF Launch
<1>4. CASE Acquire(s) /\ Serve(s, Idle) /\ UNCHANGED <<lease, granted>>
  BY <1>4, IdleFits, SteadyRequest, Untouched DEF Acquire
<1>5. CASE Cancel(s) /\ Serve(s, Idle) /\ UNCHANGED <<exec, lease>>
  BY <1>5, IdleFits, SteadyRequest, Untouched DEF Cancel
<1> QED
  BY <1>2, <1>3, <1>4, <1>5

\* A thread is started for an execution none works on.
LEMMA LaunchLease ==
  ASSUME TypeOK, LeaseInv, NEW s \in Supervisor, Launch(s), Serve(s, Idle),
         Work(s, request[s].exec, [NoWorker EXCEPT !.pc = "begin"])
  PROVE  LeaseInv'
<1> DEFINE e == request[s].exec
           w == [NoWorker EXCEPT !.pc = "begin"]
<1>1. sup[s] = "up" /\ RequestFits(s, request[s])
  BY Up DEF Launch, LeaseInv
<1>2. e \in Execution /\ worker[s][e] = NoWorker /\ exec[e].status # "absent"
  BY <1>1 DEF Launch, RequestFits
<1>3. WorkerFits(s, e, worker[s][e]) /\ ExecutionFits(e, exec[e])
  BY <1>2 DEF LeaseInv
<1>4. WorkerFits(s, e, w) /\ w.lease = worker[s][e].lease
  BY <1>1, <1>2, <1>3 DEF WorkerFits, NoWorker
<1>5. /\ request[s].pc = "launch" /\ Idle.pc = "idle"
      /\ UNCHANGED <<sup, granted, lease>> /\ UNCHANGED exec
  BY DEF Launch, Idle
<1>6. \A d \in Execution : Tame(d)
  BY <1>5, Untouched
<1> HIDE DEF e, w
<1> QED
  BY <1>2, <1>4, <1>5, <1>6, IdleFits, Steady DEF e, w

\* A worker that will finalize leaves its lease to the execution it runs.
LEMMA StopFits ==
  ASSUME TypeOK, LeaseInv, NEW s \in Supervisor, NEW e \in Execution, NEW outcome,
         worker[s][e].pc \in {"acquire", "enter", "prepare", "loop", "cycle"},
         Stop(s, e, outcome)
  PROVE  \E w : /\ Work(s, e, w) /\ WorkerFits(s, e, w)
                /\ worker[s][e].lease \in {0, w.lease, exec[e].lease}
<1> DEFINE w == [NoWorker EXCEPT !.pc = "finalize", !.outcome = outcome]
<1>1. w.pc = "finalize" /\ w.lease = 0
  BY DEF NoWorker
<1>2. sup[s] = "up" /\ WorkerFits(s, e, worker[s][e]) /\ granted \in Nat
  BY Up, Parts DEF LeaseInv
<1>3. exec[e].status # "absent"
  BY <1>2 DEF WorkerFits, NoWorker
<1>4. Work(s, e, w)
  BY DEF Stop
<1> HIDE DEF w
<1>5. WorkerFits(s, e, w)
  BY <1>1, <1>2, <1>3 DEF WorkerFits
<1>6. worker[s][e].lease \in {0, w.lease, exec[e].lease}
  BY <1>1, <1>2 DEF WorkerFits
<1> QED
  BY <1>4, <1>5, <1>6

LEMMA BeginLease ==
  ASSUME TypeOK, LeaseInv, NEW s \in Supervisor, NEW e \in Execution, Begin(s, e)
  PROVE  LeaseInv'
<1> DEFINE w == worker[s][e]
<1>1. sup[s] = "up" /\ w \in Worker /\ WorkerFits(s, e, w) /\ ExecutionFits(e, exec[e])
  BY Up DEF Begin, LeaseInv, TypeOK
<1>2. w.pc = "begin" /\ w # NoWorker /\ w.lease = 0 /\ exec[e].status # "absent"
  BY <1>1 DEF Begin, NoWorker, WorkerFits
<1>3. UNCHANGED <<sup, granted, request, lease>> /\ UNCHANGED exec
  BY DEF Begin
<1>4. CASE Work(s, e, Over) /\ ~(Mine(s, e) /\ exec[e].status = "starting")
  <2>1. Over.pc = "done" /\ Over.lease = 0
    BY DEF Over, NoWorker
  <2>2. WorkerFits(s, e, Over)
    BY <1>1, <1>2, <1>4, <2>1 DEF WorkerFits
  <2> QED
    BY <1>2, <1>3, <1>4, <2>1, <2>2, SteadyWorker, Untouched
<1>5. CASE /\ Work(s, e, [w EXCEPT !.pc = "mark", !.lease = lease.id])
           /\ Mine(s, e) /\ exec[e].status = "starting" /\ Holds(s, e)
  <2> DEFINE v == [w EXCEPT !.pc = "mark", !.lease = lease.id]
  <2>1. v.pc = "mark" /\ v.lease = lease.id
    BY <1>1 DEF Worker
  <2>5. Work(s, e, v)
    BY <1>5
  <2>2. lease.id # 0
    BY <1>1, <1>5, NothingTyped DEF Holds, LeaseInv, LeaseFits, NoLease
  <2>3. lease.id <= granted
    BY DEF LeaseInv, LeaseFits
  <2> HIDE DEF v
  <2>4. WorkerFits(s, e, v)
    BY <1>1, <1>2, <1>5, <2>1, <2>2, <2>3 DEF WorkerFits, Holds, Current
  <2> QED
    BY <1>2, <1>3, <2>4, <2>5, SteadyWorker, Untouched
<1>6. CASE Work(s, e, [w EXCEPT !.pc = "acquire"]) /\ Mine(s, e) /\ exec[e].status = "starting"
  <2> DEFINE v == [w EXCEPT !.pc = "acquire"]
  <2>1. v.pc = "acquire" /\ v.lease = 0
    BY <1>1, <1>2 DEF Worker
  <2>3. Work(s, e, v)
    BY <1>6
  <2> HIDE DEF v
  <2>2. WorkerFits(s, e, v)
    BY <1>1, <1>2, <1>6, <2>1 DEF WorkerFits
  <2> QED
    BY <1>2, <1>3, <2>2, <2>3, SteadyWorker, Untouched
<1> QED
  BY <1>4, <1>5, <1>6 DEF Begin

LEMMA LoopLease ==
  ASSUME TypeOK, LeaseInv, NEW s \in Supervisor, NEW e \in Execution,
         EnterLoop(s, e) \/ Prepare(s, e) \/ Loop(s, e) \/ Cycle(s, e)
  PROVE  LeaseInv'
<1> DEFINE w == worker[s][e]
<1>1. sup[s] = "up" /\ w \in Worker /\ WorkerFits(s, e, w)
  BY Up DEF EnterLoop, Prepare, Loop, Cycle, LeaseInv, TypeOK
<1>2. w.pc \in {"enter", "prepare", "loop", "cycle"}
  BY DEF EnterLoop, Prepare, Loop, Cycle
<1>3. w # NoWorker /\ Mine(s, e) /\ exec[e].status # "starting" /\ exec[e].lease = w.lease
      /\ exec[e].status # "absent"
  BY <1>1, <1>2 DEF NoWorker, WorkerFits
<1>4. UNCHANGED <<sup, granted, request, lease>>
  BY DEF EnterLoop, Prepare, Loop, Cycle
<1>5. exec' = exec \/ exec' = Reconciled(s)
  BY DEF EnterLoop, Prepare, Loop, Cycle
<1>6. (\A d \in Execution : Tame(d)) /\ exec'[e] = exec[e]
  BY <1>1, <1>3, <1>5, Reaped, Untouched
<1>7. PICK v : Work(s, e, v) /\ WorkerFits(s, e, v)
               /\ w.lease \in {0, v.lease, exec[e].lease}
  <2>1. ASSUME NEW pc \in {"prepare", "loop", "cycle"}, NEW v, v.pc = pc, v.lease = w.lease
        PROVE  WorkerFits(s, e, v)
    BY <1>1, <1>2, <1>3, <2>1 DEF WorkerFits
  <2>2. /\ \A pc : LET v == [w EXCEPT !.pc = pc] IN v.pc = pc /\ v.lease = w.lease
        /\ Counted(w).pc = "cycle" /\ Counted(w).lease = w.lease
    BY <1>1 DEF Worker, Counted
  <2>3. \/ \E outcome : Stop(s, e, outcome)
        \/ \E pc \in {"prepare", "loop"} : Work(s, e, [w EXCEPT !.pc = pc])
        \/ Work(s, e, Counted(w))
    BY DEF EnterLoop, Prepare, Loop, Cycle
  <2>4. CASE \E outcome : Stop(s, e, outcome)
    BY <1>2, <2>4, StopFits
  <2>5. CASE Work(s, e, Counted(w))
    BY <2>1, <2>2, <2>5
  <2>6. ASSUME NEW pc \in {"prepare", "loop"}, Work(s, e, [w EXCEPT !.pc = pc])
        PROVE  \E v : Work(s, e, v) /\ WorkerFits(s, e, v)
                      /\ w.lease \in {0, v.lease, exec[e].lease}
    <3> DEFINE v == [w EXCEPT !.pc = pc]
    <3>1. v.pc = pc /\ v.lease = w.lease /\ Work(s, e, v)
      BY <2>2, <2>6
    <3> HIDE DEF v
    <3> QED
      BY <2>1, <3>1
  <2> QED
    BY <2>3, <2>4, <2>5, <2>6
<1> QED
  BY <1>3, <1>4, <1>6, <1>7, SteadyWorker

\* A worker that gets no lease, or finds its execution taken away.
LEMMA TurnedAwayLease ==
  ASSUME TypeOK, LeaseInv, NEW s \in Supervisor, NEW e \in Execution,
         \/ AcquireForWorker(s, e) /\ Stop(s, e, "failed") /\ UNCHANGED <<lease, granted>>
         \/ Mark(s, e) /\ ~(Mine(s, e) /\ exec[e].status = "starting")
  PROVE  LeaseInv'
<1> DEFINE w == worker[s][e]
<1>1. sup[s] = "up" /\ w \in Worker /\ WorkerFits(s, e, w)
  BY Up DEF AcquireForWorker, Mark, LeaseInv, TypeOK
<1>2. CASE AcquireForWorker(s, e) /\ Stop(s, e, "failed") /\ UNCHANGED <<lease, granted>>
  <2>1. w.pc = "acquire" /\ UNCHANGED <<sup, granted, request, lease>> /\ UNCHANGED exec
    BY <1>2 DEF AcquireForWorker
  <2>2. w # NoWorker
    BY <2>1 DEF NoWorker
  <2>3. PICK v : Work(s, e, v) /\ WorkerFits(s, e, v)
                 /\ w.lease \in {0, v.lease, exec[e].lease}
    BY <1>2, <2>1, StopFits
  <2> QED
    BY <2>1, <2>2, <2>3, SteadyWorker, Untouched
<1>3. CASE Mark(s, e) /\ ~(Mine(s, e) /\ exec[e].status = "starting")
  <2>1. w.pc = "mark" /\ UNCHANGED <<sup, granted, request, lease>> /\ UNCHANGED exec
    BY <1>3 DEF Mark
  <2>2. w # NoWorker
    BY <2>1 DEF NoWorker
  <2> DEFINE v == [w EXCEPT !.pc = "drop"]
  <2>3. v.pc = "drop" /\ v.lease = w.lease
    BY <1>1 DEF Worker
  <2>4. Work(s, e, v)
    BY <1>3 DEF Mark
  <2> HIDE DEF v
  <2>5. WorkerFits(s, e, v)
    BY <1>1, <1>3, <2>1, <2>2, <2>3 DEF WorkerFits
  <2> QED
    BY <2>1, <2>2, <2>3, <2>4, <2>5, SteadyWorker, Untouched
<1> QED
  BY <1>2, <1>3

\* Stamping an execution or its lease.
LEMMA BeatLease ==
  ASSUME TypeOK, LeaseInv, NEW s \in Supervisor, NEW e \in Execution, Beating(s, e)
  PROVE  LeaseInv'
<1>1. UNCHANGED <<sup, granted, request, worker>> /\ RequestFits(s, request[s])
  BY DEF Beating, BeatRenew, BeatWrite, LeaseInv
<1>2. \A d \in Execution : Tame(d)
  <2>1. CASE exec' = [exec EXCEPT ![e].fresh = TRUE]
    BY <2>1 DEF Tame, TypeOK, ExecRecord
  <2> QED
    BY <2>1, Untouched DEF Beating, BeatRenew, BeatWrite
<1>3. LeaseFits /\ e # None
  BY NothingTyped DEF LeaseInv
<1>4. \/ lease' = lease
      \/ lease.exec = e /\ \E y : lease' = [lease EXCEPT !.younger = y]
  BY DEF Beating, BeatRenew, BeatWrite, Holds, Stamped
<1>5. /\ lease'.id = lease.id /\ lease'.exec = lease.exec /\ lease'.owner = lease.owner
      /\ lease' = lease \/ lease.id # 0
  BY <1>3, <1>4 DEF TypeOK, Lease, LeaseFits, NoLease
<1> QED
  BY <1>1, <1>2, <1>5, Steady

LEMMA HeartbeatLease ==
  ASSUME TypeOK, LeaseInv, Slow = {}, NEW e \in Execution, HeartbeatLapses(e)
  PROVE  LeaseInv'
<1>1. \A d \in Execution : Tame(d)
  BY DEF HeartbeatLapses, Tame, TypeOK, ExecRecord
<1>2. ExecutionFits(e, exec[e])
  BY DEF LeaseInv
<1>3. PICK s \in Supervisor : s = exec[e].owner
  BY <1>2 DEF HeartbeatLapses, ExecutionFits
<1>4. RequestFits(s, request[s])
  BY DEF LeaseInv
<1>5. UNCHANGED <<sup, granted, lease>> /\ UNCHANGED <<request, worker>>
  BY DEF HeartbeatLapses
<1> QED
  BY <1>1, <1>4, <1>5, Steady

LEMMA CloseLease ==
  ASSUME LeaseInv, CloseRun \/ UNCHANGED vars
  PROVE  LeaseInv'
BY DEF CloseRun, vars, LeaseInv, RequestFits, ExecutionFits, WorkerFits, LeaseFits, Kept, Current, Mine

LEMMA StartupLease ==
  ASSUME TypeOK, LeaseInv, NEW s \in Supervisor, Startup(s)
  PROVE  LeaseInv'
<1> DEFINE r == [Idle EXCEPT !.pc = "adopt", !.kind = "startup", !.open = open]
<1>1. r.pc = "adopt" /\ r.lease = 0 /\ Serve(s, r)
  BY DEF Idle, Startup
<1> HIDE DEF r
<1>2. request'[s] = r /\ \A x \in Supervisor : x # s => request'[x] = request[x]
  BY <1>1, ServeFrame
<1>3. /\ sup[s] = "new" /\ sup'[s] = "up" /\ \A x \in Supervisor : x # s => sup'[x] = sup[x]
      /\ UNCHANGED <<exec, lease, granted, worker>>
  BY DEF Startup, TypeOK
<1>4. \A e \in Execution : worker[s][e] = NoWorker /\ ~Mine(s, e)
  BY <1>3 DEF LeaseInv, WorkerFits, ExecutionFits, Mine
<1>5. \A x \in Supervisor : RequestFits(x, request[x])'
  BY <1>1, <1>2, <1>3, <1>4, Parts DEF LeaseInv, RequestFits
<1>6. \A d \in Execution : ExecutionFits(d, exec[d])'
  BY <1>3 DEF LeaseInv, ExecutionFits, Current
<1>7. \A x \in Supervisor, d \in Execution : WorkerFits(x, d, worker[x][d])'
  BY <1>3, <1>4 DEF LeaseInv, WorkerFits, Current, Mine, NoWorker
<1>8. LeaseFits'
  BY <1>3 DEF LeaseInv, LeaseFits
<1>9. Kept'
  BY <1>1, <1>2, <1>3 DEF LeaseInv, Kept, LeaseFits, RequestFits, Idle
<1> QED
  BY <1>5, <1>6, <1>7, <1>8, <1>9 DEF LeaseInv

LEMMA CrashLease ==
  ASSUME TypeOK, LeaseInv, NEW s \in Supervisor, Crash(s)
  PROVE  LeaseInv'
<1>1. request'[s] = Idle /\ \A x \in Supervisor : x # s => request'[x] = request[x]
  BY ServeFrame DEF Crash
<1>2. /\ sup[s] = "up" /\ sup'[s] = "dead" /\ \A x \in Supervisor : x # s => sup'[x] = sup[x]
      /\ UNCHANGED <<exec, lease, granted>>
  BY DEF Crash, TypeOK
<1>3. /\ \A e \in Execution : worker'[s][e] = NoWorker
      /\ \A x \in Supervisor, e \in Execution : x # s => worker'[x][e] = worker[x][e]
  BY DEF Crash, TypeOK
<1>4. \A x \in Supervisor : RequestFits(x, request[x])'
  <2>1. RequestFits(s, request[s])'
    BY <1>1, <1>2, Parts DEF RequestFits, Idle
  <2>2. ASSUME NEW x \in Supervisor, x # s PROVE RequestFits(x, request[x])'
    BY <1>1, <1>2, <1>3, <2>2 DEF LeaseInv, RequestFits
  <2> QED
    BY <2>1, <2>2
<1>5. \A d \in Execution : ExecutionFits(d, exec[d])'
  BY <1>2 DEF LeaseInv, ExecutionFits, Current
<1>6. \A x \in Supervisor, d \in Execution : WorkerFits(x, d, worker[x][d])'
  <2>1. \A d \in Execution : WorkerFits(s, d, worker[s][d])'
    BY <1>2, <1>3, Parts DEF WorkerFits, Mine, NoWorker
  <2>2. ASSUME NEW x \in Supervisor, x # s, NEW d \in Execution
        PROVE  WorkerFits(x, d, worker[x][d])'
    BY <1>2, <1>3, <2>2 DEF LeaseInv, WorkerFits, Current, Mine
  <2> QED
    BY <2>1, <2>2
<1>7. LeaseFits'
  BY <1>2 DEF LeaseInv, LeaseFits
<1>8. Kept'
  BY <1>1, <1>2, <1>3 DEF LeaseInv, Kept, LeaseFits
<1> QED
  BY <1>4, <1>5, <1>6, <1>7, <1>8 DEF LeaseInv

LEMMA StampedSame ==
  ASSUME TypeOK, NEW e \in Execution, lease' = Stamped(e)
  PROVE  /\ lease'.id = lease.id /\ lease'.exec = lease.exec /\ lease'.owner = lease.owner
         /\ lease' = lease \/ lease.exec = e
BY DEF Stamped, TypeOK, Lease

LEMMA StampedFits ==
  ASSUME TypeOK, LeaseInv, NEW e \in Execution, lease' = Stamped(e), UNCHANGED <<sup, granted>>
  PROVE  LeaseFits'
BY StampedSame, NothingTyped DEF LeaseInv, LeaseFits, NoLease

LEMMA AdoptLease ==
  ASSUME TypeOK, LeaseInv, NEW s \in Supervisor, Adopt(s)
  PROVE  LeaseInv'
<1>1. sup[s] = "up" /\ RequestFits(s, request[s]) /\ request[s].pc = "adopt"
  BY Up DEF Adopt, LeaseInv
<1>2. UNCHANGED <<sup, granted, worker>>
  BY DEF Adopt
<1>3. \A d \in Execution : Expired(s, d) =>
        /\ exec[d].status \in Active /\ sup[exec[d].owner] = "dead" /\ exec[d].owner \in Supervisor
        /\ (exec[d].lease # 0 /\ exec[d].lease = lease.id) => lease.owner = exec[d].owner
  BY DEF LeaseInv, ExecutionFits, Expired
<1>4. ASSUME NEW t, exec' = Adopted(s, t), NEW d \in Execution, d # t PROVE Tame(d)
  <2>1. exec'[d] = IF ~Expired(s, d) THEN exec[d]
                   ELSE Ended(exec[d], IF exec[d].status = "cancelling" THEN "cancelled" ELSE "stale")
    BY <1>4 DEF Adopted, Late
  <2>2. exec[d] \in ExecRecord
    BY DEF TypeOK
  <2>3. Expired(s, d) => exec'[d].status \in {"stale", "cancelled"} /\ exec'[d].lease = 0
    BY <2>1, <2>2 DEF Ended, ExecRecord
  <2>4. ~Expired(s, d) => exec'[d] = exec[d]
    BY <2>1
  <2> QED
    BY <1>3, <2>3, <2>4 DEF Tame
<1>5. CASE exec' = Adopted(s, None) /\ Serve(s, Idle) /\ UNCHANGED lease
  <2>1. \A d \in Execution : Tame(d)
    BY <1>4, <1>5, NothingTyped
  <2> QED
    BY <1>1, <1>2, <1>5, <2>1, IdleFits, SteadyRequest
<1>6. ASSUME NEW t \in Resumable(s), exec' = Adopted(s, t), lease' = Stamped(t),
             Serve(s, [Idle EXCEPT !.pc = "launch", !.kind = "startup", !.exec = t])
      PROVE  LeaseInv'
  <2> DEFINE r == [Idle EXCEPT !.pc = "launch", !.kind = "startup", !.exec = t]
  <2>1. t \in Execution /\ Expired(s, t)
    BY DEF Resumable, Late
  <2>2. r.pc = "launch" /\ r.exec = t /\ r.lease = 0 /\ Serve(s, r)
    BY <1>6 DEF Idle
  <2> HIDE DEF r
  <2>3. request'[s] = r /\ \A x \in Supervisor : x # s => request'[x] = request[x]
    BY <2>2, ServeFrame
  <2>4. exec'[t] = TakenOver(s)
    BY <1>6, <2>1 DEF Adopted, Late
  <2>5. /\ exec'[t].status = "starting" /\ exec'[t].owner = s
        /\ exec'[t].lease = 0 /\ exec'[t].fresh = TRUE
    BY <2>4 DEF TakenOver
  <2>6. \A d \in Execution : d # t => Tame(d)
    BY <1>4, <1>6
  <2>7. /\ lease'.id = lease.id /\ lease'.exec = lease.exec /\ lease'.owner = lease.owner
        /\ LeaseFits'
    BY <1>2, <1>6, <2>1, StampedSame, StampedFits
  <2>8. exec[t].status \in Active /\ sup[exec[t].owner] = "dead" /\ exec[t].owner # s
        /\ exec[t].owner \in Supervisor
    BY <1>1, <1>3, <2>1
  <2>9. \A x \in Supervisor : RequestFits(x, request[x])'
    <3>1. RequestFits(s, request[s])'
      BY <1>1, <1>2, <2>1, <2>2, <2>3, <2>5, Parts DEF RequestFits
    <3>2. ASSUME NEW x \in Supervisor, x # s PROVE RequestFits(x, request[x])'
      <4> DEFINE q == request[x]
      <4>1. RequestFits(x, q) /\ request'[x] = q
        BY <2>3, <3>2 DEF LeaseInv
      <4>2. CASE q.exec = t
        BY <1>2, <2>5, <2>7, <2>8, <4>1, <4>2 DEF RequestFits, Active, Outcome
      <4>3. CASE q.exec # t
        <5>1. q.exec \in Execution => Tame(q.exec)
          BY <2>6, <4>3
        <5> QED
          BY <1>2, <2>7, <4>1, <5>1 DEF RequestFits, Active, Outcome, Tame
      <4> QED
        BY <4>2, <4>3
    <3> QED
      BY <3>1, <3>2
  <2>10. \A d \in Execution : ExecutionFits(d, exec[d])'
    <3>1. ExecutionFits(t, exec[t])'
      BY <1>1, <1>2, <2>5, <2>7, Parts DEF ExecutionFits, Active
    <3>2. ASSUME NEW d \in Execution, d # t PROVE ExecutionFits(d, exec[d])'
      BY <1>2, <2>6, <2>7, <3>2, Parts DEF LeaseInv, ExecutionFits, Current, Tame, Active
    <3> QED
      BY <3>1, <3>2
  <2>11. \A x \in Supervisor, d \in Execution : WorkerFits(x, d, worker[x][d])'
    <3>1. ASSUME NEW x \in Supervisor PROVE WorkerFits(x, t, worker[x][t])'
      <4>1. CASE x = s
        BY <1>1, <1>2, <2>1, <2>5, <2>7, <4>1, Parts DEF WorkerFits, RequestFits, Mine, NoWorker
      <4>2. CASE x # s
        BY <1>2, <2>1, <2>5, <2>7, <2>8, <4>2 DEF LeaseInv, WorkerFits, Mine, NoWorker, Active
      <4> QED
        BY <4>1, <4>2
    <3>2. ASSUME NEW x \in Supervisor, NEW d \in Execution, d # t
          PROVE  WorkerFits(x, d, worker[x][d])'
      BY <1>2, <2>6, <2>7, <3>2 DEF LeaseInv, WorkerFits, Current, Mine, Tame, Active, NoWorker
    <3> QED
      BY <3>1, <3>2
  <2>12. Kept'
    BY <1>1, <1>2, <1>3, <2>1, <2>2, <2>3, <2>5, <2>6, <2>7, <2>8
      DEF LeaseInv, Kept, LeaseFits, ExecutionFits, Tame, Active
  <2> QED
    BY <2>7, <2>9, <2>10, <2>11, <2>12 DEF LeaseInv
<1> QED
  BY <1>5, <1>6 DEF Adopt

LEMMA AcquireLease ==
  ASSUME TypeOK, LeaseInv, NEW s \in Supervisor, Acquire(s),
         ~(Serve(s, Idle) /\ UNCHANGED <<lease, granted>>)
  PROVE  LeaseInv'
<1> DEFINE req == request[s]
<1>1. sup[s] = "up" /\ req \in Request /\ req.pc = "acquire" /\ UNCHANGED <<sup, exec, worker>>
  BY Up DEF Acquire, TypeOK
<1> DEFINE Granted(e, r) ==
        /\ Grant(s, e) /\ Serve(s, r) /\ r.lease = granted + 1 /\ (e # None => r.exec = e)
        /\ r.pc = (IF e = None THEN "work" ELSE "claim")
        /\ (e # None => exec[e].status = "absent")
<1>2. PICK e \in Execution \cup {None} : \E r : Granted(e, r)
  <2>1. ASSUME NEW e \in Execution, Unused(e), Grant(s, e),
               Serve(s, [req EXCEPT !.pc = "claim", !.exec = e, !.lease = granted + 1])
        PROVE  \E d \in Execution \cup {None} : \E r : Granted(d, r)
    <3> DEFINE r == [req EXCEPT !.pc = "claim", !.exec = e, !.lease = granted + 1]
    <3>1. r.pc = "claim" /\ r.exec = e /\ r.lease = granted + 1 /\ Serve(s, r)
      BY <1>1, <2>1 DEF Request
    <3> HIDE DEF r
    <3> QED
      BY <2>1, <3>1, NothingTyped DEF Unused
  <2>2. ASSUME Grant(s, None), Serve(s, [req EXCEPT !.pc = "work", !.lease = granted + 1])
        PROVE  \E d \in Execution \cup {None} : \E r : Granted(d, r)
    <3> DEFINE r == [req EXCEPT !.pc = "work", !.lease = granted + 1]
    <3>1. r.pc = "work" /\ r.lease = granted + 1 /\ Serve(s, r)
      BY <1>1, <2>2 DEF Request
    <3> HIDE DEF r
    <3> QED
      BY <2>2, <3>1
  <2> QED
    BY <2>1, <2>2 DEF Acquire
<1>0. PICK r : Granted(e, r)
  BY <1>2
<1>3. request'[s] = r /\ \A x \in Supervisor : x # s => request'[x] = request[x]
  BY <1>0, ServeFrame
<1>4. /\ granted' = granted + 1 /\ lease'.id = granted + 1 /\ lease'.exec = e /\ lease'.owner = s
      /\ lease.id = 0 /\ lease.owner = None /\ lease.exec = None
  BY <1>0 DEF Grant, NoLease
<1>5. \A x \in Supervisor : RequestFits(x, request[x])'
  BY <1>1, <1>0, <1>3, <1>4, Parts, NothingTyped DEF LeaseInv, RequestFits
<1>6. \A d \in Execution : ExecutionFits(d, exec[d])'
  BY <1>1, <1>4, Parts DEF LeaseInv, ExecutionFits, Current
<1>7. \A x \in Supervisor, d \in Execution : WorkerFits(x, d, worker[x][d])'
  BY <1>1, <1>4, Parts DEF LeaseInv, WorkerFits, Current, Mine
<1>8. LeaseFits'
  BY <1>1, <1>4, Parts DEF LeaseInv, LeaseFits
<1>9. Kept'
  BY <1>0, <1>3, <1>4 DEF Kept
<1> QED
  BY <1>5, <1>6, <1>7, <1>8, <1>9 DEF LeaseInv

LEMMA WorkerLease ==
  ASSUME TypeOK, LeaseInv, NEW s \in Supervisor, NEW e \in Execution, AcquireForWorker(s, e),
         Grant(s, e), Work(s, e, [worker[s][e] EXCEPT !.pc = "mark", !.lease = granted + 1])
  PROVE  LeaseInv'
<1> DEFINE v == [worker[s][e] EXCEPT !.pc = "mark", !.lease = granted + 1]
<1>1. /\ sup[s] = "up" /\ worker[s][e] \in Worker /\ worker[s][e].pc = "acquire"
      /\ UNCHANGED <<sup, exec, request>>
  BY Up DEF AcquireForWorker, TypeOK
<1>2. v.pc = "mark" /\ v.lease = granted + 1 /\ Work(s, e, v)
  BY <1>1 DEF Worker
<1> HIDE DEF v
<1>3. /\ worker'[s][e] = v
      /\ \A x \in Supervisor, d \in Execution : (x # s \/ d # e) => worker'[x][d] = worker[x][d]
  BY <1>2, WorkFrame
<1>4. /\ granted' = granted + 1 /\ lease'.id = granted + 1 /\ lease'.exec = e /\ lease'.owner = s
      /\ lease.id = 0 /\ lease.owner = None /\ lease.exec = None
  BY DEF Grant, NoLease
<1>5. worker[s][e] # NoWorker /\ exec[e].status # "absent" /\ WorkerFits(s, e, worker[s][e])
  BY <1>1 DEF NoWorker, LeaseInv, WorkerFits
<1>6. \A x \in Supervisor : RequestFits(x, request[x])'
  BY <1>1, <1>3, <1>4, <1>5, Parts DEF LeaseInv, RequestFits
<1>7. \A d \in Execution : ExecutionFits(d, exec[d])'
  BY <1>1, <1>4, Parts DEF LeaseInv, ExecutionFits, Current
<1>8. \A x \in Supervisor, d \in Execution : WorkerFits(x, d, worker[x][d])'
  <2>1. WorkerFits(s, e, worker[s][e])'
    BY <1>1, <1>2, <1>3, <1>4, <1>5, Parts DEF WorkerFits, Current, Mine
  <2>2. ASSUME NEW x \in Supervisor, NEW d \in Execution, x # s \/ d # e
        PROVE  WorkerFits(x, d, worker[x][d])'
    BY <1>1, <1>3, <1>4, <2>2, Parts DEF LeaseInv, WorkerFits, Current, Mine
  <2> QED
    BY <2>1, <2>2
<1>9. LeaseFits'
  BY <1>1, <1>4, Parts DEF LeaseInv, LeaseFits
<1>10. Kept'
  BY <1>2, <1>3, <1>4 DEF Kept
<1> QED
  BY <1>6, <1>7, <1>8, <1>9, <1>10 DEF LeaseInv

\* One execution moves on, ends or is being cancelled.
LEMMA Settled ==
  ASSUME TypeOK, LeaseInv, NEW s \in Supervisor, NEW e \in Execution,
         exec[e].status \in Active, exec'[e].owner = exec[e].owner,
         exec'[e].status \in (Active \cup Outcome) \ {"starting"},
         \/ exec[e].owner = s
         \/ exec[e].status = "starting" /\ exec'[e].status \in Outcome
         \/ exec[e].status # "starting" /\ exec'[e].status \in Active,
         exec'[e].lease = exec[e].lease \/ exec[e].owner = s \/ exec'[e].status \in Outcome,
         exec[e].status = "starting" \/ exec[e].owner = s \/ exec'[e].lease = exec[e].lease,
         \A d \in Execution : d # e => exec'[d] = exec[d],
         UNCHANGED <<sup, granted>>,
         lease'.id = lease.id, lease'.exec = lease.exec, lease'.owner = lease.owner,
         \A x \in Supervisor : x # s => request'[x] = request[x],
         \A x \in Supervisor, d \in Execution : (x # s \/ d # e) => worker'[x][d] = worker[x][d],
         RequestFits(s, request[s])', ExecutionFits(e, exec[e])', WorkerFits(s, e, worker[s][e])',
         LeaseFits', Kept'
  PROVE  LeaseInv'
<1>1. ASSUME NEW x \in Supervisor, x # s PROVE RequestFits(x, request[x])'
  <2> DEFINE q == request[x]
  <2>1. RequestFits(x, q) /\ request'[x] = q /\ \A d \in Execution : worker'[x][d] = worker[x][d]
    BY <1>1 DEF LeaseInv
  <2>2. CASE q.exec = e
    BY <1>1, <2>1, <2>2 DEF RequestFits, Active, Outcome
  <2>3. CASE q.exec # e
    BY <1>1, <2>1, <2>3 DEF RequestFits
  <2> QED
    BY <2>2, <2>3
<1>2. ASSUME NEW d \in Execution, d # e PROVE ExecutionFits(d, exec[d])'
  BY <1>2 DEF LeaseInv, ExecutionFits, Current
<1>3. ASSUME NEW x \in Supervisor, NEW d \in Execution, d # e PROVE WorkerFits(x, d, worker[x][d])'
  BY <1>3 DEF LeaseInv, WorkerFits, Current, Mine
<1>4. ASSUME NEW x \in Supervisor, x # s PROVE WorkerFits(x, e, worker[x][e])'
  <2>1. WorkerFits(x, e, worker[x][e]) /\ worker'[x][e] = worker[x][e]
    BY <1>4 DEF LeaseInv
  <2>2. Mine(x, e)' => Mine(x, e)
    BY DEF Mine
  <2>3. exec[e].status # "absent" /\ exec'[e].status # "absent"
    BY DEF Active, Outcome
  <2> QED
    BY <1>4, <2>1, <2>2, <2>3 DEF WorkerFits, Current, Mine, Active, Outcome
<1> QED
  BY <1>1, <1>2, <1>3, <1>4 DEF LeaseInv

LEMMA ClaimLease ==
  ASSUME TypeOK, LeaseInv, NEW s \in Supervisor, Claim(s),
         exec' = [exec EXCEPT ![request[s].exec] =
                    [status |-> "starting", owner |-> s, lease |-> request[s].lease, fresh |-> TRUE]],
         Serve(s, [request[s] EXCEPT !.pc = "launch"])
  PROVE  LeaseInv'
<1> DEFINE req == request[s]
           r == [req EXCEPT !.pc = "launch"]
<1>1. /\ sup[s] = "up" /\ req \in Request /\ req.pc = "claim" /\ RequestFits(s, req)
      /\ UNCHANGED <<sup, granted, lease, worker>>
  BY Up DEF Claim, TypeOK, LeaseInv
<1>0. PICK e \in Execution : e = req.exec
  BY <1>1 DEF RequestFits
<1>2. r.pc = "launch" /\ r.exec = e /\ r.lease = req.lease /\ Serve(s, r)
  BY <1>0, <1>1 DEF Request
<1>3. /\ req.lease # 0 /\ req.lease = lease.id /\ lease.owner = s /\ req.lease <= granted
      /\ lease.exec = e /\ exec[e].status = "absent"
  BY <1>0, <1>1 DEF RequestFits
<1>4. /\ exec'[e].status = "starting" /\ exec'[e].owner = s
      /\ exec'[e].lease = req.lease /\ exec'[e].fresh = TRUE
      /\ \A d \in Execution : d # e => exec'[d] = exec[d]
  BY <1>0 DEF TypeOK
<1> HIDE DEF r
<1>5. request'[s] = r /\ \A x \in Supervisor : x # s => request'[x] = request[x]
  BY <1>2, ServeFrame
<1>6. \A x \in Supervisor : worker[x][e] = NoWorker
  BY <1>3 DEF LeaseInv, WorkerFits
<1>7. \A x \in Supervisor : RequestFits(x, request[x])'
  <2>1. RequestFits(s, request[s])'
    BY <1>1, <1>2, <1>3, <1>4, <1>5, <1>6 DEF RequestFits
  <2>2. ASSUME NEW x \in Supervisor, x # s PROVE RequestFits(x, request[x])'
    <3> DEFINE q == request[x]
    <3>1. RequestFits(x, q) /\ request'[x] = q
      BY <1>5, <2>2 DEF LeaseInv
    <3>2. CASE q.exec = e
      BY <1>1, <1>3, <1>4, <2>2, <3>1, <3>2, NothingTyped DEF RequestFits, Outcome
    <3>3. CASE q.exec # e
      BY <1>1, <1>4, <3>1, <3>3 DEF RequestFits
    <3> QED
      BY <3>2, <3>3
  <2> QED
    BY <2>1, <2>2
<1>8. \A d \in Execution : ExecutionFits(d, exec[d])'
  BY <1>1, <1>3, <1>4 DEF LeaseInv, ExecutionFits, Current, Active
<1>9. \A x \in Supervisor, d \in Execution : WorkerFits(x, d, worker[x][d])'
  <2>1. \A x \in Supervisor : WorkerFits(x, e, worker[x][e])'
    BY <1>1, <1>3, <1>4, <1>6, Parts DEF WorkerFits, NoWorker, Mine, Current
  <2>2. ASSUME NEW x \in Supervisor, NEW d \in Execution, d # e PROVE WorkerFits(x, d, worker[x][d])'
    BY <1>1, <1>4, <2>2 DEF LeaseInv, WorkerFits, Current, Mine
  <2> QED
    BY <2>1, <2>2
<1>10. LeaseFits' /\ Kept'
  BY <1>1, <1>3, <1>4 DEF LeaseInv, LeaseFits, Kept
<1> QED
  BY <1>7, <1>8, <1>9, <1>10 DEF LeaseInv

LEMMA MarkLease ==
  ASSUME TypeOK, LeaseInv, NEW s \in Supervisor, NEW e \in Execution, Mark(s, e),
         Mine(s, e), exec[e].status = "starting"
  PROVE  LeaseInv'
<1> DEFINE w == worker[s][e]
<1>1. /\ sup[s] = "up" /\ w \in Worker /\ w.pc = "mark" /\ WorkerFits(s, e, w)
      /\ UNCHANGED <<sup, granted, request>> /\ lease' = Stamped(e)
  BY Up DEF Mark, TypeOK, LeaseInv
<1>2. w # NoWorker /\ Current(s, e, w.lease) /\ exec[e].owner = s /\ w.lease <= granted
  BY <1>1 DEF NoWorker, WorkerFits, Mine
<1>3. /\ exec'[e].status = "running" /\ exec'[e].owner = s
      /\ exec'[e].lease = w.lease /\ exec'[e].fresh = TRUE
      /\ \A d \in Execution : d # e => exec'[d] = exec[d]
  BY <1>2 DEF Mark, TypeOK, ExecRecord
<1>4. PICK v : Work(s, e, v) /\ \/ v.pc = "enter" /\ v.lease = w.lease
                                \/ v.pc = "finalize" /\ v.lease = 0
  <2> DEFINE v == [w EXCEPT !.pc = "enter"]
             u == [NoWorker EXCEPT !.pc = "finalize", !.outcome = "failed"]
  <2>1. v.pc = "enter" /\ v.lease = w.lease /\ u.pc = "finalize" /\ u.lease = 0
    BY <1>1 DEF Worker, NoWorker
  <2>2. Work(s, e, v) \/ Work(s, e, u)
    BY DEF Mark, Stop
  <2> HIDE DEF v, u
  <2> QED
    BY <2>1, <2>2
<1>5. /\ worker'[s][e] = v
      /\ \A x \in Supervisor, d \in Execution : (x # s \/ d # e) => worker'[x][d] = worker[x][d]
  BY <1>4, WorkFrame
<1>6. /\ lease'.id = lease.id /\ lease'.exec = lease.exec /\ lease'.owner = lease.owner
      /\ LeaseFits'
  BY <1>1, StampedSame, StampedFits
<1>7. RequestFits(s, request[s])'
  <2> DEFINE q == request[s]
  <2>1. RequestFits(s, q) /\ request'[s] = q
    BY <1>1 DEF LeaseInv
  <2>2. CASE q.exec = e
    BY <1>1, <1>2, <1>3, <1>5, <1>6, <2>1, <2>2 DEF RequestFits, Outcome
  <2>3. CASE q.exec # e
    BY <1>1, <1>2, <1>3, <1>5, <1>6, <2>1, <2>3 DEF RequestFits
  <2> QED
    BY <2>2, <2>3
<1>8. ExecutionFits(e, exec[e])'
  BY <1>1, <1>2, <1>3, <1>6 DEF ExecutionFits, Current, Active
<1>9. WorkerFits(s, e, worker[s][e])'
  BY <1>1, <1>2, <1>3, <1>4, <1>5, <1>6, Parts DEF WorkerFits, Current, Mine, Active
<1>10. Kept'
  BY <1>2, <1>3, <1>6 DEF Kept, Current
<1>11. exec[e].status \in Active /\ exec'[e].status \in (Active \cup Outcome) \ {"starting"}
  BY <1>3 DEF Mine, Active
<1> QED
  BY <1>1, <1>2, <1>3, <1>5, <1>6, <1>7, <1>8, <1>9, <1>10, <1>11, Settled

\* The owner ends its execution; the lease, if any, is its own.
LEMMA Ends ==
  ASSUME TypeOK, LeaseInv, NEW s \in Supervisor, NEW e \in Execution,
         NEW status \in {"cancelled", "completed", "failed"}, sup[s] = "up",
         exec' = [exec EXCEPT ![e] = Finalized(s, e, status)]
  PROVE  \/ ~Mine(s, e) /\ UNCHANGED exec /\ Leftover(s, e) = 0
         \/ /\ Mine(s, e) /\ Leftover(s, e) = exec[e].lease
            /\ exec[e].lease # 0 => Current(s, e, exec[e].lease)
            /\ exec[e].lease <= granted
            /\ exec'[e].status \in Outcome /\ exec'[e].lease = 0 /\ exec'[e].owner = exec[e].owner
            /\ \A d \in Execution : d # e => exec'[d] = exec[d]
<1>1. ExecutionFits(e, exec[e]) /\ exec[e] \in ExecRecord
  BY DEF LeaseInv, TypeOK
<1>2. Mine(s, e) => (exec[e].lease # 0 => Current(s, e, exec[e].lease)) /\ exec[e].lease <= granted
  BY <1>1 DEF Mine, ExecutionFits
<1>3. ~LostLease(s, e)
  BY <1>2 DEF LostLease, Holds, Current
<1>4. CASE ~Mine(s, e)
  BY <1>3, <1>4 DEF Finalized, Leftover, TypeOK
<1>5. CASE Mine(s, e)
  <2>1. PICK o \in Outcome : exec' = [exec EXCEPT ![e] = Ended(exec[e], o)]
    BY <1>3, <1>5 DEF Finalized, Outcome
  <2>2. /\ exec'[e].status = o /\ exec'[e].lease = 0 /\ exec'[e].owner = exec[e].owner
        /\ \A d \in Execution : d # e => exec'[d] = exec[d]
    <3>1. exec'[e] = Ended(exec[e], o) /\ \A d \in Execution : d # e => exec'[d] = exec[d]
      BY <2>1 DEF TypeOK
    <3>2. LET x == Ended(exec[e], o) IN
          x.status = o /\ x.lease = 0 /\ x.owner = exec[e].owner
      BY <1>1 DEF Ended, ExecRecord
    <3> QED
      BY <3>1, <3>2
  <2> QED
    BY <1>2, <1>3, <1>5, <2>2 DEF Leftover
<1> QED
  BY <1>4, <1>5

LEMMA FailLease ==
  ASSUME TypeOK, Targeted, LeaseInv, NEW s \in Supervisor, Fail(s)
  PROVE  LeaseInv'
<1> DEFINE req == request[s]
<1>1. /\ sup[s] = "up" /\ req \in Request /\ req.pc = "finalize" /\ RequestFits(s, req)
      /\ UNCHANGED <<sup, granted, lease, worker>>
  BY Up DEF Fail, TypeOK, LeaseInv
<1>2. PICK e \in Execution : e = req.exec
  BY <1>1 DEF RequestFits
<1>3. worker[s][e] = NoWorker
  BY <1>1, <1>2 DEF RequestFits
<1>4. /\ exec' = [exec EXCEPT ![e] = Finalized(s, e, "failed")]
      /\ Serve(s, IF Leftover(s, e) = 0 THEN Idle
                  ELSE [req EXCEPT !.pc = "release", !.lease = Leftover(s, e)])
  BY <1>2 DEF Fail
<1>5. CASE ~Mine(s, e)
  <2>1. UNCHANGED exec /\ Serve(s, Idle)
    BY <1>1, <1>4, <1>5, Ends
  <2> QED
    BY <1>1, <2>1, IdleFits, SteadyRequest, Untouched
<1>6. CASE Mine(s, e)
  <2> DEFINE id == exec[e].lease
             q == [req EXCEPT !.pc = "release", !.lease = id]
  <2>1. /\ Leftover(s, e) = id /\ id <= granted /\ (id # 0 => Current(s, e, id))
        /\ exec'[e].status \in Outcome /\ exec'[e].lease = 0 /\ exec'[e].owner = exec[e].owner
        /\ \A d \in Execution : d # e => exec'[d] = exec[d]
    BY <1>1, <1>4, <1>6, Ends
  <2>2. q.pc = "release" /\ q.lease = id /\ q.exec = e
    BY <1>1, <1>2 DEF Request
  <2>3. Serve(s, IF id = 0 THEN Idle ELSE q)
    BY <1>4, <2>1
  <2> HIDE DEF q
  <2>4. PICK r : /\ Serve(s, r) /\ (id = 0 => r = Idle)
                 /\ (id # 0 => r.pc = "release" /\ r.lease = id /\ r.exec = e)
    BY <2>2, <2>3
  <2>5. request'[s] = r /\ \A x \in Supervisor : x # s => request'[x] = request[x]
    BY <2>4, ServeFrame
  <2>6. RequestFits(s, request[s])'
    BY <1>1, <2>1, <2>4, <2>5, Parts DEF RequestFits, Current, Idle
  <2>7. ExecutionFits(e, exec[e])'
    BY <1>1, <2>1, Parts DEF ExecutionFits, Active, Outcome
  <2>8. WorkerFits(s, e, worker[s][e])'
    BY <1>1, <1>3, <2>1, Parts DEF WorkerFits, NoWorker, Mine, Active, Outcome
  <2>9. LeaseFits'
    BY <1>1 DEF LeaseInv, LeaseFits
  <2>10. Kept'
    <3>1. exec[e].status \in Active /\ req.pc = "finalize"
      BY <1>1, <1>6 DEF Mine
    <3>2. CASE id # 0 /\ id = lease.id
      BY <1>1, <2>1, <2>4, <2>5, <3>2 DEF Kept, Current
    <3>3. CASE id = 0 \/ id # lease.id
      BY <1>1, <2>1, <2>5, <3>1, <3>3 DEF LeaseInv, LeaseFits, Kept, Active
    <3> QED
      BY <3>2, <3>3
  <2>11. /\ exec[e].status \in Active /\ exec[e].owner = s
         /\ exec'[e].status \in (Active \cup Outcome) \ {"starting"}
    BY <1>6, <2>1 DEF Mine, Outcome
  <2> QED
    BY <1>1, <2>1, <2>5, <2>6, <2>7, <2>8, <2>9, <2>10, <2>11, Settled
<1> QED
  BY <1>5, <1>6

LEMMA FinalizeLease ==
  ASSUME TypeOK, Decided, LeaseInv, NEW s \in Supervisor, NEW e \in Execution, Finalize(s, e)
  PROVE  LeaseInv'
<1> DEFINE w == worker[s][e]
<1>1. /\ sup[s] = "up" /\ w \in Worker /\ w.pc = "finalize" /\ WorkerFits(s, e, w)
      /\ UNCHANGED <<sup, granted, lease, request>>
  BY Up DEF Finalize, TypeOK, LeaseInv
<1>2. w.outcome \in {"cancelled", "completed", "failed"} /\ w # NoWorker /\ w.lease = 0
  BY <1>1 DEF Decided, Worker, NoWorker, WorkerFits
<1>3. /\ exec' = [exec EXCEPT ![e] = Finalized(s, e, w.outcome)]
      /\ Work(s, e, IF Leftover(s, e) = 0 THEN Over
                    ELSE [NoWorker EXCEPT !.pc = "release", !.lease = Leftover(s, e)])
  BY DEF Finalize
<1>4. Over.pc = "done" /\ Over.lease = 0
  BY DEF Over, NoWorker
<1>5. CASE ~Mine(s, e)
  <2>1. UNCHANGED exec /\ Work(s, e, Over)
    BY <1>1, <1>2, <1>3, <1>5, Ends
  <2>2. WorkerFits(s, e, Over)
    BY <1>1, <1>2, <1>4, <1>5, Parts DEF WorkerFits
  <2> QED
    BY <1>1, <1>2, <1>4, <2>1, <2>2, SteadyWorker, Untouched
<1>6. CASE Mine(s, e)
  <2> DEFINE id == exec[e].lease
             u == [NoWorker EXCEPT !.pc = "release", !.lease = id]
  <2>1. /\ Leftover(s, e) = id /\ id <= granted /\ (id # 0 => Current(s, e, id))
        /\ exec'[e].status \in Outcome /\ exec'[e].lease = 0 /\ exec'[e].owner = exec[e].owner
        /\ \A d \in Execution : d # e => exec'[d] = exec[d]
    BY <1>1, <1>2, <1>3, <1>6, Ends
  <2>2. u.pc = "release" /\ u.lease = id
    BY DEF NoWorker
  <2>3. Work(s, e, IF id = 0 THEN Over ELSE u)
    BY <1>3, <2>1
  <2> HIDE DEF u
  <2>4. PICK v : /\ Work(s, e, v) /\ v.lease = id
                 /\ v.pc = "release" \/ (v.pc = "done" /\ id = 0)
    BY <1>4, <2>2, <2>3
  <2>5. /\ worker'[s][e] = v
        /\ \A x \in Supervisor, d \in Execution : (x # s \/ d # e) => worker'[x][d] = worker[x][d]
    BY <2>4, WorkFrame
  <2>6. RequestFits(s, request[s])'
    <3> DEFINE q == request[s]
    <3>1. RequestFits(s, q) /\ request'[s] = q
      BY <1>1 DEF LeaseInv
    <3>2. exec[e].status \in Active
      BY <1>6 DEF Mine
    <3>3. CASE q.exec = e
      BY <1>1, <1>2, <2>1, <2>5, <3>1, <3>2, <3>3 DEF RequestFits, Outcome, Active
    <3>4. CASE q.exec # e
      BY <1>1, <1>2, <2>1, <2>5, <3>1, <3>4 DEF RequestFits
    <3> QED
      BY <3>3, <3>4
  <2>7. ExecutionFits(e, exec[e])'
    BY <1>1, <2>1, Parts DEF ExecutionFits, Active, Outcome
  <2>8. WorkerFits(s, e, worker[s][e])'
    BY <1>1, <2>1, <2>4, <2>5, Parts DEF WorkerFits, Mine, Active, Outcome, Current
  <2>9. LeaseFits'
    BY <1>1 DEF LeaseInv, LeaseFits
  <2>10. Kept'
    <3>1. exec[e].status \in Active
      BY <1>6 DEF Mine
    <3>2. CASE id # 0 /\ id = lease.id
      BY <1>1, <2>1, <2>4, <2>5, <3>2 DEF Kept, Current
    <3>3. CASE id = 0 \/ id # lease.id
      BY <1>1, <1>2, <2>1, <2>5, <3>1, <3>3 DEF LeaseInv, LeaseFits, Kept, Active
    <3> QED
      BY <3>2, <3>3
  <2>11. /\ exec[e].status \in Active /\ exec[e].owner = s
         /\ exec'[e].status \in (Active \cup Outcome) \ {"starting"}
    BY <1>6, <2>1 DEF Mine, Outcome
  <2> QED
    BY <1>1, <2>1, <2>5, <2>6, <2>7, <2>8, <2>9, <2>10, <2>11, Settled
<1> QED
  BY <1>5, <1>6

\* Cancelled before it ran: the lease it names goes with the request.
LEMMA CancelLease ==
  ASSUME TypeOK, Targeted, LeaseInv, NEW s \in Supervisor, Cancel(s)
  PROVE  LeaseInv'
<1> DEFINE req == request[s]
<1>1. /\ sup[s] = "up" /\ req \in Request /\ req.pc = "cancel" /\ RequestFits(s, req)
      /\ UNCHANGED <<sup, granted, worker>>
  BY Up DEF Cancel, TypeOK, LeaseInv
<1>2. PICK e \in Execution : e = req.exec
  BY <1>1 DEF RequestFits
<1>3. ExecutionFits(e, exec[e]) /\ exec[e] \in ExecRecord /\ WorkerFits(s, e, worker[s][e])
  BY DEF LeaseInv, TypeOK
<1>4. CASE /\ exec[e].status = "starting"
           /\ exec' = [exec EXCEPT ![e] = Ended(@, "cancelled")]
           /\ Serve(s, IF req.lease = 0 THEN Idle ELSE [req EXCEPT !.pc = "release"])
           /\ UNCHANGED lease
  <2> DEFINE q == [req EXCEPT !.pc = "release"]
  <2>1. /\ exec'[e].status = "cancelled" /\ exec'[e].lease = 0 /\ exec'[e].owner = exec[e].owner
        /\ \A d \in Execution : d # e => exec'[d] = exec[d]
    BY <1>3, <1>4 DEF TypeOK, Ended, ExecRecord
  <2>2. q.pc = "release" /\ q.lease = req.lease /\ q.exec = e
    BY <1>1, <1>2 DEF Request
  <2>3. Serve(s, IF req.lease = 0 THEN Idle ELSE q)
    BY <1>4
  <2> HIDE DEF q
  <2>4. PICK r : /\ Serve(s, r) /\ (req.lease = 0 => r = Idle)
                 /\ (req.lease # 0 => r.pc = "release" /\ r.lease = req.lease /\ r.exec = e)
    BY <2>2, <2>3
  <2>5. request'[s] = r /\ \A x \in Supervisor : x # s => request'[x] = request[x]
    BY <2>4, ServeFrame
  <2>6. RequestFits(s, request[s])'
    BY <1>1, <1>2, <1>4, <2>1, <2>4, <2>5, Parts DEF RequestFits, Idle, Outcome
  <2>7. ExecutionFits(e, exec[e])'
    BY <1>1, <1>4, <2>1, Parts DEF ExecutionFits, Active
  <2>8. WorkerFits(s, e, worker[s][e])'
    BY <1>1, <1>3, <1>4, <2>1, Parts DEF WorkerFits, Mine, Active
  <2>9. LeaseFits'
    BY <1>1, <1>4 DEF LeaseInv, LeaseFits
  <2>10. exec[e].lease # 0 => req.lease = exec[e].lease
    BY <1>1, <1>2, <1>4 DEF RequestFits
  <2>11. Kept'
    <3>1. CASE exec[e].lease # 0 /\ exec[e].lease = lease.id
      <4>1. lease.exec = e
        BY <1>3, <3>1 DEF ExecutionFits
      <4> QED
        BY <1>1, <1>4, <2>1, <2>4, <2>5, <2>10, <3>1, <4>1 DEF Kept
    <3>2. CASE exec[e].lease = 0 \/ exec[e].lease # lease.id
      BY <1>1, <1>4, <2>1, <2>5, <3>2 DEF LeaseInv, LeaseFits, Kept
    <3> QED
      BY <3>1, <3>2
  <2>12. /\ exec[e].status \in Active /\ exec'[e].status \in Outcome
         /\ exec'[e].status \in (Active \cup Outcome) \ {"starting"}
    BY <1>4, <2>1 DEF Active, Outcome
  <2> QED
    BY <1>1, <1>4, <2>1, <2>5, <2>6, <2>7, <2>8, <2>9, <2>11, <2>12, Settled
<1>5. CASE /\ exec[e].status = "running"
           /\ exec' = [exec EXCEPT ![e].status = "cancelling", ![e].fresh = TRUE]
           /\ lease' = Stamped(e)
           /\ Serve(s, Idle)
  <2>1. /\ exec'[e].status = "cancelling" /\ exec'[e].lease = exec[e].lease
        /\ exec'[e].owner = exec[e].owner /\ exec'[e].fresh = TRUE
        /\ \A d \in Execution : d # e => exec'[d] = exec[d]
    BY <1>3, <1>5 DEF TypeOK, ExecRecord
  <2>2. request'[s] = Idle /\ \A x \in Supervisor : x # s => request'[x] = request[x]
    BY <1>5, ServeFrame
  <2>3. /\ lease'.id = lease.id /\ lease'.exec = lease.exec /\ lease'.owner = lease.owner
        /\ LeaseFits'
    BY <1>1, <1>5, StampedSame, StampedFits
  <2>4. RequestFits(s, request[s])'
    BY <1>1, <2>2, Parts DEF RequestFits, Idle
  <2>5. ExecutionFits(e, exec[e])'
    BY <1>1, <1>3, <1>5, <2>1, <2>3 DEF ExecutionFits, Active, Current
  <2>6. WorkerFits(s, e, worker[s][e])'
    BY <1>1, <1>3, <1>5, <2>1, <2>3 DEF WorkerFits, Mine, Active, Current
  <2>7. Kept'
    <3>1. \A d \in Execution : /\ exec'[d].lease = exec[d].lease
                               /\ exec[d].status = "cancelled" => exec'[d].status = "cancelled"
      BY <1>5, <2>1
    <3>2. \A x \in Supervisor :
            request[x].pc \in {"claim", "work", "giveBack", "release"} => request'[x] = request[x]
      BY <1>1, <2>2
    <3>3. lease.id # 0 => lease.owner \in Supervisor
      BY DEF LeaseInv, LeaseFits
    <3> QED
      BY <1>1, <2>3, <3>1, <3>2, <3>3 DEF LeaseInv, Kept
  <2>8. /\ exec[e].status \in Active /\ exec[e].status # "starting" /\ exec'[e].status \in Active
        /\ exec'[e].status \in (Active \cup Outcome) \ {"starting"}
    BY <1>5, <2>1 DEF Active
  <2> QED
    BY <1>1, <2>1, <2>2, <2>3, <2>4, <2>5, <2>6, <2>7, <2>8, Settled
<1>6. CASE Serve(s, Idle) /\ UNCHANGED <<exec, lease>>
  BY <1>6, RefusedLease
<1> QED
  BY <1>2, <1>4, <1>5, <1>6 DEF Cancel

\* The lease ends, and nobody works under it or may yet claim it.
LEMMA Freed ==
  ASSUME TypeOK, LeaseInv, lease' = NoLease, UNCHANGED <<sup, exec, granted>>,
         \/ ~InUse
         \/ sup[lease.owner] = "dead"
         \/ lease.exec \in Execution => ~Mine(lease.owner, lease.exec),
         NEW s, NEW e,
         \A x \in Supervisor : request'[x].pc \notin {"claim", "work", "giveBack"},
         \A x \in Supervisor : request'[x] = request[x] \/ (x = s /\ request'[x] = Idle),
         \A x \in Supervisor, d \in Execution :
            \/ worker'[x][d] = worker[x][d]
            \/ x = s /\ d = e /\ worker[s][e] # NoWorker /\ ~Mine(s, e) /\ worker'[s][e] = Over
  PROVE  LeaseInv'
<1>1. lease'.id = 0 /\ LeaseFits'
  BY Parts DEF NoLease, LeaseFits
<1>2. Over.pc = "done" /\ Over.lease = 0
  BY DEF Over, NoWorker
<1>3. ASSUME NEW x \in Supervisor PROVE RequestFits(x, request[x])'
  <2>1. CASE request'[x] = Idle
    BY <2>1, Parts DEF RequestFits, Idle
  <2>2. CASE request'[x] = request[x]
    <3>1. RequestFits(x, request[x]) /\ request'[x].pc \notin {"claim", "work", "giveBack"}
      BY DEF LeaseInv
    <3>2. \A d \in Execution : worker[x][d] = NoWorker => worker'[x][d] = NoWorker
      OBVIOUS
    <3> QED
      BY <1>1, <2>2, <3>1, <3>2 DEF RequestFits
  <2> QED
    BY <2>1, <2>2
<1>4. ASSUME NEW x \in Supervisor, NEW d \in Execution, sup[x] = "up", Mine(x, d),
             exec[d].lease = lease.id \/ (worker[x][d].lease = lease.id /\ worker[x][d].pc # "done")
      PROVE  ~Current(x, d, lease.id)
  BY <1>4 DEF InUse, Mine, Current
<1>5. ASSUME NEW d \in Execution PROVE ExecutionFits(d, exec[d])'
  <2>1. ExecutionFits(d, exec[d])
    BY DEF LeaseInv
  <2>2. (exec[d].status \in Active /\ sup[exec[d].owner] = "up") =>
          exec[d].lease = 0 /\ exec[d].status = "starting"
    BY <1>4, <2>1 DEF ExecutionFits, Mine, Current
  <2> QED
    BY <1>1, <2>1, <2>2 DEF ExecutionFits
<1>6. ASSUME NEW x \in Supervisor, NEW d \in Execution PROVE WorkerFits(x, d, worker[x][d])'
  <2>1. WorkerFits(x, d, worker[x][d])
    BY DEF LeaseInv
  <2>2. ~(worker[x][d].pc = "mark" /\ Mine(x, d) /\ exec[d].status = "starting")
    BY <1>4, <2>1, Up DEF WorkerFits, Current
  <2>3. CASE worker'[x][d] = worker[x][d]
    BY <1>1, <2>1, <2>2, <2>3 DEF WorkerFits, Mine
  <2>4. CASE worker[x][d] # NoWorker /\ ~Mine(x, d) /\ worker'[x][d] = Over
    BY <1>1, <1>2, <2>1, <2>4, Parts DEF WorkerFits, Mine
  <2> QED
    BY <2>3, <2>4
<1>7. Kept'
  BY <1>1 DEF Kept
<1> QED
  BY <1>1, <1>3, <1>5, <1>6, <1>7 DEF LeaseInv

LEMMA GiveBackLease ==
  ASSUME TypeOK, LeaseInv, NEW s \in Supervisor, GiveBack(s)
  PROVE  LeaseInv'
<1> DEFINE req == request[s]
<1>1. /\ req.pc \in {"giveBack", "release"} /\ RequestFits(s, req)
      /\ UNCHANGED <<sup, exec, granted, worker>> /\ Serve(s, Idle)
  BY DEF GiveBack, LeaseInv
<1>2. CASE req.lease = lease.id /\ lease.id # 0
  <2>1. request'[s] = Idle /\ \A x \in Supervisor : x # s => request'[x] = request[x]
    BY <1>1, ServeFrame
  <2>2. lease' = NoLease
    BY <1>2 DEF GiveBack, Released
  <2>3. lease.exec \in Execution => ~Mine(lease.owner, lease.exec)
    BY <1>1, <1>2, NothingTyped DEF RequestFits, Mine, Active, Outcome
  <2>4. \A x \in Supervisor : request'[x].pc \notin {"claim", "work", "giveBack"}
    <3>1. Idle.pc = "idle"
      BY DEF Idle
    <3>2. ASSUME NEW x \in Supervisor, x # s, request[x].pc \in {"claim", "work", "giveBack"}
          PROVE  FALSE
      <4>1. RequestFits(x, request[x])
        BY DEF LeaseInv
      <4>2. req.pc = "release"
        BY <1>1, <3>2, <4>1 DEF RequestFits
      <4>3. lease.exec \in Execution /\ exec[lease.exec].status \in Outcome
        BY <1>1, <1>2, <4>2 DEF RequestFits
      <4> QED
        BY <3>2, <4>1, <4>3, NothingTyped DEF RequestFits, Outcome
    <3> QED
      BY <2>1, <3>1, <3>2
  <2> QED
    BY <1>1, <2>1, <2>2, <2>3, <2>4, Freed
<1>3. CASE ~(req.lease = lease.id /\ lease.id # 0)
  <2>1. UNCHANGED lease
    BY <1>3 DEF GiveBack, Released, LeaseInv, LeaseFits
  <2> QED
    BY <1>1, <1>3, <2>1, IdleFits, Untouched, Steady
<1> QED
  BY <1>2, <1>3

LEMMA DroppedLease ==
  ASSUME TypeOK, LeaseInv, NEW s \in Supervisor, NEW e \in Execution, DropLease(s, e)
  PROVE  LeaseInv'
<1> DEFINE w == worker[s][e]
<1>1. /\ sup[s] = "up" /\ w.pc \in {"drop", "release"} /\ WorkerFits(s, e, w)
      /\ UNCHANGED <<sup, exec, granted, request>> /\ Work(s, e, Over)
  BY Up DEF DropLease, LeaseInv
<1>2. w # NoWorker /\ ~Mine(s, e) /\ exec[e].status # "absent" /\ RequestFits(s, request[s])
  BY <1>1 DEF NoWorker, WorkerFits, LeaseInv
<1>3. CASE w.lease = lease.id /\ lease.id # 0
  <2>1. /\ worker'[s][e] = Over
        /\ \A x \in Supervisor, d \in Execution : (x # s \/ d # e) => worker'[x][d] = worker[x][d]
    BY <1>1, WorkFrame
  <2>2. lease' = NoLease /\ lease.exec = e /\ lease.owner = s
    BY <1>1, <1>3 DEF DropLease, Released, WorkerFits
  <2>3. \A x \in Supervisor : request'[x].pc \notin {"claim", "work", "giveBack"}
    BY <1>1, <1>2, <2>2, NothingTyped DEF LeaseInv, RequestFits
  <2> QED
    BY <1>1, <1>2, <2>1, <2>2, <2>3, Freed
<1>4. CASE ~(w.lease = lease.id /\ lease.id # 0)
  <2>1. UNCHANGED lease
    BY <1>4 DEF DropLease, Released, LeaseInv, LeaseFits
  <2>2. Over.pc = "done" /\ Over.lease = 0
    BY DEF Over, NoWorker
  <2>3. WorkerFits(s, e, Over)
    BY <1>1, <1>2, <2>2, Parts DEF WorkerFits
  <2>4. request[s].pc # "adopt" /\ ~(request[s].pc \in {"launch", "finalize"} /\ request[s].exec = e)
    BY <1>2 DEF RequestFits
  <2> QED
    BY <1>1, <1>2, <1>4, <2>1, <2>3, <2>4, Untouched, Steady
<1> QED
  BY <1>3, <1>4

LEMMA LapseLease ==
  ASSUME TypeOK, LeaseInv, Slow = {}, LeaseLapses
  PROVE  LeaseInv'
<1>1. lease.id # 0 /\ lease.owner \in Supervisor
  BY DEF LeaseLapses, LeaseInv, LeaseFits
<1>2. lease' = NoLease /\ UNCHANGED <<sup, exec, granted>> /\ UNCHANGED <<request, worker>>
  BY DEF LeaseLapses
<1>3. ~InUse \/ sup[lease.owner] = "dead"
  BY DEF LeaseLapses
<1>4. \A x \in Supervisor : request'[x].pc \notin {"claim", "work", "giveBack"}
  <2>1. ASSUME NEW x \in Supervisor, request[x].pc \in {"claim", "work", "giveBack"} PROVE FALSE
    <3>1. RequestFits(x, request[x]) /\ sup[x] = "up"
      BY <2>1, Up DEF LeaseInv
    <3> QED
      BY <1>3, <2>1, <3>1 DEF RequestFits, InUse
  <2> QED
    BY <1>2, <2>1
<1> QED
  BY <1>1, <1>2, <1>3, <1>4, Freed

----------------------------------------------------------------------------
(* The theorems.                                                           *)

LEMMA InitHolds == Init => IInv /\ Lifecycle!Init
<1> SUFFICES ASSUME Init PROVE IInv /\ Lifecycle!Init
  OBVIOUS
<1>1. TypeOK
  <2>1. [status |-> "absent", owner |-> None, lease |-> 0, fresh |-> FALSE] \in ExecRecord
    BY NothingTyped DEF ExecRecord
  <2> QED
    BY <2>1, NothingTyped DEF Init, TypeOK, Beat
<1>2. Targeted /\ Reserved /\ Decided
  BY DEF Init, Targeted, Reserved, Decided, Idle, NoWorker
<1>3. Lifecycle!OneActive /\ Lifecycle!Init
  BY DEF Init, Lifecycle!OneActive, Lifecycle!Active, Lifecycle!Init
<1> QED
  BY <1>1, <1>2, <1>3 DEF IInv

LEMMA Inductive == IInv /\ [Next]_vars => IInv'
BY StepTyped, TargetedStep, ReservedStep, DecidedStep, OneActiveStep DEF IInv

LEMMA Invariance == Spec => []IInv
<1>1. Init => IInv
  BY InitHolds
<1> QED
  BY <1>1, Inductive, PTL DEF Spec

LEMMA LeaseInit == Init => LeaseInv
<1> SUFFICES ASSUME Init PROVE LeaseInv
  OBVIOUS
<1>1. \A s \in Supervisor : RequestFits(s, request[s])
  BY DEF Init, RequestFits, Idle
<1>2. \A e \in Execution : ExecutionFits(e, exec[e])
  BY DEF Init, ExecutionFits, Active
<1>3. \A s \in Supervisor, e \in Execution : WorkerFits(s, e, worker[s][e])
  BY DEF Init, WorkerFits, NoWorker, Mine, Active
<1>4. LeaseFits /\ Kept
  BY DEF Init, LeaseFits, Kept, NoLease
<1> QED
  BY <1>1, <1>2, <1>3, <1>4 DEF LeaseInv

LEMMA LeaseStep ==
  ASSUME Slow = {}, IInv, LeaseInv, [Next]_vars
  PROVE  LeaseInv'
<1>1. TypeOK /\ Targeted /\ Decided
  BY DEF IInv
<1>2. ASSUME NEW s \in Supervisor,
             \/ Startup(s) \/ Crash(s) \/ Poll(s) \/ Arrive(s) \/ ArriveCancel(s)
             \/ Adopt(s) \/ Reconcile(s) \/ Check(s) \/ EndWork(s) \/ GiveBack(s)
             \/ Fail(s) \/ ReadForCancel(s) \/ Cancel(s)
      PROVE  LeaseInv'
  BY <1>1, <1>2, StartupLease, CrashLease, ReconcileLease, ArriveLease, AdoptLease, ReadLease,
    GiveBackLease, FailLease, CancelLease
<1>3. ASSUME NEW s \in Supervisor, Acquire(s) PROVE LeaseInv'
  BY <1>1, <1>3, AcquireLease, RefusedLease
<1>4. ASSUME NEW s \in Supervisor, Claim(s) PROVE LeaseInv'
  BY <1>1, <1>4, ClaimLease, RefusedLease DEF Claim
<1>5. ASSUME NEW s \in Supervisor, Launch(s) PROVE LeaseInv'
  BY <1>1, <1>5, LaunchLease, RefusedLease DEF Launch
<1>6. ASSUME NEW s \in Supervisor, NEW e \in Execution, Working(s, e) PROVE LeaseInv'
  <2>1. CASE AcquireForWorker(s, e)
    BY <1>1, <2>1, WorkerLease, TurnedAwayLease DEF AcquireForWorker
  <2>2. CASE Mark(s, e)
    BY <1>1, <2>2, MarkLease, TurnedAwayLease
  <2> QED
    BY <1>1, <1>6, <2>1, <2>2, BeginLease, LoopLease, FinalizeLease, DroppedLease DEF Working
<1>7. ASSUME NEW s \in Supervisor, NEW e \in Execution, Beating(s, e) PROVE LeaseInv'
  BY <1>1, <1>7, BeatLease
<1>8. ASSUME NEW e \in Execution, HeartbeatLapses(e) PROVE LeaseInv'
  BY <1>1, <1>8, HeartbeatLease
<1>9. CASE LeaseLapses
  BY <1>1, <1>9, LapseLease
<1>10. CASE CloseRun \/ UNCHANGED vars
  BY <1>10, CloseLease
<1> QED
  BY <1>2, <1>3, <1>4, <1>5, <1>6, <1>7, <1>8, <1>9, <1>10 DEF Next, Serving

LEMMA LeaseInvariance ==
  ASSUME Slow = {}
  PROVE  Spec => []LeaseInv
<1>1. IInv /\ LeaseInv /\ [Next]_vars => LeaseInv'
  BY LeaseStep
<1> QED
  BY <1>1, LeaseInit, Invariance, PTL DEF Spec

\* The files and threads of every process keep their types, however many
\* processes and executions there are.
THEOREM ExecutionTypes == Spec => []TypeOK
<1>1. IInv => TypeOK
  BY DEF IInv
<1> QED
  BY <1>1, Invariance, PTL

\* Two executions never drive the run at the same time: not through crashes,
\* adoptions, lapsed leases or races of start requests in several processes.
THEOREM OneExecutionActive == Spec => []Lifecycle!OneActive
<1>1. IInv => Lifecycle!OneActive
  BY DEF IInv
<1> QED
  BY <1>1, Invariance, PTL

\* Every step of every thread is, on the status of the executions, a step of the
\* lifecycle or none: outcomes are final and accepted cancellations hold.
THEOREM ExecutionRefinement == Spec => ImplementsLifecycle
<1>1. Init => Lifecycle!Init
  BY InitHolds
<1>2. IInv /\ [Next]_vars => [Lifecycle!Next]_([e \in Execution |-> exec[e].status])
  BY Refines DEF StatusOf
<1> QED
  BY <1>1, <1>2, Invariance, PTL DEF Spec, ImplementsLifecycle, Lifecycle!Spec

\* The lifecycle's own theorems, about these executions.
OfLifecycle == INSTANCE ExecutionLifecycleProofs WITH st <- [e \in Execution |-> exec[e].status]

\* What a client has been told of a finished execution stays true, and a
\* cancellation that was accepted is not answered by success or failure: not by a
\* process that comes back late, an adoption or a second client.
THEOREM OutcomesStay == Spec => Lifecycle!OutcomesHold
<1>1. Lifecycle!Init => OfLifecycle!Init
  BY DEF Lifecycle!Init, OfLifecycle!Init
<1>2. [Lifecycle!Next]_([e \in Execution |-> exec[e].status])
        => [OfLifecycle!Next]_([e \in Execution |-> exec[e].status])
  BY DEF Lifecycle!Next, Lifecycle!Record, Lifecycle!Begin, Lifecycle!Adopt, Lifecycle!RequestCancel,
         Lifecycle!End, Lifecycle!Move, Lifecycle!Active, Lifecycle!Outcome,
         OfLifecycle!Next, OfLifecycle!Record, OfLifecycle!Begin, OfLifecycle!Adopt,
         OfLifecycle!RequestCancel, OfLifecycle!End, OfLifecycle!Move, OfLifecycle!Active,
         OfLifecycle!Outcome
<1>3. Lifecycle!Spec => OfLifecycle!Spec
  BY <1>1, <1>2, PTL DEF Lifecycle!Spec, OfLifecycle!Spec
<1>4. OfLifecycle!OutcomesHold => Lifecycle!OutcomesHold
  BY DEF OfLifecycle!OutcomesHold, Lifecycle!OutcomesHold, OfLifecycle!Outcome, Lifecycle!Outcome
<1> QED
  BY <1>3, <1>4, ExecutionRefinement, OfLifecycle!LifecycleOutcomesHold DEF ImplementsLifecycle

\* Only the owner of an execution, on the thread or the request that runs it, may
\* record that it succeeded or failed, and only while it holds the lease the
\* execution names: a process that was given up for dead cannot decide late,
\* however long it was silent.
THEOREM OutcomesAreFenced == Spec => OutcomeIsFenced
<1>1. IInv /\ [Next]_vars =>
        [\A e \in Execution : Told(e) => Fenced(e)]_vars
  BY StepFenced DEF IInv
<1>2. [\A e \in Execution : Told(e) => Fenced(e)]_vars =>
        [\A e \in Execution :
          (exec[e].status \in Active /\ exec'[e].status \in {"completed", "failed"}) =>
            LET s == exec[e].owner IN
            /\ exec[e].lease = 0 \/ Holds(s, e)
            /\ \/ worker[s][e].pc = "finalize" /\ worker'[s][e].pc # "finalize"
               \/ request[s].pc = "finalize" /\ request[s].exec = e]_vars
  BY DEF Told, Fenced
<1> QED
  BY <1>1, <1>2, Invariance, PTL DEF Spec, OutcomeIsFenced

\* While nobody outlasts a lease or a heartbeat, an execution that runs in a
\* living process holds the lease of the run, through any number of processes,
\* crashes, adoptions, cancellations and closings: no foreground scheduler and no
\* other execution gets in beside it.
THEOREM RunningKeepsLease ==
  ASSUME Slow = {}
  PROVE  Spec => []RunningHasLease
<1>1. LeaseInv => RunningHasLease
  BY DEF LeaseInv, ExecutionFits, RunningHasLease, Mine, Holds, Current
<1> QED
  BY <1>1, LeaseInvariance, PTL

\* While nobody outlasts a lease, one that nobody works under, renews or is about
\* to release was left by a process that died.
THEOREM LeasesAreNotForgotten ==
  ASSUME Slow = {}
  PROVE  Spec => []LeaseIsNotForgotten
<1>1. LeaseInv => LeaseIsNotForgotten
  <2> SUFFICES ASSUME LeaseInv, lease # NoLease, ~InUse
               PROVE  \/ sup[lease.owner] = "dead"
                      \/ /\ lease.exec # None
                         /\ exec[lease.exec].status = "cancelled"
                         /\ \E s \in Supervisor : sup[s] = "dead"
    BY DEF LeaseIsNotForgotten
  <2>1. lease.id # 0 /\ lease.owner \in Supervisor
    BY DEF LeaseInv, LeaseFits
  <2>2. \A s \in Supervisor : request[s].lease # lease.id
    BY DEF InUse
  <2>3. \A e \in Execution : exec[e].lease # lease.id
    BY <2>1 DEF InUse, LeaseInv, ExecutionFits
  <2>4. \A s \in Supervisor, e \in Execution : worker[s][e].lease # lease.id
    BY <2>1 DEF InUse, LeaseInv, WorkerFits
  <2> QED
    BY <2>1, <2>2, <2>3, <2>4, NothingTyped DEF LeaseInv, Kept
<1> QED
  BY <1>1, LeaseInvariance, PTL
=============================================================================
