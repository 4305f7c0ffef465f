---------------------- MODULE ExecutionLifecycleProofs ----------------------
(* The promises of ExecutionLifecycle, for any set of executions.  Through   *)
(* ExecutionRefinement they hold of BackgroundExecution.                     *)
EXTENDS ExecutionLifecycle, TLAPS

LEMMA LifecycleInductive == TypeOK /\ OneActive /\ [Next]_st => TypeOK' /\ OneActive'
<1> SUFFICES ASSUME TypeOK, OneActive, [Next]_st PROVE TypeOK' /\ OneActive'
  OBVIOUS
<1>1. CASE UNCHANGED st
  BY <1>1 DEF TypeOK, OneActive
<1>2. ASSUME NEW e \in Execution, Record(e)
      PROVE  TypeOK' /\ OneActive'
  BY <1>2 DEF Record, Move, TypeOK, OneActive, Active, ExecutionStatus
<1>3. ASSUME NEW e \in Execution, Begin(e) \/ Adopt(e) \/ RequestCancel(e)
      PROVE  TypeOK' /\ OneActive'
  BY <1>3 DEF Begin, Adopt, RequestCancel, Move, TypeOK, OneActive, Active, ExecutionStatus
<1>4. ASSUME NEW e \in Execution, End(e)
      PROVE  TypeOK' /\ OneActive'
  BY <1>4 DEF End, Move, TypeOK, OneActive, Active, Outcome, ExecutionStatus
<1> QED
  BY <1>1, <1>2, <1>3, <1>4 DEF Next

\* At most one execution of the run is active.
THEOREM LifecycleOneActive == Spec => []OneActive
<1>1. Init => TypeOK /\ OneActive
  BY DEF Init, TypeOK, OneActive, Active, ExecutionStatus
<1> QED
  BY <1>1, LifecycleInductive, PTL DEF Spec

\* Outcomes are final, and a cancellation is never answered by success or failure.
THEOREM LifecycleOutcomesHold == Spec => OutcomesHold
<1>1. ASSUME TypeOK, [Next]_st, NEW e \in Execution
      PROVE  /\ st[e] \in Outcome => st'[e] = st[e]
             /\ st[e] = "cancelling" => st'[e] \in {"cancelling", "cancelled", "stale"}
  <2>1. CASE UNCHANGED st
    BY <2>1
  <2>2. ASSUME NEW x \in Execution, Record(x) \/ Begin(x) \/ Adopt(x) \/ RequestCancel(x)
        PROVE  /\ st[e] \in Outcome => st'[e] = st[e]
               /\ st[e] = "cancelling" => st'[e] \in {"cancelling", "cancelled", "stale"}
    BY <1>1, <2>2 DEF Record, Begin, Adopt, RequestCancel, Move, TypeOK, Outcome
  <2>3. ASSUME NEW x \in Execution, End(x)
        PROVE  /\ st[e] \in Outcome => st'[e] = st[e]
               /\ st[e] = "cancelling" => st'[e] \in {"cancelling", "cancelled", "stale"}
    BY <1>1, <2>3 DEF End, Move, TypeOK, Outcome, Active
  <2> QED
    BY <1>1, <2>1, <2>2, <2>3 DEF Next
<1>2. Init => TypeOK /\ OneActive
  BY DEF Init, TypeOK, OneActive, Active, ExecutionStatus
<1>3. TypeOK /\ [Next]_st =>
        [\A e \in Execution :
            /\ st[e] \in Outcome => st'[e] = st[e]
            /\ st[e] = "cancelling" => st'[e] \in {"cancelling", "cancelled", "stale"}]_st
  BY <1>1
<1> QED
  BY <1>2, <1>3, LifecycleInductive, PTL DEF Spec, OutcomesHold
=============================================================================
