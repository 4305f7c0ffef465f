-------------------------- MODULE TaskBoardProofs --------------------------
(* Every board, whatever its tasks and their dependencies, starts tasks in   *)
(* order and closes only when done.                                          *)
EXTENDS TaskBoard, TLAPS

\* The moves keep the board well typed (the statuses of TaskBoard, translated
\* from the statuses orchestration.py gives to tasks).
THEOREM BoardTyped == Spec => []TypeOK
<1>1. Init => TypeOK
  BY DEF Init, TypeOK, BoardStatus
<1>2. TypeOK /\ [Next]_vars => TypeOK'
  <2> SUFFICES ASSUME TypeOK, [Next]_vars PROVE TypeOK'
    OBVIOUS
  <2> USE DEF TypeOK, BoardStatus
  <2>1. ASSUME NEW S \in SUBSET Task, NEW from \in BoardStatus, NEW to \in BoardStatus,
               Move(S, from, to)
        PROVE TypeOK'
    BY <2>1 DEF Move
  <2>2. CASE Claim
    BY <2>2, <2>1 DEF Claim
  <2>3. CASE HandBack
    BY <2>3, <2>1 DEF HandBack
  <2>4. CASE Close
    BY <2>4 DEF Close
  <2>5. ASSUME NEW t \in Task, Finish(t) \/ Retry(t) \/ Block(t) \/ Unblock(t)
        PROVE TypeOK'
    <3>1. {t} \in SUBSET Task
      OBVIOUS
    <3> QED
      BY <2>5, <3>1, <2>1 DEF Finish, Retry, Block, Unblock
  <2>6. CASE UNCHANGED vars
    BY <2>6 DEF vars
  <2> QED
    BY <2>2, <2>3, <2>4, <2>5, <2>6 DEF Next
<1> QED
  BY <1>1, <1>2, PTL DEF Spec

\* No task is started before its dependencies are done, for any graph: a task
\* that is done stays done, so what was true when it was claimed remains true.
THEOREM BoardInOrder == ASSUME BoardAssumption PROVE Spec => []StartedInOrder
<1>1. Init => StartedInOrder
  BY DEF Init, StartedInOrder
<1>2. TypeOK /\ StartedInOrder /\ [Next]_vars => StartedInOrder'
  <2> SUFFICES ASSUME TypeOK, StartedInOrder, [Next]_vars,
                      NEW t \in Task, st'[t] \in {"running", "completed"},
                      NEW d \in Deps[t]
               PROVE st'[d] = "completed"
    BY DEF StartedInOrder
  <2>0. d \in Task
    BY DEF BoardAssumption
  <2>1. CASE Claim
    <3>1. PICK S \in SUBSET Task :
            /\ \A u \in S : \A e \in Deps[u] : st[e] = "completed"
            /\ Move(S, "pending", "running")
      BY <2>1 DEF Claim
    <3>2. st[d] = "completed"
      BY <3>1 DEF Move, StartedInOrder
    <3> QED
      BY <2>0, <3>1, <3>2 DEF Move
  <2>2. ASSUME NEW S \in SUBSET Task, NEW to \in {"pending", "completed", "blocked"},
               Move(S, "running", to) \/ (Move(S, "blocked", to) /\ to = "pending")
        PROVE st'[d] = "completed"
    <3>1. st[t] \in {"running", "completed"}
      BY <2>2 DEF Move
    <3>2. st[d] = "completed"
      BY <3>1 DEF StartedInOrder
    <3> QED
      BY <2>0, <2>2, <3>2 DEF Move
  <2>3. CASE HandBack
    BY <2>3, <2>2 DEF HandBack
  <2>4. CASE Close \/ UNCHANGED vars
    BY <2>4 DEF Close, vars, StartedInOrder
  <2>5. ASSUME NEW u \in Task, Finish(u) \/ Retry(u) \/ Block(u) \/ Unblock(u)
        PROVE st'[d] = "completed"
    <3>1. {u} \in SUBSET Task
      OBVIOUS
    <3> QED
      BY <2>5, <3>1, <2>2 DEF Finish, Retry, Block, Unblock
  <2> QED
    BY <2>1, <2>3, <2>4, <2>5 DEF Next
<1> QED
  BY <1>1, <1>2, BoardTyped, PTL DEF Spec

\* A closed board is done, and nothing moves on it any more.
THEOREM BoardClosedIsDone == Spec => []ClosedIsDone
<1>1. Init => ClosedIsDone
  BY DEF Init, ClosedIsDone
<1>2. ClosedIsDone /\ [Next]_vars => ClosedIsDone'
  BY DEF ClosedIsDone, Next, vars, Claim, HandBack, Finish, Retry, Block, Unblock, Move, Close
<1> QED
  BY <1>1, <1>2, PTL DEF Spec
=============================================================================
