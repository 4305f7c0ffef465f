---------------------------- MODULE TaskContext ----------------------------
(***************************************************************************)
(* How a gated operation that names an agent, a role and a task is checked *)
(* against the orchestration runs.  Of the runs, which RunStore models,    *)
(* only what is asked here is kept.                                        *)
(***************************************************************************)
EXTENDS Approvals

CONSTANTS
    Task,       \* tasks of all runs
    Assigned,   \* Assigned[t]: the agent and the role that t has been given to
    WriteSet    \* WriteSet[t]: the places that t declares it writes

VARIABLE tasks  \* tasks[t]: [agent, role, status, open], open: its run is not terminal

taskVars == <<tasks>>

NoContext == [agent |-> None, role |-> None, task |-> None]

Complete(c) == None \notin {c.agent, c.role, c.task}

Known(c) == {t \in Task : t = c.task \/ (c.agent # None /\ tasks[t].agent = c.agent)}

Active == {t \in Task : tasks[t].open /\ tasks[t].status = "running"}

Verdict(allowed, task) == [allowed |-> allowed, task |-> task]

\* Commands, tools, provider calls and network access.
TaskVerdict(c) ==
    LET relevant == Known(c) \cap Active
    IN  IF c = NoContext THEN Verdict(TRUE, None)
        ELSE IF relevant = {}
             \* A context nobody knows passes while no task runs at all.
             THEN Verdict(Known(c) = {} /\ Active = {}, None)
        ELSE IF ~Complete(c) THEN Verdict(FALSE, None)
        ELSE IF c.task \in relevant /\ tasks[c.task].agent = c.agent
             THEN Verdict(tasks[c.task].role = c.role, c.task)
        ELSE Verdict(FALSE, None)

ReadsOnly == {"read", "binary_read", "metadata", "list"}

\* Files: the context must be complete and its task running, and whatever
\* is written must be declared.
FileVerdict(c, action, written) ==
    IF c = NoContext THEN Verdict(TRUE, None)
    ELSE IF ~Complete(c) \/ ~(c.task \in Task /\ tasks[c.task].open
                                              /\ tasks[c.task].agent = c.agent)
         THEN Verdict(FALSE, None)
    ELSE Verdict(/\ tasks[c.task].status = "running"
                 /\ tasks[c.task].role = c.role
                 /\ action \notin ReadsOnly =>
                        WriteSet[c.task] # {} /\ written \subseteq WriteSet[c.task],
                 c.task)

TaskInit ==
    tasks = [t \in Task |-> [agent |-> Assigned[t].agent, role |-> Assigned[t].role,
                             status |-> "running", open |-> TRUE]]

\* The run goes on, or ends, while an operation of the task is on its way.
TaskEnds(t) ==
    /\ tasks[t].open
    /\ tasks[t].status = "running"
    /\ \E open \in BOOLEAN :
           tasks' = [tasks EXCEPT ![t].status = "completed", ![t].open = open]
=============================================================================
