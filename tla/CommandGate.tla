---------------------------- MODULE CommandGate ----------------------------
(***************************************************************************)
(* Commands that need approval (cli_runtime.py), from the request for one  *)
(* to the record of the run.  The approvals are read, checked and saved in *)
(* separate calls, and commands are for a single backend process: it       *)
(* serves one request of this gate at a time, and may stop between any two *)
(* steps, while rules are edited and background workers end tasks.         *)
(* What happens to a command that runs in the background is in CliRuns.    *)
(***************************************************************************)
EXTENDS CommandPolicy

CONSTANTS
    CommandRequest,     \* requests that clients make
    CommandId,          \* approvals
    CommandEnvironment, \* "production", or "development", where a flag will do
    Approver            \* clients that may execute what others asked for

ASSUME CommandIdAssumption == None \notin CommandId

ASSUME RequestsAreCommands == \A r \in CommandRequest : r.command \in Command

VARIABLES
    commandApprovals,   \* the collection cli-command-approvals
    commandRuns,        \* the runs on file that name an approval, with their status
    commandOp,          \* the request that is served
    commandActs         \* history: how many commands an approval has let run

commandVars == <<commandApprovals, commandRuns, commandOp, commandActs, commandRules>>

\* A record keeps the run that has used it.
CommandApproval(a, run) ==
    [status |-> a.status, expired |-> a.expired, bound |-> a.bound, run |-> run]

NoCommandOp == [pc |-> "idle", request |-> None, id |-> None, background |-> FALSE,
                decision |-> None, outcome |-> "none"]

\* command_approval_digest: the request, and how the policy decided it.
CommandBinding(r, decision) == [request |-> r, decision |-> decision]

RequestCommand(id, r) ==
    /\ commandOp.pc = "idle"
    /\ commandApprovals[id].status = "absent"
    /\ \E decision \in {CommandDecision(r)} :
           /\ decision.mode = "approval"
           /\ commandApprovals' = [commandApprovals EXCEPT
                  ![id] = CommandApproval(NewApproval(CommandBinding(r, decision)), "none")]
    /\ UNCHANGED <<commandRuns, commandOp, commandActs, commandRules>>

ApproveCommand(id) ==
    /\ commandOp.pc = "idle"
    /\ Approvable(commandApprovals[id])
    /\ commandApprovals' = [commandApprovals EXCEPT ![id] = Decided(@, "approved")]
    /\ UNCHANGED <<commandRuns, commandOp, commandActs, commandRules>>

DenyCommand(id) ==
    /\ commandOp.pc = "idle"
    /\ Deniable(commandApprovals[id])
    /\ commandApprovals' = [commandApprovals EXCEPT ![id] = Decided(@, "denied")]
    /\ UNCHANGED <<commandRuns, commandOp, commandActs, commandRules>>

CommandExpires(id) ==
    /\ commandApprovals[id].status \in {"pending", "approved"}
    /\ ~commandApprovals[id].expired
    /\ commandApprovals' = [commandApprovals EXCEPT ![id].expired = TRUE]
    /\ UNCHANGED <<commandRuns, commandOp, commandActs, commandRules>>

\* _authorize_approval_required_request: a claim, or the approved flag.
Authorized(r, id, decision) ==
    \/ id # None /\ Claimable(commandApprovals[id], CommandBinding(r, decision))
    \/ id = None /\ r.forced /\ CommandEnvironment = "development"

\* _prepare_request: the policy decides, on the rules and the task of the moment.
EvaluateCommand(r, id, background) ==
    /\ commandOp.pc = "idle"
    /\ \E decision \in {CommandDecision(r)} :
           /\ decision.mode # "blocked"
           /\ decision.mode = "safe" => id = None
           /\ commandOp' = [pc |-> "authorize", request |-> r, id |-> id,
                            background |-> background, decision |-> decision, outcome |-> "none"]
    /\ UNCHANGED <<commandApprovals, commandRuns, commandActs, commandRules>>

ExecuteCommand(r, id, background) == EvaluateCommand(r, id, background)

\* The request is made again from the record, which must not have lost the
\* secrets of its text nor need an environment it does not keep.
ExecuteApproved(id, actor) ==
    LET r == commandApprovals[id].bound.request
    IN  /\ commandApprovals[id].status = "approved"
        /\ ~commandApprovals[id].expired
        /\ actor = r.by \/ actor \in Approver
        /\ ~r.secret /\ ~r.environment
        /\ EvaluateCommand(r, id, FALSE)

\* The claim is made on the record of the moment, under a lock of the process.
AuthorizeCommand ==
    /\ commandOp.pc = "authorize"
    /\ IF commandOp.decision.mode = "safe" \/ Authorized(commandOp.request, commandOp.id, commandOp.decision)
       THEN /\ commandOp' = [commandOp EXCEPT
                   !.pc = IF commandOp.background THEN "record" ELSE "launch",
                   !.outcome = IF commandOp.background THEN "starting" ELSE "none"]
            /\ commandApprovals' = IF commandOp.id = None THEN commandApprovals
                                   ELSE [commandApprovals EXCEPT ![commandOp.id] = Claimed(@)]
       ELSE commandOp' = NoCommandOp /\ UNCHANGED commandApprovals
    /\ UNCHANGED <<commandRuns, commandActs, commandRules>>

\* subprocess.run returns, times out, or cannot launch the command at all.
LaunchCommand ==
    /\ commandOp.pc = "launch"
    /\ \E outcome \in {"completed", "timed_out", "failed"} :
           /\ commandOp' = IF commandOp.background THEN NoCommandOp
                           ELSE [commandOp EXCEPT !.pc = "record", !.outcome = outcome]
           /\ commandActs' = IF commandOp.id = None \/ outcome = "failed" THEN commandActs
                             ELSE [commandActs EXCEPT ![commandOp.id] = @ + 1]
    /\ UNCHANGED <<commandApprovals, commandRuns, commandRules>>

RecordRun ==
    /\ commandOp.pc = "record"
    /\ commandRuns' = commandRuns \cup {<<commandOp.id, commandOp.outcome>>}
    /\ commandOp' = IF commandOp.id # None THEN [commandOp EXCEPT !.pc = "mark"]
                    ELSE IF commandOp.background THEN [commandOp EXCEPT !.pc = "launch"]
                    ELSE NoCommandOp
    /\ UNCHANGED <<commandApprovals, commandActs, commandRules>>

MarkExecuted ==
    /\ commandOp.pc = "mark"
    /\ commandApprovals' =
           IF commandApprovals[commandOp.id].run # "none" THEN commandApprovals
           ELSE [commandApprovals EXCEPT ![commandOp.id] =
                     [Claimed(@) EXCEPT !.run = commandOp.outcome]]
    /\ commandOp' = IF commandOp.background THEN [commandOp EXCEPT !.pc = "launch"] ELSE NoCommandOp
    /\ UNCHANGED <<commandRuns, commandActs, commandRules>>

CommandCrash ==
    /\ commandOp.pc # "idle"
    /\ commandOp' = NoCommandOp
    /\ UNCHANGED <<commandApprovals, commandRuns, commandActs, commandRules>>

EditCommandRules ==
    /\ \E i \in CommandRuleId :
           \/ \E request \in CommandRuleRequest : CreateCommandRule(i, request)
           \/ \E enabled \in BOOLEAN : UpdateCommandRule(i, enabled)
    /\ UNCHANGED <<commandApprovals, commandRuns, commandOp, commandActs>>

CommandInit ==
    /\ commandApprovals = [id \in CommandId |-> CommandApproval(NoApproval, "none")]
    /\ commandRuns = {}
    /\ commandOp = NoCommandOp
    /\ commandActs = [id \in CommandId |-> 0]
    /\ CommandRulesInit

CommandNext ==
    \/ \E id \in CommandId, r \in CommandRequest : RequestCommand(id, r)
    \/ \E id \in CommandId : ApproveCommand(id) \/ DenyCommand(id) \/ CommandExpires(id)
    \/ \E r \in CommandRequest, id \in CommandId \cup {None}, background \in BOOLEAN :
           ExecuteCommand(r, id, background)
    \/ \E id \in CommandId, actor \in Approver \cup {r.by : r \in CommandRequest} :
           ExecuteApproved(id, actor)
    \/ AuthorizeCommand \/ LaunchCommand \/ RecordRun \/ MarkExecuted \/ CommandCrash \/ EditCommandRules
=============================================================================
