------------------------------ MODULE ToolGate ------------------------------
(***************************************************************************)
(* Generated tools (tools/__init__.py, tools/registry_service.py,          *)
(* tool_runtime.py): how one is generated, approved, run and retired.      *)
(*                                                                         *)
(* A tool is in three places: its files, a manifest in the collection      *)
(* tools, and a row of the SQL registry; they are written one after the    *)
(* other.  One tool at a time is generated or run.  Meanwhile operators     *)
(* govern and register tools, commands that run may change the files, and  *)
(* the process may stop between any two steps.                             *)
(***************************************************************************)
EXTENDS NetworkGate

CONSTANTS
    Tool,
    Interface,          \* Interface[t]: tools with the same one are duplicates
    ToolRequest,        \* [tool, by, context, forced]
    Registered,         \* manifests that clients register as they are
    ToolId,             \* approvals
    ToolEnvironment,
    MaxVersion,         \* bound of the versions
    MaxToolRuns,        \* bound of the runs of one version
    WarnRuns,           \* RELIABILITY_POLICY_MIN_RUNS
    DeprecateRuns       \* RELIABILITY_DEPRECATE_MIN_RUNS

\* A tool can be disabled before it can be deprecated: 5 and 10 runs in the code.
ASSUME ToolAssumption ==
    /\ None \notin ToolId
    /\ WarnRuns \in Nat /\ DeprecateRuns \in Nat /\ MaxVersion \in Nat
    /\ WarnRuns < DeprecateRuns /\ 4 <= DeprecateRuns
    /\ \A r \in ToolRequest : r.tool \in Tool
    /\ Registered \subseteq
          [version : Nat, mode : Modes, status : {"active", "disabled", "deprecated"}, good : Nat, bad : Nat]

VARIABLES
    artifact,       \* artifact[t]: what the tool's directory holds
    manifest,       \* manifest[t]: the JSON manifest
    rows,           \* rows[t]: the SQL row
    toolApprovals,  \* the collection tool-approvals
    toolOp,         \* the request that is served
    toolActs,       \* history: how many runs an approval has started
    toolEdit,       \* the update of the governance that is under way
    reactivated     \* history: an operator has made this version active again,
                    \* or has registered a manifest of their own

toolVars == <<artifact, manifest, rows, toolApprovals, toolOp, toolActs, reactivated, toolEdit>>

NoToolOp == [pc |-> "idle", tool |-> None, id |-> None, network |-> None,
             request |-> None, read |-> None, retire |-> FALSE]

ToolIdle == toolOp.pc = "idle"

NewManifest(version, mode) ==
    [version |-> version, mode |-> mode, status |-> "active", good |-> 0, bad |-> 0]

Row(m) == [version |-> m.version, permission |-> m.mode, deprecated |-> FALSE]

\* _find_duplicate and check_duplicate
Duplicate(t) ==
    \E u \in Tool \ {t} : Interface[u] = Interface[t] /\ (manifest[u] # None \/ rows[u] # None)

\* A version that is there already is only replaced by a newer one.
GenerateTool(t, version, mode, overwrite) ==
    LET versions == {m.version : m \in {manifest[t], rows[t]} \ {None}}
    IN  /\ ToolIdle
        /\ mode # "blocked"
        /\ ~Duplicate(t)
        /\ versions # {} \/ artifact[t] # None => overwrite
        /\ \A v \in versions : version > v
        /\ toolOp' = [NoToolOp EXCEPT !.pc = "files", !.tool = t,
                                      !.read = NewManifest(version, mode)]
        /\ UNCHANGED <<artifact, manifest, rows, toolApprovals, toolActs, reactivated, toolEdit, networkVars>>

WriteToolFiles ==
    /\ toolOp.pc = "files"
    /\ artifact' = [artifact EXCEPT ![toolOp.tool] = [source |-> toolOp.read.version, edited |-> FALSE]]
    /\ toolOp' = [toolOp EXCEPT !.pc = "manifest"]
    /\ UNCHANGED <<manifest, rows, toolApprovals, toolActs, reactivated, toolEdit, networkVars>>

RegisterTool ==
    /\ toolOp.pc = "manifest"
    /\ manifest' = [manifest EXCEPT ![toolOp.tool] = toolOp.read]
    /\ reactivated' = [reactivated EXCEPT ![toolOp.tool] = FALSE]
    /\ toolOp' = [toolOp EXCEPT !.pc = "row"]
    /\ UNCHANGED <<artifact, rows, toolApprovals, toolActs, toolEdit, networkVars>>

\* A new row, or update_tool_registration of the old one.
RegisterRow ==
    /\ toolOp.pc = "row"
    /\ rows' = [rows EXCEPT ![toolOp.tool] = Row(toolOp.read)]
    /\ toolOp' = NoToolOp
    /\ UNCHANGED <<artifact, manifest, toolApprovals, toolActs, reactivated, toolEdit, networkVars>>

\* update_tool_governance reads the manifest and writes it back as a whole,
\* with any status; it never changes the row.
ReadGovernance(t, status) ==
    /\ toolEdit = None
    /\ manifest[t] # None
    /\ toolEdit' = [tool |-> t, status |-> status, read |-> manifest[t], handled |-> reactivated[t]]
    /\ UNCHANGED <<artifact, manifest, rows, toolApprovals, toolOp, toolActs, reactivated, networkVars>>

Reactivates(e) == e.handled \/ (e.status = "active" /\ e.read.status # "active")

GovernTool ==
    /\ toolEdit # None
    /\ manifest' = [manifest EXCEPT ![toolEdit.tool] = [toolEdit.read EXCEPT !.status = toolEdit.status]]
    /\ reactivated' = [reactivated EXCEPT ![toolEdit.tool] = @ \/ Reactivates(toolEdit)]
    /\ toolEdit' = None
    /\ UNCHANGED <<artifact, rows, toolApprovals, toolOp, toolActs, networkVars>>

\* The manifest of a client replaces whatever is there, its counts included.
CreateTool(t, m) ==
    /\ manifest' = [manifest EXCEPT ![t] = m]
    /\ reactivated' = [reactivated EXCEPT ![t] = TRUE]
    /\ UNCHANGED <<artifact, rows, toolApprovals, toolOp, toolActs, toolEdit, networkVars>>

\* The registry's own endpoint.
DeprecateRow(t) ==
    /\ rows[t] # None
    /\ rows' = [rows EXCEPT ![t].deprecated = TRUE]
    /\ UNCHANGED <<artifact, manifest, toolApprovals, toolOp, toolActs, reactivated, toolEdit, networkVars>>

EditTool(t) ==
    /\ artifact[t] # None
    /\ artifact' = [artifact EXCEPT ![t].edited = TRUE]
    /\ UNCHANGED <<manifest, rows, toolApprovals, toolOp, toolActs, reactivated, toolEdit, networkVars>>

\* _ensure_registry_allows_manifest
RowAllows(t) ==
    rows[t] # None => ~rows[t].deprecated /\ rows[t].permission = manifest[t].mode

\* Statuses and modes that never run, nor are queued for an approval.
Runnable(t) == manifest[t].mode # "blocked" /\ manifest[t].status = "active"

ToolRequested(r) ==
    /\ manifest[r.tool] # None
    /\ RowAllows(r.tool)
    /\ TaskVerdict(r.context).allowed
    /\ Runnable(r.tool)
    /\ artifact[r.tool] # None       \* _resolve_entrypoint

\* The counts of the manifest are not part of it.
ToolBinding(r) ==
    [request |-> r, version |-> manifest[r.tool].version, mode |-> manifest[r.tool].mode,
     status |-> manifest[r.tool].status, artifact |-> artifact[r.tool]]

RequestTool(id, r) ==
    /\ ToolIdle
    /\ toolApprovals[id].status = "absent"
    /\ ToolRequested(r)
    /\ manifest[r.tool].mode = "approval"
    /\ toolApprovals' = [toolApprovals EXCEPT ![id] = NewApproval(ToolBinding(r))]
    /\ UNCHANGED <<artifact, manifest, rows, toolOp, toolActs, reactivated, toolEdit, networkVars>>

ApproveTool(id) ==
    /\ ToolIdle
    /\ Approvable(toolApprovals[id])
    /\ toolApprovals' = [toolApprovals EXCEPT ![id] = Decided(@, "approved")]
    /\ UNCHANGED <<artifact, manifest, rows, toolOp, toolActs, reactivated, toolEdit, networkVars>>

DenyTool(id) ==
    /\ ToolIdle
    /\ Deniable(toolApprovals[id])
    /\ toolApprovals' = [toolApprovals EXCEPT ![id] = Decided(@, "denied")]
    /\ UNCHANGED <<artifact, manifest, rows, toolOp, toolActs, reactivated, toolEdit, networkVars>>

ToolExpires(id) ==
    /\ toolApprovals[id].status \in {"pending", "approved"}
    /\ ~toolApprovals[id].expired
    /\ toolApprovals' = [toolApprovals EXCEPT ![id].expired = TRUE]
    /\ UNCHANGED <<artifact, manifest, rows, toolOp, toolActs, reactivated, toolEdit, networkVars>>

\* execute_tool up to the claim of the approval, under a lock of the process.
ExecuteTool(r, id, network) ==
    /\ ToolIdle
    /\ ToolRequested(r)
    /\ \/ manifest[r.tool].mode = "safe" /\ id = None
       \/ /\ manifest[r.tool].mode = "approval"
          /\ \/ id # None /\ Claimable(toolApprovals[id], ToolBinding(r))
             \/ id = None /\ r.forced /\ ToolEnvironment = "development"
    /\ toolApprovals' = IF id = None THEN toolApprovals
                        ELSE [toolApprovals EXCEPT ![id] = Claimed(@)]
    /\ toolOp' = [NoToolOp EXCEPT !.pc = "network", !.tool = r.tool, !.id = id,
                                  !.network = network, !.request = r, !.read = manifest[r.tool]]
    /\ UNCHANGED <<artifact, manifest, rows, toolActs, reactivated, toolEdit, networkVars>>

\* A network approval of a tool names a socket: a port, and no path.
SocketOf(id) ==
    LET bound == networkApprovals[id].bound
    IN  [bound.request EXCEPT !.surface = "generated_tool", !.action = "socket_connect",
                              !.by = toolOp.request.by, !.context = toolOp.request.context]

SocketAllowed(id) ==
    /\ networkApprovals[id].status # "absent"
    /\ networkApprovals[id].bound.request.surface = "generated_tool"
    /\ networkApprovals[id].bound.request.action = "socket_connect"
    /\ NetworkValid(id, SocketOf(id))

\* The dependency paths are looked at first: the approval is spent by now.
ClaimToolNetwork ==
    /\ toolOp.pc = "network"
    /\ \/ /\ toolOp.network = None
          /\ toolOp' = [toolOp EXCEPT !.pc = "run"]
          /\ UNCHANGED networkApprovals
       \/ /\ toolOp.network # None
          /\ SocketAllowed(toolOp.network)
          /\ ClaimNetwork(toolOp.network, SocketOf(toolOp.network))
          /\ toolOp' = [toolOp EXCEPT !.pc = "run"]
       \/ /\ artifact[toolOp.tool].edited \/ (toolOp.network # None /\ ~SocketAllowed(toolOp.network))
          /\ toolOp' = NoToolOp
          /\ UNCHANGED networkApprovals
    /\ UNCHANGED <<artifact, manifest, rows, toolApprovals, toolActs, reactivated, toolEdit,
                   networkRules, networkEdit>>

Runs(m) == m.good + m.bad

\* Variant: off by one in the failures that disable a tool.
ReliabilityLenient(m) ==
    IF Runs(m) >= DeprecateRuns /\ 4 * m.good < Runs(m) THEN "deprecate"
    ELSE IF Runs(m) >= WarnRuns /\ m.bad > 3 /\ 5 * m.good < 3 * Runs(m) THEN "disable"
    ELSE "allow"

\* _reliability_policy_for: the score compared with 0.25, 0.6 and 0.8.
Reliability(m) ==
    IF Runs(m) >= DeprecateRuns /\ 4 * m.good < Runs(m) THEN "deprecate"
    ELSE IF Runs(m) < WarnRuns THEN "allow"
    ELSE IF m.bad >= 3 /\ 5 * m.good < 3 * Runs(m) THEN "disable"
    ELSE IF 5 * m.good < 4 * Runs(m) THEN "warn"
    ELSE "allow"

\* _reliability_governance_update
Governed(m) ==
    CASE Reliability(m) = "disable"   -> [m EXCEPT !.status = "disabled"]
      [] Reliability(m) = "deprecate" -> [m EXCEPT !.status = "deprecated"]
      [] OTHER                        -> m

\* The process ends well, badly or in time; or it cannot be started at all.
RunTool ==
    /\ toolOp.pc = "run"
    /\ Runs(toolOp.read) < MaxToolRuns
    /\ \/ /\ \E counted \in {[toolOp.read EXCEPT !.good = @ + 1], [toolOp.read EXCEPT !.bad = @ + 1]} :
                 toolOp' = [toolOp EXCEPT !.pc = "counts", !.read = Governed(counted),
                                          !.retire = Reliability(counted) = "deprecate"]
          /\ toolActs' = IF toolOp.id = None THEN toolActs
                         ELSE [toolActs EXCEPT ![toolOp.id] = @ + 1]
       \/ toolOp' = NoToolOp /\ UNCHANGED toolActs
    /\ UNCHANGED <<artifact, manifest, rows, toolApprovals, reactivated, toolEdit, networkVars>>

RecordCounts ==
    /\ toolOp.pc = "counts"
    /\ manifest' = [manifest EXCEPT ![toolOp.tool] = toolOp.read]
    /\ toolOp' = [toolOp EXCEPT !.pc = "usage"]
    /\ UNCHANGED <<artifact, rows, toolApprovals, toolActs, reactivated, toolEdit, networkVars>>

RecordUsage ==
    /\ toolOp.pc = "usage"
    /\ rows' = IF rows[toolOp.tool] # None /\ toolOp.retire
               THEN [rows EXCEPT ![toolOp.tool].deprecated = TRUE] ELSE rows
    /\ toolOp' = NoToolOp
    /\ UNCHANGED <<artifact, manifest, toolApprovals, toolActs, reactivated, toolEdit, networkVars>>

ToolCrash ==
    /\ ~ToolIdle \/ toolEdit # None
    /\ toolOp' = NoToolOp
    /\ toolEdit' = None
    /\ UNCHANGED <<artifact, manifest, rows, toolApprovals, toolActs, reactivated, networkVars>>

ToolInit ==
    /\ artifact = [t \in Tool |-> None]
    /\ manifest = [t \in Tool |-> None]
    /\ rows = [t \in Tool |-> None]
    /\ toolApprovals = [id \in ToolId |-> NoApproval]
    /\ toolOp = NoToolOp
    /\ toolActs = [id \in ToolId |-> 0]
    /\ toolEdit = None
    /\ reactivated = [t \in Tool |-> FALSE]

ToolNext ==
    \/ \E t \in Tool, version \in 1..MaxVersion, mode \in Modes, overwrite \in BOOLEAN :
           GenerateTool(t, version, mode, overwrite)
    \/ \E t \in Tool, status \in {"active", "disabled", "deprecated"} : ReadGovernance(t, status)
    \/ \E t \in Tool, m \in Registered : CreateTool(t, m)
    \/ \E t \in Tool : DeprecateRow(t) \/ EditTool(t)
    \/ \E id \in ToolId, r \in ToolRequest : RequestTool(id, r)
    \/ \E id \in ToolId : ApproveTool(id) \/ DenyTool(id) \/ ToolExpires(id)
    \/ \E r \in ToolRequest, id \in ToolId \cup {None}, network \in NetworkId \cup {None} :
           ExecuteTool(r, id, network)
    \/ GovernTool \/ WriteToolFiles \/ RegisterTool \/ RegisterRow
    \/ ClaimToolNetwork \/ RunTool \/ RecordCounts \/ RecordUsage \/ ToolCrash
=============================================================================
