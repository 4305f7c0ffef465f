-------------------------------- MODULE Gates --------------------------------
(***************************************************************************)
(* The gated operations together with what they share: hook rules that     *)
(* operators edit, tasks that end, and the network policy.  The gates have *)
(* no state in common besides, so that a behaviour uses one of them.       *)
(***************************************************************************)
EXTENDS FileGate, CommandGate, ProviderGate, ToolGate

CONSTANTS
    Gate,           \* the gates that are looked at
    Vocabulary      \* commands that scripts are made of

\* An id names an approval of one gate.
ASSUME GatesApart ==
    /\ FileId \cap CommandId = {} /\ FileId \cap ProviderId = {} /\ FileId \cap ToolId = {}
    /\ FileId \cap NetworkId = {} /\ CommandId \cap ProviderId = {} /\ CommandId \cap ToolId = {}
    /\ CommandId \cap NetworkId = {} /\ ProviderId \cap ToolId = {}
    /\ ProviderId \cap NetworkId = {} /\ ToolId \cap NetworkId = {}

VARIABLE gate       \* the one in use

gateVars == <<hookVars, taskVars, fileVars, commandVars, providerVars, toolVars, networkVars, gate>>

FileStep ==
    /\ gate = "files"
    /\ FileNext
    /\ UNCHANGED <<hookVars, taskVars, commandVars, providerVars, toolVars, networkVars, gate>>

\* One rule while commands are served; all of them while only the policy changes.
CommandStep ==
    /\ \/ gate = "commands" /\ CommandNext
          /\ \A i \in CommandRuleId \ {CHOOSE j \in CommandRuleId : TRUE} :
                 commandRules'[i] = commandRules[i]
       \/ gate = "policy" /\ EditCommandRules
    /\ UNCHANGED <<hookVars, taskVars, fileVars, providerVars, toolVars, networkVars, gate>>

OtherThanCalls == <<hookVars, taskVars, fileVars, commandVars, toolVars, gate>>

ProviderStep == gate = "calls" /\ ProviderNext /\ UNCHANGED OtherThanCalls

\* With "tools", they are approved and replaced by newer versions; with
\* "counts", operators govern and register tools that need no approval while
\* these run; with "sockets", tools that may reach the network run once.
ToolStep ==
    /\ gate \in {"tools", "counts", "sockets"}
    /\ ToolNext
    /\ gate # "sockets" => toolOp'.network = None
    /\ gate # "counts" => toolEdit' = None /\ \A t \in Tool : reactivated'[t] => reactivated[t]
    /\ gate = "counts" => \A t \in Tool :
           /\ manifest'[t] # None => manifest'[t].mode = "safe" /\ manifest'[t].version = 1
           /\ artifact'[t] # None => ~artifact'[t].edited
    /\ gate = "sockets" => \A t \in Tool :
           /\ manifest'[t] # None =>
                  Runs(manifest'[t]) <= 1 /\ manifest'[t].version = 1 /\ manifest'[t].status = "active"
           /\ rows'[t] # None => ~rows'[t].deprecated
    /\ UNCHANGED <<hookVars, taskVars, fileVars, commandVars, providerVars, gate>>

\* A rule may be made, but is not edited, while a gate is in use; only what
\* the gate can use is asked for.
NetworkStep ==
    /\ gate \in {"calls", "sockets", "domains"}
    /\ NetworkNext
    /\ IF gate = "domains" THEN networkApprovals' = networkApprovals
       ELSE /\ networkEdit' = networkEdit
            /\ \A id \in NetworkId : networkApprovals'[id] # NoApproval =>
                   (networkApprovals'[id].bound.request.surface = "provider" <=> gate = "calls")
    /\ UNCHANGED <<hookVars, taskVars, fileVars, commandVars, gate>>
    /\ UNCHANGED <<providerApprovals, credential, calls, circuits, providerActs>>
    /\ UNCHANGED <<artifact, manifest, rows, toolApprovals, toolOp, toolActs, reactivated, toolEdit>>

\* Another process edits a hook rule, which here is one for files, or a task
\* of a run ends.
WorldStep ==
    /\ \/ gate = "files" /\ HookNext /\ UNCHANGED taskVars
       \/ /\ gate \in {"files", "commands"}
          /\ \E t \in Task : TaskEnds(t)
          /\ UNCHANGED hookVars
    /\ UNCHANGED <<fileVars, commandVars, providerVars, toolVars, networkVars, gate>>

GatesInit ==
    /\ gate \in Gate
    /\ HookInit /\ TaskInit /\ NetworkInit
    /\ FileInit /\ CommandInit /\ ProviderInit /\ ToolInit
    /\ gate # "files" => \A x \in Place : files[x] = Gone
    /\ gate # "calls" => credential = CHOOSE c \in Credential : TRUE

GatesNext == FileStep \/ CommandStep \/ ProviderStep \/ ToolStep \/ NetworkStep \/ WorldStep

\* A call is bounded by its timeouts and, once it streams, by its provider,
\* which ends the answer or falls silent until the read times out.
GatesSpec ==
    /\ GatesInit /\ [][GatesNext]_gateVars
    /\ \A c \in Call : WF_gateVars(gate = "calls" /\ CallStep(c) /\ UNCHANGED OtherThanCalls)

Approval == FileId \cup CommandId \cup ProviderId \cup ToolId \cup NetworkId

Record(a) ==
    CASE a \in FileId     -> fileApprovals[a]
      [] a \in CommandId  -> commandApprovals[a]
      [] a \in ProviderId -> providerApprovals[a]
      [] a \in ToolId     -> toolApprovals[a]
      [] a \in NetworkId  -> networkApprovals[a]

\* Network approvals let nothing out by themselves.
ActsOn(a) ==
    CASE a \in FileId     -> fileActs[a]
      [] a \in CommandId  -> commandActs[a]
      [] a \in ProviderId -> providerActs[a]
      [] a \in ToolId     -> toolActs[a]
      [] a \in NetworkId  -> 0

Ledger == INSTANCE ApprovalLedger WITH
    status <- [a \in Approval |-> Record(a).status],
    acts   <- [a \in Approval |-> ActsOn(a)]

----------------------------------------------------------------------------
(* Every approval of every gate is answered once, used up by one operation
   and acted upon at most once, whatever the interleaving of the processes
   that serve requests and wherever one of them stops: the transactional
   claims of guardrails.py:736, network_policy.py:681 and
   provider_runtime.py:1755, and the claims under a lock of a single process
   of cli_runtime.py:2047 and tool_runtime.py:902. *)
ImplementsLedger == Ledger!LedgerSpec

UsedBy(a, request, decision) ==
    /\ a # None
    /\ Record(a).status = "executed"
    /\ Record(a).bound.request = request
    /\ Record(a).bound.decision = decision

(* In production what needs approval only goes ahead on a record that was
   bound to this very request and decision, that is used up, and that nothing
   else goes ahead on, although rules, tasks and files change between the
   decision and the act (guardrails.py:1099, cli_runtime.py:1571,
   provider_runtime.py:1641). *)
ActsAsApproved ==
    /\ Environment = "production" =>
         \A p \in FileProcess : LET o == fileOp[p] IN
            o.pc \in {"perform", "transfer"} /\ o.decision.mode = "approval" =>
                /\ UsedBy(o.id, o.request, o.decision)
                /\ \A q \in FileProcess \ {p} : fileOp[q].pc \in {"perform", "transfer"} => fileOp[q].id # o.id
    /\ CommandEnvironment = "production" =>
         (commandOp.pc \in {"launch", "record", "mark"} /\ commandOp.decision.mode = "approval" =>
              UsedBy(commandOp.id, commandOp.request, commandOp.decision))
    /\ ProviderEnvironment = "production" =>
         \A c \in Call : LET o == calls[c] IN
            o.pc \in {"network", "send", "streaming"} /\ External(o.request) =>
                /\ o.id # None
                /\ Record(o.id).status = "executed" /\ Record(o.id).bound.request = o.request
                /\ \A d \in Call \ {c} :
                       calls[d].pc \in {"network", "send", "streaming"} => calls[d].id # o.id

\* What was at x is at y, or in the directory that was at y.
Landed(x, y) == files'[y] = files[x] \/ (Directory(files, y) /\ files'[y].kind = "tree")

(* However a guarded file operation ends, at whichever of its calls it fails
   (guardrails.py:1158, 1225, 1319, 1378), and whatever others do to both
   places between its checks and its calls, it has only changed what it was
   told to: reading changes nothing, writing and deleting what they name,
   copying the target, and a move or rename loses its source only when that
   has reached the target as a whole.  The target itself is lost when the
   operation fails after clearing it, and only when it may overwrite it. *)
SourcesSurvive ==
    [][\A p \in FileProcess :
         LET o == fileOp[p]
             r == o.request
         IN  o.pc \in {"perform", "transfer"} /\ fileOp'[p] # o =>
                \A x \in Place : files'[x] # files[x] =>
                    \/ x = r.path /\ r.action \in {"write", "binary_write", "delete"}
                    \/ x = r.target /\ (o.pc = "perform" => r.overwrite)
                    \/ x = r.path /\ r.action \in {"move", "rename"} /\ o.pc = "transfer"
                                  /\ Landed(x, r.target)]_gateVars

\* The scripts of a few commands, with what they substitute.
Scripts ==
    {[segments |-> segments, subs |-> subs, redirect |-> redirect] :
        segments \in {<<c>> : c \in Vocabulary} \cup {<<c, d>> : c, d \in Vocabulary},
        subs \in {{}} \cup {{c} : c \in Vocabulary}, redirect \in BOOLEAN}

ASSUME VocabularyAssumption == Vocabulary \subseteq Command /\ None \notin Scripts

\* A shell that a rule of an operator calls safe: on its own, what is in it is
\* looked at first, but as part of another script the rule is believed.
Vouched(c, role) == c.kind = "shell" /\ Configured(c, role).mode = "safe"

(* A script is never decided more leniently than one of its commands would be
   on its own, whatever rules the operators have made by then, although the
   scan of a script as one text finds the first of its commands only
   (command_policy.py:1891).  The code makes two exceptions.  Scripts that
   mention the state files of the program are asked about before anything else
   (command_policy.py:843), also when a part is blocked.  And a shell within the script needs no approval
   where an operator's rule vouches for all of it (command_policy.py:953). *)
WrappingNeverWeakens ==
    gate = "policy" =>
        \A script \in Scripts, role \in {None} \cup {Assigned[t].role : t \in Task} :
            LET whole == Classified([kind |-> "shell", family |-> "bash", hardened |-> TRUE,
                                     script |-> script], role).mode
            IN  ~MentionsState(InScript(script)) =>
                    \A c \in Parts(script) : LET alone == Classified(c, role).mode IN
                        \/ Strength(whole) >= Strength(alone)
                        \/ alone = "approval" /\ Vouched(c, role)

(* The breaker only opens after as many failures as the settings ask for, with
   no success since, and a probe is only on its way when it is open
   (provider_runtime.py:1463-1512). *)
OpenNeedsFailures ==
    \A p \in Server :
        /\ circuits[p].open => circuits[p].failures >= Threshold
        /\ circuits[p].probe => circuits[p].open /\ circuits[p].cooled
                                /\ \E c \in Call : CallAt[c] = p /\ calls[c].probe

(* The latch of the half-open probe is always let go, whichever way the call
   that took it ends (provider_runtime.py:1489), so that an open circuit can be
   probed again. *)
ProbeIsReleased == \A p \in Server : circuits[p].probe ~> ~circuits[p].probe

(* One call at a time probes an endpoint whose circuit is open. *)
OneProbe ==
    \A c, d \in Call :
        c # d /\ CallAt[c] = CallAt[d] => ~(calls[c].probe /\ calls[d].probe)

(* The counts deprecate a tool only if an operator has made it active again or
   registered a manifest of their own: otherwise its failures have disabled it
   first (tool_runtime.py:1569), although operators govern tools while they
   run, and both write back as a whole what they have read before. *)
CountsDisableFirst ==
    [][\A t \in Tool :
         toolOp.pc = "counts" /\ toolOp.tool = t /\ toolOp'.pc = "usage"
           /\ manifest'[t].status = "deprecated" => reactivated[t]]_gateVars
=============================================================================
