----------------------------- MODULE NetworkGate -----------------------------
(***************************************************************************)
(* Network domain policy and network approvals (network_policy.py).        *)
(*                                                                         *)
(* A provider call, a generated tool or a web retrieval asks here whether  *)
(* it may reach a host; the first rule for the host decides and a hook     *)
(* rule may tighten it.  The approvals and rules are shared by several     *)
(* processes.  A domain is the set of hosts it matches, how long its name  *)
(* is, and whether it is a wildcard.                                       *)
(***************************************************************************)
EXTENDS HookPolicy, TaskContext

CONSTANTS
    NetworkRuleId,
    NetworkRuleRequest,     \* rules that operators ask for
    ManagedNetworkRules,    \* rules of the managed policy, by id
    ConfiguredDomains,      \* domains that the settings name, with their mode, in order
    DefaultMode,            \* the mode of a host that no rule names
    NetworkRequest,         \* what clients ask to reach: [host, surface, action, by, context]
    NetworkId,              \* approvals
    NetworkEditor           \* backend processes that edit rules

ASSUME NetworkIdAssumption == None \notin NetworkId

VARIABLES
    networkRules,       \* the collection network-policy-rules
    networkEdit,        \* networkEdit[p]: the copy that p has read to update it
    networkApprovals    \* the collection network-approvals

networkVars == <<networkRules, networkEdit, networkApprovals>>

SavedNetworkRules == {i \in NetworkRuleId : networkRules[i] # NoHook}

\* Among the saved rules: priority, exact before wildcard, long before short, age.
RuleRanks(r, other) ==
    LET key(s) == <<s.rule.priority, IF s.rule.domain.wild THEN 1 ELSE 0,
                    100 - s.rule.domain.length, s.born>>
    IN  \E k \in 1..4 : /\ key(r)[k] < key(other)[k]
                        /\ \A j \in 1..(k - 1) : key(r)[j] = key(other)[j]

\* network_domain_policy: what the deployment manages, what the settings
\* name, then what operators saved.  Only enabled rules are part of it.
NetworkPolicy ==
    [managed |-> {<<i, ManagedNetworkRules[i]>> :
                     i \in {j \in DOMAIN ManagedNetworkRules : ManagedNetworkRules[j].rule.enabled}},
     saved |-> {<<i, networkRules[i]>> :
                   i \in {j \in SavedNetworkRules : networkRules[j].rule.enabled}}]

FirstFor(host, rules) ==
    LET matching == {r \in rules : host \in r[2].rule.domain.hosts}
    IN  IF matching = {} THEN None
        ELSE CHOOSE r \in matching : \A other \in matching \ {r} : RuleRanks(r[2], other[2])

ConfiguredFor(host) ==
    LET matching == {k \in DOMAIN ConfiguredDomains : host \in ConfiguredDomains[k].hosts}
    IN  IF matching = {} THEN None
        ELSE ConfiguredDomains[CHOOSE k \in matching : \A j \in matching : k <= j]

\* deny, approval_required, and allow or audit, which lets pass and says so.
NetworkMode(mode) ==
    CASE mode = "deny" -> "blocked" [] mode = "approval" -> "approval" [] OTHER -> "safe"

NetworkDecision(r) ==
    LET managed == FirstFor(r.host, NetworkPolicy.managed)
        saved == FirstFor(r.host, NetworkPolicy.saved)
        ruled == CASE managed # None -> [rule |-> managed[1], mode |-> managed[2].rule.mode]
                   [] managed = None /\ ConfiguredFor(r.host) # None ->
                        [rule |-> "configured", mode |-> ConfiguredFor(r.host).mode]
                   [] managed = None /\ ConfiguredFor(r.host) = None /\ saved # None ->
                        [rule |-> saved[1], mode |-> saved[2].rule.mode]
                   [] OTHER -> [rule |-> None, mode |-> DefaultMode]
        hook == HookDecision("network", r.action, r.host, r.context.role, NetworkMode(ruled.mode))
    IN  [mode |-> hook.mode, rule |-> ruled.rule, hook |-> hook.rule]

\* The request, how it was decided, and by which revision of all the rules.
NetworkBinding(r) ==
    [request |-> r, decision |-> NetworkDecision(r), policy |-> NetworkPolicy]

RequestNetwork(id, r) ==
    /\ networkApprovals[id].status = "absent"
    /\ TaskVerdict(r.context).allowed
    /\ NetworkDecision(r).mode = "approval"
    /\ networkApprovals' = [networkApprovals EXCEPT ![id] = NewApproval(NetworkBinding(r))]
    /\ UNCHANGED <<networkRules, networkEdit>>

ApproveNetwork(id) ==
    /\ Approvable(networkApprovals[id])
    /\ networkApprovals' = [networkApprovals EXCEPT ![id] = Decided(@, "approved")]
    /\ UNCHANGED <<networkRules, networkEdit>>

DenyNetwork(id) ==
    /\ Deniable(networkApprovals[id])
    /\ networkApprovals' = [networkApprovals EXCEPT ![id] = Decided(@, "denied")]
    /\ UNCHANGED <<networkRules, networkEdit>>

NetworkExpires(id) ==
    /\ networkApprovals[id].status \in {"pending", "approved"}
    /\ ~networkApprovals[id].expired
    /\ networkApprovals' = [networkApprovals EXCEPT ![id].expired = TRUE]
    /\ UNCHANGED <<networkRules, networkEdit>>

\* validate_bound_network_approval
NetworkValid(id, r) ==
    /\ TaskVerdict(r.context).allowed
    /\ NetworkDecision(r).mode = "approval"
    /\ Claimable(networkApprovals[id], NetworkBinding(r))

\* claim_network_approval: the policy is asked again inside the update.
ClaimNetwork(id, r) ==
    /\ NetworkValid(id, r)
    /\ networkApprovals' = [networkApprovals EXCEPT ![id] = Claimed(@)]

CreateNetworkRule(i, request) ==
    /\ networkRules[i] = NoHook
    /\ i \notin DOMAIN ManagedNetworkRules
    /\ networkRules' = [networkRules EXCEPT
                           ![i] = Rule(request, "local", None, Cardinality(SavedNetworkRules))]
    /\ UNCHANGED <<networkEdit, networkApprovals>>

ReadNetworkRule(p, i) ==
    /\ networkEdit[p] = None
    /\ i \in SavedNetworkRules \ DOMAIN ManagedNetworkRules
    /\ networkEdit' = [networkEdit EXCEPT ![p] = [id |-> i, copy |-> networkRules[i]]]
    /\ UNCHANGED <<networkRules, networkApprovals>>

SaveNetworkRule(p, field, value) ==
    /\ networkEdit[p] # None
    /\ networkRules' = [networkRules EXCEPT
           ![networkEdit[p].id] = [networkEdit[p].copy EXCEPT !.rule[field] = value]]
    /\ networkEdit' = [networkEdit EXCEPT ![p] = None]
    /\ UNCHANGED networkApprovals

NetworkInit ==
    /\ networkRules = [i \in NetworkRuleId |-> NoHook]
    /\ networkEdit = [p \in NetworkEditor |-> None]
    /\ networkApprovals = [id \in NetworkId |-> NoApproval]

NetworkNext ==
    \/ \E id \in NetworkId, r \in NetworkRequest : RequestNetwork(id, r)
    \/ \E id \in NetworkId : ApproveNetwork(id) \/ DenyNetwork(id) \/ NetworkExpires(id)
    \/ \E i \in NetworkRuleId, request \in NetworkRuleRequest : CreateNetworkRule(i, request)
    \/ \E p \in NetworkEditor :
           \/ \E i \in NetworkRuleId : ReadNetworkRule(p, i)
           \/ \E enabled \in BOOLEAN : SaveNetworkRule(p, "enabled", enabled)
=============================================================================
