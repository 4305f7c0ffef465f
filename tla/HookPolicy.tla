----------------------------- MODULE HookPolicy -----------------------------
(***************************************************************************)
(* Hook policy rules (hook_policy.py): managed rules of the deployment,    *)
(* local rules of the operators and rules that plugins install, all asked  *)
(* about every gated operation.  The text patterns of a rule are the set   *)
(* of subjects they match.                                                 *)
(***************************************************************************)
EXTENDS Approvals

CONSTANTS
    HookId,         \* ids of the rules in the collection
    HookRequest,    \* rules that an operator or a plugin may ask for
    ManagedHooks,   \* rules of the managed policy, by id
    HookEditor,     \* backend processes that edit rules
    Plugin

\* Rules are ranked by priority, then by time and id, for which the order in
\* which they were made, born, stands.
ASSUME ManagedHooksAreRanked ==
    /\ \A i \in DOMAIN ManagedHooks :
          /\ ManagedHooks[i].source = "managed"
          /\ ManagedHooks[i].rule.priority \in Nat /\ ManagedHooks[i].born \in Nat
    /\ \A i, j \in DOMAIN ManagedHooks :
          (/\ ManagedHooks[i].rule.priority = ManagedHooks[j].rule.priority
           /\ ManagedHooks[i].born = ManagedHooks[j].born) => i = j

VARIABLES
    hooks,      \* the collection hook-policy-rules
    hookEdit    \* hookEdit[p]: the copy that p has read to update it

hookVars == <<hooks, hookEdit>>

NoHook == [source |-> "none", born |-> 0]

\* A rule keeps the time it was created: here, how many were there before.
Rule(request, source, plugin, born) ==
    [rule |-> request, source |-> source, plugin |-> plugin,
     status |-> "active", born |-> born]

Saved == {i \in HookId : hooks[i] # NoHook}

Combined ==
    {<<i, ManagedHooks[i]>> : i \in DOMAIN ManagedHooks}
        \cup {<<i, hooks[i]>> : i \in Saved \ DOMAIN ManagedHooks}

\* Variant: only the priority counts.
RanksByPriority(hook, other) ==
    \/ hook.rule.priority < other.rule.priority
    \/ hook.rule.priority = other.rule.priority /\ hook.born < other.born

Ranks(hook, other) ==
    LET rank(r) == IF r.source = "managed" THEN 0 ELSE 1
    IN  \/ rank(hook) < rank(other)
        \/ /\ rank(hook) = rank(other)
           /\ \/ hook.rule.priority < other.rule.priority
              \/ hook.rule.priority = other.rule.priority /\ hook.born < other.born

Applies(hook, surface, action, subject, role) ==
    /\ hook.rule.enabled
    /\ hook.source = "plugin" => hook.status = "active"
    /\ hook.rule.surface = surface
    /\ hook.rule.action \in {"*", action}
    /\ hook.rule.roles # {} => role \in hook.rule.roles
    /\ subject \in hook.rule.subjects

\* A rule may only tighten the mode that it was asked about.
Tightened(mode, effect) ==
    IF effect = "blocked" THEN "blocked"
    ELSE IF effect = "approval" /\ mode = "safe" THEN "approval"
    ELSE mode

\* The first rule that applies decides, also when it only audits.
DecisionAmong(rules, surface, action, subject, role, mode) ==
    LET matching == {c \in rules : Applies(c[2], surface, action, subject, role)}
        first == CHOOSE c \in matching :
                    \A other \in matching \ {c} : Ranks(c[2], other[2])
    IN  IF matching = {} THEN [rule |-> None, mode |-> mode]
        ELSE [rule |-> first[1], mode |-> Tightened(mode, first[2].rule.effect)]

HookDecision(surface, action, subject, role, mode) ==
    DecisionAmong(Combined, surface, action, subject, role, mode)

\* A uuid is never the id of another rule.
CreateHook(i, request) ==
    /\ i \notin Saved \cup DOMAIN ManagedHooks
    /\ hooks' = [hooks EXCEPT ![i] = Rule(request, "local", None, Cardinality(Saved))]
    /\ UNCHANGED hookEdit

ReadHook(p, i) ==
    /\ hookEdit[p] = None
    /\ i \in Saved \ DOMAIN ManagedHooks
    /\ hooks[i].source # "plugin"
    /\ hookEdit' = [hookEdit EXCEPT ![p] = [id |-> i, copy |-> hooks[i]]]
    /\ UNCHANGED hooks

SaveHook(p, field, value) ==
    /\ hookEdit[p] # None
    /\ hooks' = [hooks EXCEPT ![hookEdit[p].id] = [hookEdit[p].copy EXCEPT !.rule[field] = value]]
    /\ hookEdit' = [hookEdit EXCEPT ![p] = None]

\* Reinstalling a rule of the same plugin keeps its place among the rules.
InstallRefused(i, plugin) ==
    \/ i \in DOMAIN ManagedHooks
    \/ i \in Saved /\ (hooks[i].source # "plugin" \/ hooks[i].plugin # plugin)

WithPluginHook(H, i, plugin, request) ==
    LET born == IF H[i] = NoHook THEN Cardinality({j \in HookId : H[j] # NoHook})
                ELSE H[i].born
    IN  [H EXCEPT ![i] = Rule(request, "plugin", plugin, born)]

WithoutPluginHooks(H, plugin) ==
    [i \in HookId |->
        IF H[i] # NoHook /\ H[i].source = "plugin" /\ H[i].plugin = plugin
        THEN [H[i] EXCEPT !.rule.enabled = FALSE, !.status = "disabled"] ELSE H[i]]

HookInit ==
    /\ hooks = [i \in HookId |-> NoHook]
    /\ hookEdit = [p \in HookEditor |-> None]

HookNext ==
    \/ \E i \in HookId, r \in HookRequest : CreateHook(i, r)
    \/ \E p \in HookEditor, i \in HookId : ReadHook(p, i)
    \/ \E p \in HookEditor, b \in BOOLEAN : SaveHook(p, "enabled", b)
=============================================================================
