------------------------------ MODULE MCGates ------------------------------
EXTENDS Gates

CONSTANTS agent, role, task, editor, server, server2, call1, call2, anna, bert, cred1, cred2,
          fileHook, managedHook, plugin, rule, rule2, managedRule, domainRule, host, otherHost,
          inPlace, inPlace2, outPlace, statePlace,
          fileId, commandId, providerId, toolId, networkId, tool, twin

Working == [agent |-> agent, role |-> role, task |-> task]

\* Tasks and hook rules.
MCAssigned == [t \in {task} |-> [agent |-> agent, role |-> role]]
MCWriteSet == [t \in {task} |-> {inPlace}]
HookOn(surface, subjects, effect, roles) ==
    [surface |-> surface, action |-> "*", subjects |-> subjects, effect |-> effect,
     roles |-> roles, enabled |-> TRUE, priority |-> 1]
MCHookRequest == {HookOn("filesystem", {inPlace}, "approval", {})}
MCManagedHooks ==
    [i \in {managedHook} |-> [rule |-> HookOn("command", {"release"}, "approval", {}),
                              source |-> "managed", plugin |-> None, status |-> "active", born |-> 0]]

\* Files.
FileOn(action, path, target, context) ==
    [action |-> action, path |-> path, target |-> target, overwrite |-> TRUE, forced |-> TRUE,
     recursive |-> FALSE, payload |-> "small", context |-> context]
MCFileRequest ==
    {FileOn("write", inPlace, None, Working),
     FileOn("move", inPlace2, inPlace, NoContext)}

\* Commands.
Word(exe) == [kind |-> "simple", exe |-> exe, outside |-> "none", state |-> FALSE, says |-> FALSE]
Bash(segments) ==
    [kind |-> "shell", family |-> "bash", hardened |-> TRUE,
     script |-> [segments |-> segments, subs |-> {}, redirect |-> FALSE]]
Sudo(c) == [kind |-> "prefix", of |-> c]
CommandOn(name, command, context) ==
    [name |-> name, command |-> command, context |-> context, cwdOutside |-> FALSE,
     environment |-> FALSE, secret |-> FALSE, forced |-> TRUE, by |-> anna]
MCCommandRequest ==
    {CommandOn("look", Word("reader"), NoContext), CommandOn("release", Word("changer"), Working),
     CommandOn("remove", Bash(<<Word("reader"), Word("banned")>>), NoContext)}
RuleOn(match, word, roles, mode) ==
    [match |-> match, word |-> word, roles |-> roles, mode |-> mode, enabled |-> TRUE, priority |-> 1]
MCCommandRuleRequest ==
    {RuleOn("executable", "changer", {}, "safe"), RuleOn("executable", "reader", {role}, "approval"),
     RuleOn("contains", "changer", {}, "blocked"), RuleOn("contains", "changer", {}, "safe")}
MCVocabulary ==
    {Word("reader"), Word("changer"), Word("git"), Word("banned"), Bash(<<Word("changer")>>), Bash(<<Word("changer"), Word("reader")>>),
     Sudo(Word("banned")), Bash(<<Word("reader"), Sudo(Word("banned"))>>)}
MCCommand == MCVocabulary \cup {r.command : r \in MCCommandRequest}
MCTextLength ==
    [c \in MCCommand |->
        CASE c.kind = "simple" -> 1 [] c.kind = "prefix" -> 2 [] c.kind = "shell" -> 1 + Len(c.script.segments)]
MCManagedCommandRules ==
    [i \in {managedRule} |-> [rule |-> [match |-> "contains", word |-> "gh", roles |-> {},
                                        mode |-> "blocked", enabled |-> TRUE, priority |-> 1],
                              source |-> "managed", plugin |-> None, status |-> "active", born |-> 0]]

\* The network.
Domain(hosts, wild, length) == [hosts |-> hosts, wild |-> wild, length |-> length]
DomainRule(hosts, mode) ==
    [domain |-> Domain(hosts, FALSE, 3), mode |-> mode, enabled |-> TRUE, priority |-> 1]
MCNetworkRuleRequest == {DomainRule({host}, "approval")}
MCManagedNetworkRules == [i \in {} |-> None]
MCConfiguredDomains == <<[hosts |-> {otherHost}, mode |-> "deny"]>>
Socket == [host |-> host, surface |-> "generated_tool", action |-> "socket_connect",
           by |-> anna, context |-> NoContext]

\* Provider calls.
CallOn(provider, stream) ==
    [provider |-> provider, host |-> host, ownUrl |-> FALSE, stream |-> stream, by |-> anna,
     context |-> NoContext, forced |-> FALSE]
MCProviderRequest == {CallOn("external", FALSE), CallOn("ollama", TRUE)}
MCStreams == {CallOn("ollama", TRUE)}
MCNetworkRequest == {NetworkOf(CallOn("external", FALSE)), Socket}
MCAllowedHosts == [provider \in {"external", "ollama"} |-> {host}]
MCCallAt == [c \in {call1, call2} |-> server]

\* Tools.
MCInterface == [t \in {tool, twin} |-> 1]
MCRegistered == {[version |-> 1, mode |-> "safe", status |-> "active", good |-> 0, bad |-> 3]}
MCToolRequest == {[tool |-> tool, by |-> anna, context |-> NoContext, forced |-> FALSE]}
=============================================================================
