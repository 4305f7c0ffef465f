--------------------------- MODULE CommandPolicy ---------------------------
(***************************************************************************)
(* How a command is classified (command_policy.py).  A command is the tree *)
(* that the parser makes of its text:                                      *)
(*   simple    an executable, with what its words give away;               *)
(*   shell     bash, cmd or powershell with an inner script, or without;   *)
(*   prefix    sudo, env, nohup ... in front of a command;                 *)
(*   flow      if, for, while ... around commands, each a text of its own; *)
(*   launch    start-process with its payload given as an option;          *)
(*   source    a script file under the root that is sourced.               *)
(* A script is a sequence of segments, which ; & | and line ends separate, *)
(* the commands it substitutes, and whether it redirects, behind its first *)
(* command.  The script of a shell is quoted and has more than one word.   *)
(***************************************************************************)
EXTENDS HookPolicy, TaskContext, Sequences, Functions

CONSTANTS
    Command,            \* commands, and those that stand inside others
    TextLength,         \* how many characters they have
    CommandRuleId,
    CommandRuleRequest, \* rules that operators ask for
    ManagedCommandRules \* rules of the managed policy, by id

\* What an operator may ask for, and edit later on.
CommandRuleFields ==
    [match : {"executable", "contains"}, word : {q.word : q \in CommandRuleRequest},
     roles : {q.roles : q \in CommandRuleRequest}, mode : Modes, enabled : BOOLEAN, priority : Nat]

LocalCommandRule ==
    [rule : CommandRuleFields, source : {"local"}, plugin : {None}, status : {"active"}, born : Nat]

\* Rules are ranked as hook rules are: by priority, then by the time they were
\* made and their id, for which born stands.
ASSUME CommandRulesAreRanked ==
    /\ CommandRuleRequest \subseteq CommandRuleFields
    /\ None \notin LocalCommandRule
    /\ \A i \in DOMAIN ManagedCommandRules :
          /\ ManagedCommandRules[i] # None /\ ManagedCommandRules[i].source = "managed"
          /\ ManagedCommandRules[i].rule.mode \in Modes
          /\ ManagedCommandRules[i].rule.priority \in Nat /\ ManagedCommandRules[i].born \in Nat
    /\ \A i, j \in DOMAIN ManagedCommandRules :
          (/\ ManagedCommandRules[i].rule.priority = ManagedCommandRules[j].rule.priority
           /\ ManagedCommandRules[i].born = ManagedCommandRules[j].born) => i = j

VARIABLE commandRules   \* the collection cli-command-policy-rules

ReadOnlyCommands == {"reader"}
BlockedCommands == {"banned"}
PathCommands == {"reader", "changer", "git", "gitRead"}    \* path arguments are looked at

Strength(mode) == CASE mode = "safe" -> 0 [] mode = "approval" -> 1 [] mode = "blocked" -> 2

Says(mode, why) == [mode |-> mode, why |-> why, rule |-> None]

Simple(c, exes) == c.kind = "simple" /\ c.exe \in exes

\* git that changes something, and gh: no rule makes these safe.
Strict(c) == Simple(c, {"git", "gh"})

\* A shell whose words name no command, or none that can be looked into.
Opaque(c) == c.script = None

\* What the words of a start-process say that it will launch.
Launched(c) == c.of

Segments(script) == Range(script.segments)

Substituted(script) == script.subs

Parts(script) == Segments(script) \cup Substituted(script)

Inside(c) ==    \* the commands that c is made of
    CASE c.kind = "shell" /\ ~Opaque(c) -> Parts(c.script)
      [] c.kind \in {"prefix", "launch"} -> {Launched(c)}
      [] c.kind = "flow"                 -> Range(c.body)
      [] OTHER                           -> {}

\* What stands inside a command is a command, of which it is a part.
ASSUME CommandsAreWhole ==
    /\ TextLength \in [Command -> Nat]
    /\ \A c \in Command :
          /\ c.kind \in {"simple", "shell", "prefix", "flow", "launch", "source"}
          /\ c.kind = "shell" /\ ~Opaque(c) => c.script.segments \in Seq(Command)
          /\ c.kind = "flow" => c.body \in Seq(Command) \ {<<>>}
          /\ \A d \in Inside(c) : d \in Command /\ TextLength[d] < TextLength[c]

Within[c \in Command] == {c} \cup UNION {Within[d] : d \in Inside(c)}

Below(c) == {c} \cup UNION {Within[d] : d \in Inside(c)}

InScript(script) == UNION {Within[c] : c \in Parts(script)}

\* A word leads to the data directory, however it is spelt.
TouchesState(c) == c.kind = "simple" /\ c.state

MentionsState(cs) == \E c \in cs : TouchesState(c)

\* The executable, or a path among the arguments, is not under the root.
OutsideExecutable(c) == c.kind = "simple" /\ c.outside = "executable"

OutsideArgument(c) == c.outside = "argument" /\ c.exe \in PathCommands

\* The words of a command that stand where a command is expected, in whichever
\* of its texts, and those among them that its first words lead to.
Positions[c \in Command] ==
    {c} \cup (IF c.kind \in {"prefix", "flow"} THEN UNION {Positions[d] : d \in Inside(c)} ELSE {})

Leading[c \in Command] ==
    {c} \cup CASE c.kind = "prefix" -> Leading[Launched(c)]
               [] c.kind = "flow"   -> Leading[Head(c.body)]
               [] OTHER             -> {}

\* Where a script is read as one text, a command is expected at its start and
\* never again behind a separator, and a substitution is a word.
Commands(script) == IF script.segments = <<>> THEN {} ELSE Leading[Head(script.segments)]

\* Where it is taken apart first, every part has a start.
Standing(script) == UNION {Positions[c] : c \in Parts(script)}

Plain(script) == script.subs = {} /\ Len(script.segments) = 1

\* Shells that all the words behind them belong to, so that these are a script.
Trailing[c \in Command] ==
    CASE c.kind = "shell"  -> {c}
      [] c.kind = "prefix" -> Trailing[Launched(c)]
      [] OTHER             -> {}

Trailed(script) == IF Plain(script) THEN Trailing[Head(script.segments)] ELSE {}

Banned(c) == Simple(c, BlockedCommands)

NestedBlocked[c \in Command] ==     \* a shell whose script begins with a blocked command
    /\ c.kind = "shell" /\ ~Opaque(c)
    /\ \/ \E d \in Commands(c.script) : Banned(d)
       \/ \E d \in Trailed(c.script) : NestedBlocked[d]

\* What start-process launches is looked into part by part.
PayloadBlocked[payload \in Command] ==
    LET looked == Positions[payload]
                    \cup IF payload.kind = "shell" /\ ~Opaque(payload) THEN Standing(payload.script) ELSE {}
    IN  \E c \in looked :
            Banned(c) \/ NestedBlocked[c] \/ (c.kind = "launch" /\ PayloadBlocked[Launched(c)])

\* cmd must be told not to run AutoRun, powershell not to load a profile.
Lax[c \in Command, depth \in 0..4] ==
    /\ c.kind = "shell"
    /\ \/ c.family = "cmd" /\ ~c.hardened
       \/ c.family = "powershell" /\ ~Opaque(c) /\ ~c.hardened
       \/ /\ c.family \in {"cmd", "powershell"} /\ ~Opaque(c)
          /\ depth = 4 \/ \E d \in Standing(c.script) : Lax[d, depth + 1]

Unhardened(script) == \E c \in Standing(script) : Lax[c, 0]

\* The words of a script, those that are arguments too.
Words[c \in Command] ==
    {c} \cup (IF c.kind = "shell" THEN {} ELSE UNION {Words[d] : d \in Inside(c)})

Structural(script) ==
    \/ script.redirect
    \/ \E c \in Commands(script) : c.kind = "source"

ApprovalToken(c) == c.kind \in {"prefix", "flow", "launch", "source"}

Rules(role) ==
    {r \in {ManagedCommandRules[i] : i \in DOMAIN ManagedCommandRules}
             \cup {commandRules[i] : i \in {j \in CommandRuleId \ DOMAIN ManagedCommandRules :
                                                commandRules[j] # NoHook}} :
        r.rule.enabled /\ (r.rule.roles # {} => role \in r.rule.roles)}

RuleMatches(rule, c) ==
    CASE rule.match = "executable" -> Simple(c, {rule.word})
      [] rule.match = "contains"   -> \E d \in Below(c) : Simple(d, {rule.word})

NoRule == Says("none", "none")

Configured(c, role) ==
    LET matching == {r \in Rules(role) : RuleMatches(r.rule, c)}
        first == CHOOSE r \in matching : \A other \in matching \ {r} : Ranks(r, other)
    IN  IF matching = {} THEN NoRule
        ELSE [mode |-> first.rule.mode, why |-> "rule", rule |-> first]

\* A payload that start-process launches: no rule of an operator is asked.
\* Here and below default is the verdict of _default_decision on what is inside.
Payload(c, default) ==
    LET d == default[c]
        nested == [segments |-> <<c>>, subs |-> {}, redirect |-> FALSE]
    IN  IF PayloadBlocked[c] \/ Unhardened(nested) THEN Says("blocked", "payload")
        ELSE Says(d.mode, "payload")

\* _decision_from_shell_script_tokens: the script as a whole.
Scan(script, default) ==
    LET cs == Commands(script)
        payloads == {Payload(Launched(c), default).mode : c \in {d \in cs : d.kind = "launch"}}
        blocked == \/ \E c \in cs : Banned(c) \/ OutsideExecutable(c)
                   \/ /\ \E c \in cs : c.kind = "flow"
                      /\ \E c \in UNION {Words[d] : d \in Segments(script)} :
                            Banned(c) \/ (c.kind = "simple" /\ c.says)
                   \/ \E c \in Trailed(script) : NestedBlocked[c]
                   \/ "blocked" \in payloads
    IN  IF blocked THEN Says("blocked", "scan")
        ELSE IF "approval" \in payloads THEN Says("approval", "payload")
        ELSE IF Structural(script) THEN Says("approval", "structural")
        ELSE IF \E c \in cs : c.kind = "shell" \/ (c.kind = "simple" /\ c.exe \notin ReadOnlyCommands)
             THEN Says("approval", "unlisted")
        ELSE IF \E c \in cs : ApprovalToken(c) THEN Says("approval", "token")
        ELSE Says("safe", "read only")

\* An operator's rule that says safe is heard only in a plain script.
RuleMayApply(script, scan) ==
    \/ scan.mode = "safe"
    \/ /\ scan.mode = "approval" /\ scan.why # "payload"
       /\ ~Structural(script)
       /\ \A c \in Commands(script) : ~ApprovalToken(c)

\* Variant: a rule that asks for an approval is not heard in a script.
AskedOfDefaults(c, script, scan, d, r) ==
    IF r # NoRule /\ Strict(c) THEN d
    ELSE IF r.mode = "safe" /\ RuleMayApply(script, scan) THEN r
    ELSE IF d.mode = "approval" THEN d
    ELSE NoRule

\* What one part of a script asks for: an approval, a rule's leave, nothing.
Asked(c, script, scan, d, r) ==
    IF r # NoRule /\ Strict(c) THEN d
    ELSE IF r.mode = "safe" /\ RuleMayApply(script, scan) THEN r
    ELSE IF r.mode = "approval" THEN r
    ELSE IF d.mode = "approval" THEN d
    ELSE NoRule

Asks(c, script, scan, role, default) == Asked(c, script, scan, default[c], Configured(c, role))

\* What is said of a script, of its parts as they come, and of it as a whole.
Judged(script, role, scan, approvals, leave, default) ==
    IF MentionsState(InScript(script)) THEN Says("approval", "state")
    ELSE IF scan.mode = "blocked" THEN scan
    ELSE IF Unhardened(script) THEN Says("blocked", "startup")
    ELSE IF script.segments = <<>> THEN Says("approval", "opaque shell")
    ELSE IF \E c \in Parts(script) :
                default[c].mode = "blocked" \/ Configured(c, role).mode = "blocked"
         THEN Says("blocked", "part")
    ELSE IF leave # {} /\ Plain(script) /\ ~Structural(script) THEN CHOOSE a \in leave : TRUE
    ELSE IF scan.mode = "safe" /\ Plain(script) /\ \A a \in approvals : a.rule = None THEN scan
    ELSE IF scan.mode = "approval" THEN scan
    ELSE IF approvals # {} THEN CHOOSE a \in approvals : TRUE
    ELSE IF ~Plain(script) THEN Says("approval", "compound")
    ELSE Says("safe", "read only")

Weighed(script, role, scan, asked, default) ==
    Judged(script, role, scan, {a \in asked : a.mode = "approval"}, {a \in asked : a.mode = "safe"},
           default)

Scanned(script, role, scan, default) ==
    Weighed(script, role, scan,
            {Asks(c, script, scan, role, default) : c \in Parts(script)} \ {NoRule}, default)

\* _decision_for_inner_shell_command
Inner(script, role, default) == Scanned(script, role, Scan(script, default), default)

\* _default_decision: before any rule of an operator.
DefaultGiven(c, role, default) ==
    CASE c.kind = "shell" ->
            IF Opaque(c) THEN Says("approval", "opaque shell") ELSE Inner(c.script, role, default)
      [] c.kind \notin {"shell", "simple"} ->
            Says("approval", IF MentionsState(Below(c)) THEN "state" ELSE "unlisted")
      [] c.kind = "simple" ->
            IF OutsideExecutable(c) \/ Banned(c) THEN Says("blocked", "executable")
            ELSE IF TouchesState(c) THEN Says("approval", "state")
            ELSE IF OutsideArgument(c) THEN Says("blocked", "argument")
            ELSE IF c.exe \in ReadOnlyCommands THEN Says("safe", "read only")
            ELSE Says("approval", "unlisted")

Default(c, role) ==
    LET default[d \in Command] == DefaultGiven(d, role, default)
    IN  DefaultGiven(c, role, default)

\* The default verdict d of c and what the rules say, r, put together.
Settled(c, d, r) ==
    IF d.mode = "blocked" THEN d
    ELSE IF c.kind # "shell" /\ d.why = "state" THEN d
    ELSE IF r.mode = "blocked" THEN r
    ELSE IF c.kind = "shell" /\ d.mode = "approval" THEN d
    ELSE IF Strict(c) \/ r = NoRule THEN d
    ELSE r

\* evaluate_command_policy, before the hook rules.
Classified(c, role) == Settled(c, Default(c, role), Configured(c, role))

Reviewed(d, hook) ==
    [mode |-> hook.mode, hook |-> hook.rule,
     rule |-> IF d.rule = None THEN None ELSE <<d.rule.source, d.rule.born>>]

Hooked(r, d) == Reviewed(d, HookDecision("command", "execute", r.name, r.context.role, d.mode))

\* The hook rules see the decision last; the orchestration context first.
CommandDecision(r) ==
    Hooked(r, IF ~TaskVerdict(r.context).allowed THEN Says("blocked", "context")
              ELSE IF r.cwdOutside THEN Says("blocked", "cwd")
              ELSE Classified(r.command, r.context.role))

CreateCommandRule(i, request) ==
    /\ commandRules[i] = NoHook
    /\ i \notin DOMAIN ManagedCommandRules
    /\ commandRules' = [commandRules EXCEPT ![i] = Rule(request, "local", None,
           Cardinality({j \in CommandRuleId : commandRules[j] # NoHook}))]

UpdateCommandRule(i, enabled) ==
    /\ i \notin DOMAIN ManagedCommandRules
    /\ commandRules[i] # NoHook
    /\ commandRules' = [commandRules EXCEPT ![i].rule.enabled = enabled]

CommandRulesInit == commandRules = [i \in CommandRuleId |-> NoHook]
=============================================================================
