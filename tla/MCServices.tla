----------------------------- MODULE MCServices -----------------------------
EXTENDS Services

CONSTANTS anna, team, token1, token2, server, server2, editor, plugin, role,
          localHook, pluginHook, managedHook, recipe, recipeFile, hookFile, docFile,
          main, topic, fix, key

\* Operators and tokens.
MCOperatorGrant == {[capabilities |-> {}, groups |-> {team}], [capabilities |-> {"admin"}, groups |-> {}]}

\* Hook rules.
HookOn(subjects, effect, roles, priority) ==
    [surface |-> "tool", action |-> "*", subjects |-> subjects, effect |-> effect,
     roles |-> roles, enabled |-> TRUE, priority |-> priority]
Audit == HookOn({"build", "release"}, "audit", {}, 1)
MCHookRequest == {HookOn({"build"}, "blocked", {role}, 2)}
MCManagedHooks ==
    [i \in {managedHook} |-> [rule |-> HookOn({"release"}, "approval", {}, 3), source |-> "managed",
                              plugin |-> None, status |-> "active", born |-> 0]]

\* A plugin.
Brings(recipePaths, hookPaths) ==
    [kind \in {"recipes", "hooks", "references"} |->
        CASE kind = "recipes" -> recipePaths [] kind = "hooks" -> hookPaths [] OTHER -> <<docFile>>]
MCManifest == {Brings(<<recipeFile>>, <<hookFile>>), Brings(<<>>, <<hookFile, hookFile>>)}
Runs(template, enabled) == [id |-> recipe, template |-> template, enabled |-> enabled]
MCContents ==
    [path \in {recipeFile, hookFile, docFile} |->
        CASE path = recipeFile -> {Runs("build", TRUE), Runs("test", TRUE), Runs("test", FALSE), None}
          [] path = hookFile   -> {Audit}
          [] path = docFile    -> {Runs("text", TRUE)}]
MCHookIdOf == [p \in {plugin} |-> [path \in {recipeFile, hookFile, docFile} |-> pluginHook]]
MCManagedTrust == [p \in {} |-> None]

\* Changes of one file.
MCPathOf == [change \in {fix, key} |-> "program.py"]
=============================================================================
