------------------------------ MODULE Services ------------------------------
(***************************************************************************)
(* Three services beside the gates that share no state with each other:    *)
(* bearer tokens, plugins with the recipes and hook rules they install,    *)
(* and git workflows.  A behaviour uses one of them.                       *)
(***************************************************************************)
EXTENDS AuthTokens, Plugins, GitWorkflows

CONSTANT Service

VARIABLE service

serviceVars == <<authVars, pluginVars, gitVars, service>>

TokenStep ==
    /\ service = "tokens"
    /\ AuthNext
    /\ UNCHANGED <<pluginVars, gitVars, service>>

EditHooks == HookNext /\ UNCHANGED <<disk, trust, recipes, references, pluginOp>>

\* Recipes and hook rules are installed separately.
PluginStep ==
    /\ \/ service = "recipes" /\ PluginNext /\ UNCHANGED hookVars
       \/ service = "hooks" /\ (PluginNext \/ EditHooks) /\ UNCHANGED <<recipes, references>>
    /\ UNCHANGED <<authVars, gitVars, service>>

\* Developers leave the protected branches alone; the client asks for one thing
\* at a time, with a checkpoint that it can use and nothing left to stage.
GitStep ==
    /\ service = "git"
    /\ GitNext
    /\ \A b \in ProtectedBranch :
          /\ upstream'[b] = upstream[b]
          /\ gitOp' = gitOp => logs'[b] = logs[b] /\ remote'[b] = remote[b]
    /\ reviewed' # Unset =>
          Accepted(reviewed', reviewed') /\ gitApproval' = Unset /\ gitOp' = Unset
            /\ reviewed'.paths.edited = Unset
    /\ UNCHANGED <<authVars, pluginVars, service>>

ServicesInit ==
    /\ service \in Service
    /\ AuthInit /\ HookInit /\ PluginInit /\ GitInit

ServicesNext == TokenStep \/ PluginStep \/ GitStep

ServicesSpec == ServicesInit /\ [][ServicesNext]_serviceVars

----------------------------------------------------------------------------
Severity(mode) == CASE mode = "safe" -> 0 [] mode = "approval" -> 1 [] mode = "blocked" -> 2

Asked == {c[2].rule : c \in Combined}

(* Whatever rules operators make and plugins install, a decision is at least
   as strict as the rules of the managed policy alone make it: a rule that
   merely audits does not hide a managed one behind it (hook_policy.py:313). *)
ManagedNeverLoosened ==
    \A surface \in {r.surface : r \in Asked}, subject \in UNION {r.subjects : r \in Asked},
       role \in UNION {r.roles : r \in Asked} \cup {None}, mode \in Modes :
        Severity(HookDecision(surface, "any", subject, role, mode).mode) >=
            Severity(DecisionAmong({c \in Combined : c[2].source = "managed"},
                                   surface, "any", subject, role, mode).mode)

(* What a recipe of a plugin runs is what the file it came from says when it
   is checked, and its manifest lists that file, although the author edits the
   files, operators withdraw trust, and the recipe is disabled or installed
   again in between (plugins.py:800, command_recipes.py:535). *)
RecipesRunAsShipped ==
    [][\A w \in PluginWorker :
          pluginOp[w] # None /\ pluginOp[w].does = "compare"
            /\ pluginOp'[w] \notin {None, pluginOp[w]} =>
              LET r == pluginOp[w].recipe
                  file == disk[r.origin.plugin].holds[r.origin.path]
                  listed == r.origin.manifest["recipes"]
              IN  /\ r.template = file.template
                  /\ \E n \in DOMAIN listed : listed[n] = r.origin.path]_serviceVars

(* A git command acts on what the client has reviewed.  If nothing has moved
   since it was checked, a commit adds the reviewed change to the reviewed
   history, and a push publishes that history; where the diff or the head
   could not be read, the paths and the branch at least are the reviewed ones
   (git_workflows.py:1523).  If something has moved between the check and the
   command, which no lock prevents (git_workflows.py:730), a commit still
   only adds to local history, nothing that others have pushed is lost, and the
   runner changes no remote branch but the reviewed upstream, which is not
   protected (git_workflows.py:814, :1279). *)
ActsOnReviewed ==
    [][gitOp # Unset /\ gitOp' = Unset =>
          LET o == gitOp
              held == o.reviewed
          IN  /\ \A b \in Branch :
                    /\ logs'[b] # logs[b] => o.action = "commit" /\ b = branch
                    /\ remote'[b] # remote[b] =>
                          /\ o.action = "push"
                          /\ Common(remote[b], remote'[b]) = Len(remote[b])
                          /\ o.by = "runner" => b = held.upstream /\ b \notin ProtectedBranch
              /\ o.found = Actual /\ (logs' # logs \/ remote' # remote) =>
                    /\ branch = held.branch
                    /\ held.head # <<>> => logs[branch] = held.head
                    /\ logs' # logs =>
                          /\ Path(staged) = held.paths.staged
                          /\ held.staged # Unset => staged = held.staged
                          /\ logs' = [logs EXCEPT ![branch] = Append(@, staged)]
                    /\ remote' # remote => remote' = [remote EXCEPT ![held.upstream] = logs[branch]]]_serviceVars
=============================================================================
