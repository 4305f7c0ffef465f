------------------------------ MODULE Plugins ------------------------------
(***************************************************************************)
(* Plugins and what they bring (plugins.py, command_recipes.py): command   *)
(* recipes, hook rules and reference components, installed from files that *)
(* their author may change at any time, under a trust decision about one   *)
(* manifest.  The digest of a file is its content.                         *)
(***************************************************************************)
EXTENDS HookPolicy, Sequences

CONSTANTS
    PluginPath,
    Manifest,           \* manifests a plugin has had: kind -> sequence of paths
    Contents,           \* Contents[path]: what the file has held, None when it cannot be read
    HookIdOf,           \* HookIdOf[plugin][path]: the id of the rule in that file
    ManagedTrust,       \* trust records of the managed policy, by plugin
    ManagedReferences,  \* plugins with managed reference components
    RecipeId,
    Template,           \* what local recipes run
    ManagedRecipe,      \* ids of managed recipes
    PluginWorker        \* backend processes

ASSUME PluginFilesAssumption ==
    /\ Manifest # {}
    /\ Manifest \subseteq [{"recipes", "hooks", "references"} -> Seq(PluginPath)]
    /\ \A path \in PluginPath : Contents[path] # {}

VARIABLES
    disk,           \* disk[plugin]: its manifest and its files
    trust,          \* the collection of trust records
    recipes,        \* the collection command-recipes
    references,     \* the collection of reference components
    pluginOp        \* pluginOp[w]: the request that w is handling

pluginVars == <<hookVars, disk, trust, recipes, references, pluginOp>>

Idle(w) == pluginOp[w] = None
Become(w, op) == pluginOp' = [pluginOp EXCEPT ![w] = op]

TrustRecord(plugin) ==
    IF plugin \in DOMAIN ManagedTrust THEN ManagedTrust[plugin] ELSE trust[plugin]

TrustedAt(plugin, manifest) ==
    TrustRecord(plugin) = [manifest |-> manifest, status |-> "trusted"]

EditManifest(plugin, m) ==
    /\ disk' = [disk EXCEPT ![plugin].manifest = m]
    /\ UNCHANGED <<hookVars, trust, recipes, references, pluginOp>>

EditComponent(plugin, path, content) ==
    /\ disk' = [disk EXCEPT ![plugin].holds[path] = content]
    /\ UNCHANGED <<hookVars, trust, recipes, references, pluginOp>>

\* A decision is about the manifest of that moment.
DecideTrust(plugin, status) ==
    /\ plugin \notin DOMAIN ManagedTrust
    /\ trust' = [trust EXCEPT ![plugin] = [manifest |-> disk[plugin].manifest, status |-> status]]
    /\ UNCHANGED <<hookVars, disk, recipes, references, pluginOp>>

----------------------------------------------------------------------------
(* Installing the components of one kind. *)

StartInstall(w, plugin, kind) ==
    /\ Idle(w)
    /\ kind = "references" => plugin \notin ManagedReferences
    /\ TrustedAt(plugin, disk[plugin].manifest)
    /\ Become(w, [does |-> "load", kind |-> kind, plugin |-> plugin, manifest |-> disk[plugin].manifest])
    /\ UNCHANGED <<hookVars, disk, trust, recipes, references>>

\* The files are read after the trust in the manifest was looked at; two
\* recipes of one id, or a file listed twice, are refused.
LoadComponents(w) ==
    LET o == pluginOp[w]
        paths == o.manifest[o.kind]
        loaded == [n \in DOMAIN paths |->
                      [path |-> paths[n], content |-> disk[o.plugin].holds[paths[n]]]]
        unreadable == \E n \in DOMAIN paths : loaded[n].content = None
        twice == \E m, n \in DOMAIN paths :
                     /\ m # n
                     /\ IF o.kind = "recipes" THEN loaded[m].content.id = loaded[n].content.id
                        ELSE paths[m] = paths[n]
    IN  /\ ~Idle(w) /\ o.does = "load"
        /\ Become(w, IF unreadable \/ twice THEN None
                     ELSE [does |-> "install", kind |-> o.kind, plugin |-> o.plugin,
                           manifest |-> o.manifest, todo |-> loaded])
        /\ UNCHANGED <<hookVars, disk, trust, recipes, references>>

\* Variant: a recipe that is installed again keeps what it ran.
WithRecipeKept(R, recipe, origin) ==
    [R EXCEPT ![recipe.id] =
        [source |-> "plugin", origin |-> origin, status |-> "active", enabled |-> recipe.enabled,
         template |-> IF @ = None THEN recipe.template ELSE @.template]]

WithRecipe(R, recipe, origin) ==
    [R EXCEPT ![recipe.id] =
        [source |-> "plugin", origin |-> origin, status |-> "active", enabled |-> recipe.enabled,
         template |-> recipe.template]]

Origin(o, part) ==
    [plugin |-> o.plugin, manifest |-> o.manifest, path |-> part.path, content |-> part.content]

RecipeRefused(i, plugin) ==
    \/ i \in ManagedRecipe
    \/ recipes[i] # None /\ (recipes[i].source # "plugin" \/ recipes[i].origin.plugin # plugin)

\* Each recipe is a transaction of its own: one that is refused ends the
\* request, and those before it stay.
InstallRecipe(w) ==
    LET o == pluginOp[w] IN
    /\ ~Idle(w) /\ o.does = "install" /\ o.kind = "recipes" /\ o.todo # <<>>
    /\ \E part \in {Head(o.todo)} :
          IF RecipeRefused(part.content.id, o.plugin)
          THEN recipes' = recipes /\ Become(w, None)
          ELSE /\ recipes' = WithRecipe(recipes, part.content, Origin(o, part))
               /\ Become(w, [o EXCEPT !.todo = Tail(@)])
    /\ UNCHANGED <<hookVars, disk, trust, references>>

InstallHook(w) ==
    LET o == pluginOp[w] IN
    /\ ~Idle(w) /\ o.does = "install" /\ o.kind = "hooks" /\ o.todo # <<>>
    /\ \E part \in {Head(o.todo)} : \E i \in {HookIdOf[o.plugin][part.path]} :
          IF InstallRefused(i, o.plugin)
          THEN hooks' = hooks /\ Become(w, None)
          ELSE /\ hooks' = WithPluginHook(hooks, i, o.plugin, part.content)
               /\ Become(w, [o EXCEPT !.todo = Tail(@)])
    /\ UNCHANGED <<hookEdit, disk, trust, recipes, references>>

\* Reference components are stored in one transaction.
InstallReferences(w) ==
    LET o == pluginOp[w] IN
    /\ ~Idle(w) /\ o.does = "install" /\ o.kind = "references"
    /\ references' = [references EXCEPT ![o.plugin] =
            [path \in PluginPath |->
                IF \E n \in DOMAIN o.todo : o.todo[n].path = path
                THEN [manifest |-> o.manifest, status |-> "installed",
                      content |-> (CHOOSE part \in {o.todo[n] : n \in DOMAIN o.todo} :
                                      part.path = path).content]
                ELSE @[path]]]
    /\ Become(w, None)
    /\ UNCHANGED <<hookVars, disk, trust, recipes>>

EndInstall(w) ==
    /\ ~Idle(w) /\ pluginOp[w].does = "install" /\ pluginOp[w].todo = <<>>
    /\ pluginOp[w].kind # "references"
    /\ Become(w, None)
    /\ UNCHANGED <<hookVars, disk, trust, recipes, references>>

DisableHooks(plugin) ==
    /\ hooks' = WithoutPluginHooks(hooks, plugin)
    /\ UNCHANGED <<hookEdit, disk, trust, recipes, references, pluginOp>>

DisableRecipes(plugin) ==
    /\ recipes' = [i \in RecipeId |->
            IF recipes[i] # None /\ recipes[i].source = "plugin" /\ recipes[i].origin.plugin = plugin
            THEN [recipes[i] EXCEPT !.status = "disabled"] ELSE recipes[i]]
    /\ UNCHANGED <<hookVars, disk, trust, references, pluginOp>>

DisableReferences(plugin) ==
    /\ plugin \notin ManagedReferences
    /\ references' = [references EXCEPT ![plugin] =
            [path \in PluginPath |->
                IF @[path] = None THEN None ELSE [@[path] EXCEPT !.status = "disabled"]]]
    /\ UNCHANGED <<hookVars, disk, trust, recipes, pluginOp>>

----------------------------------------------------------------------------
(* Recipes: made and changed by operators, run by requests. *)

LocalRecipe(template, enabled) ==
    [source |-> "local", origin |-> None, status |-> "active", enabled |-> enabled,
     template |-> template]

CreateRecipe(i, template, enabled) ==
    /\ recipes[i] = None /\ i \notin ManagedRecipe
    /\ recipes' = [recipes EXCEPT ![i] = LocalRecipe(template, enabled)]
    /\ UNCHANGED <<hookVars, disk, trust, references, pluginOp>>

UpdateRecipe(i, template, enabled) ==
    /\ recipes[i] # None /\ recipes[i].source = "local"
    /\ recipes' = [recipes EXCEPT ![i] = LocalRecipe(template, enabled)]
    /\ UNCHANGED <<hookVars, disk, trust, references, pluginOp>>

ReadRecipe(w, i) ==
    /\ Idle(w)
    /\ recipes[i] # None /\ recipes[i].enabled /\ recipes[i].status = "active"
    /\ Become(w, [does |-> IF recipes[i].source = "plugin" THEN "check" ELSE "run",
                  recipe |-> recipes[i]])
    /\ UNCHANGED <<hookVars, disk, trust, recipes, references>>

\* The manifest it was installed with must be the one that is there and trusted.
CheckTrust(w) ==
    LET o == pluginOp[w] IN
    /\ ~Idle(w) /\ o.does = "check"
    /\ \E origin \in {o.recipe.origin} :
          Become(w, IF /\ disk[origin.plugin].manifest = origin.manifest
                       /\ TrustedAt(origin.plugin, origin.manifest)
                    THEN [o EXCEPT !.does = "compare"] ELSE None)
    /\ UNCHANGED <<hookVars, disk, trust, recipes, references>>

\* The file it was installed from must be as it was.
CompareComponent(w) ==
    LET o == pluginOp[w] IN
    /\ ~Idle(w) /\ o.does = "compare"
    /\ \E origin \in {o.recipe.origin} :
          Become(w, IF disk[origin.plugin].holds[origin.path] = origin.content
                    THEN [o EXCEPT !.does = "run"] ELSE None)
    /\ UNCHANGED <<hookVars, disk, trust, recipes, references>>

\* The command goes to the command gate, and its use is counted.
RunRecipe(w) ==
    /\ ~Idle(w) /\ pluginOp[w].does = "run"
    /\ Become(w, None)
    /\ UNCHANGED <<hookVars, disk, trust, recipes, references>>

PluginInit ==
    /\ disk = [plugin \in Plugin |->
                  [manifest |-> CHOOSE m \in Manifest : TRUE,
                   holds |-> [path \in PluginPath |-> CHOOSE content \in Contents[path] : TRUE]]]
    /\ trust = [plugin \in Plugin |-> None]
    /\ recipes = [i \in RecipeId |-> None]
    /\ references = [plugin \in Plugin |-> [path \in PluginPath |-> None]]
    /\ pluginOp = [w \in PluginWorker |-> None]

PluginNext ==
    \/ \E plugin \in Plugin :
          \/ \E m \in Manifest : EditManifest(plugin, m)
          \/ \E path \in PluginPath : \E content \in Contents[path] : EditComponent(plugin, path, content)
          \/ \E status \in {"trusted", "blocked"} : DecideTrust(plugin, status)
          \/ DisableHooks(plugin) \/ DisableRecipes(plugin) \/ DisableReferences(plugin)
    \/ \E w \in PluginWorker, plugin \in Plugin, kind \in {"recipes", "hooks", "references"} :
          StartInstall(w, plugin, kind)
    \/ \E w \in PluginWorker :
          \/ LoadComponents(w) \/ InstallRecipe(w) \/ InstallHook(w) \/ InstallReferences(w)
          \/ EndInstall(w) \/ CheckTrust(w) \/ CompareComponent(w) \/ RunRecipe(w)
          \/ \E i \in RecipeId : ReadRecipe(w, i)
    \/ \E i \in RecipeId, template \in Template, enabled \in BOOLEAN :
          CreateRecipe(i, template, enabled) \/ UpdateRecipe(i, template, enabled)
=============================================================================
