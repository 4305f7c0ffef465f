SPECIFICATION ServicesSpec
CONSTANTS
    None = None Nobody = Nobody Unset = Unset
    anna = anna team = team token1 = token1 token2 = token2
    server = server server2 = server2 editor = editor plugin = plugin role = role
    localHook = localHook pluginHook = pluginHook managedHook = managedHook
    recipe = recipe recipeFile = recipeFile hookFile = hookFile docFile = docFile
    main = main topic = topic fix = fix key = key
    Service = {"tokens", "recipes", "hooks", "git"}
    OperatorId = {anna} GroupId = {team} TokenId = {token1, token2} AuthWorker = {server, server2}
    OperatorGrant <- MCOperatorGrant GroupGrant = {{"read"}} TokenGrant = {{"read"}} GrantsAll = {"admin"}
    HookId = {localHook, pluginHook} HookEditor = {editor} Plugin = {plugin}
    HookRequest <- MCHookRequest ManagedHooks <- MCManagedHooks
    PluginPath = {recipeFile, hookFile, docFile} Manifest <- MCManifest Contents <- MCContents
    HookIdOf <- MCHookIdOf ManagedTrust <- MCManagedTrust ManagedReferences = {}
    RecipeId = {recipe} Template = {"local"} ManagedRecipe = {} PluginWorker = {server}
    Branch = {main, topic} ProtectedBranch = {main} Change = {fix, key} PathOf <- MCPathOf
    ProtectedPath = {".env"} Secret = {key}
    MaxCommits = 1
INVARIANT ManagedNeverLoosened
PROPERTIES RevocationIsFinal RecipesRunAsShipped ActsOnReviewed
CHECK_DEADLOCK FALSE
