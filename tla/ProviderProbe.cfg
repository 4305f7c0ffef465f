SPECIFICATION GatesSpec
CONSTANTS
    None = None
    agent = agent role = role task = task editor = editor server = server server2 = server2
    call1 = call1 call2 = call2 anna = anna bert = bert cred1 = cred1 cred2 = cred2
    fileHook = fileHook managedHook = managedHook plugin = plugin
    rule = rule rule2 = rule2 managedRule = managedRule domainRule = domainRule
    host = host otherHost = otherHost
    inPlace = inPlace inPlace2 = inPlace2 outPlace = outPlace statePlace = statePlace
    fileId = fileId commandId = commandId providerId = providerId toolId = toolId
    networkId = networkId tool = tool twin = twin
    Gate = {"calls"} Vocabulary <- MCVocabulary
    HookId = {fileHook} HookEditor = {} Plugin = {plugin}
    HookRequest <- MCHookRequest ManagedHooks <- MCManagedHooks
    Task = {task} Assigned <- MCAssigned WriteSet <- MCWriteSet
    Place = {inPlace, inPlace2, outPlace, statePlace}
    Outside = {outPlace} StateFile = {statePlace}
    FileKind = {"tree"} FileRequest <- MCFileRequest FileId = {fileId} FileProcess = {server, server2}
    Environment = "production" MaxStamp = 1
    Command <- MCCommand TextLength <- MCTextLength CommandRuleId = {rule, rule2} CommandRuleRequest <- MCCommandRuleRequest
    ManagedCommandRules <- MCManagedCommandRules CommandRequest <- MCCommandRequest
    CommandId = {commandId} CommandEnvironment = "production" Approver = {bert}
    NetworkRuleId = {domainRule} NetworkRuleRequest <- MCNetworkRuleRequest
    ManagedNetworkRules <- MCManagedNetworkRules ConfiguredDomains <- MCConfiguredDomains
    DefaultMode = "allow" NetworkRequest <- MCNetworkRequest NetworkId = {networkId}
    NetworkEditor = {editor}
    ProviderRequest <- MCStreams ProviderId = {providerId}
    Call = {call1, call2} CallAt <- MCCallAt AllowedHosts <- MCAllowedHosts
    Credential = {cred1, cred2} ProviderEnvironment = "production" Threshold = 1 MaxAttempts = 2
    Tool = {tool} Interface <- MCInterface ToolRequest <- MCToolRequest Registered <- MCRegistered ToolId = {toolId}
    ToolEnvironment = "production" MaxVersion = 2 MaxToolRuns = 4 WarnRuns = 3 DeprecateRuns = 4
INVARIANT OneProbe
CHECK_DEADLOCK FALSE
