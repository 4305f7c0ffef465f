SPECIFICATION FairSpec
CONSTANTS
    TaskCount = 2
    Deps <- NoDeps
    RetryLimit <- NoRetry
    Gates = {g1}
    Note = {n1}
    NoNote = NoNote
    MaxReady = 2
    MaxIssue = 2
    MaxBlockers = 1
    Supervisor = {s1, s2}
    Cycler = {s1}
    Nobody = Nobody
    Orphan = Orphan
    MaxFailing = 0
    MaxCrashes = 1
    LeaseMayLapse = FALSE
    AuditMayFail = TRUE
    ManualUpdates = FALSE
PROPERTIES
    ClaimedTasksGetAgents
    LeaseIsFreed
    ReadyTasksStart
    RollbackSparesSpawned
    EndedAgentsStayEnded
CHECK_DEADLOCK FALSE
