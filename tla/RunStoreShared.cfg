SPECIFICATION Spec
CONSTANTS
    TaskCount = 2
    Deps <- ChainDeps
    RetryLimit <- FirstRetries
    Gates = {g1}
    Note = {n1}
    NoNote = NoNote
    MaxReady = 2
    MaxIssue = 2
    MaxBlockers = 1
    Supervisor = {s1, s2}
    Cycler = {s1, s2}
    Nobody = Nobody
    Orphan = Orphan
    MaxFailing = 1
    MaxCrashes = 0
    LeaseMayLapse = TRUE
    AuditMayFail = TRUE
    ManualUpdates = TRUE
SYMMETRY Symmetric
INVARIANTS
    TypeOK
    DependenciesRespected
    BlockersMatchTasks
    ClosedIsComplete
PROPERTIES
    ClosedStaysClosed
    AgentsAreNotRenamed
    ImplementsTaskBoard
CHECK_DEADLOCK FALSE
