SPECIFICATION Spec
CONSTANTS
    Supervisor = {s1, s2}
    Execution = {e1, e2}
    None = None
    MaxLease = 3
    Offered = {"start", "schedule", "cancel"}
    MaxIterations = 2
    MayCrash = TRUE
    Slow = {}
    MayClose = FALSE
SYMMETRY Symmetric
INVARIANTS
    TypeOK
    RunningHasLease
    LeaseIsNotForgotten
PROPERTIES
    ImplementsLifecycle
CHECK_DEADLOCK FALSE
