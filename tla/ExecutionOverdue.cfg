SPECIFICATION Spec
CONSTANTS
    Supervisor = {s1, s2}
    Execution = {e1}
    None = None
    MaxLease = 2
    Offered = {"start", "cancel"}
    MaxIterations = 1
    MayCrash = TRUE
    Slow = {s1, s2}
    MayClose = TRUE
SYMMETRY Symmetric
PROPERTIES
    OutcomeIsFenced
CHECK_DEADLOCK FALSE
