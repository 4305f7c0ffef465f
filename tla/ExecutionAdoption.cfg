SPECIFICATION Spec
CONSTANTS
    Supervisor = {s1, s2}
    Execution = {e1}
    None = None
    MaxLease = 2
    Offered = {"start", "schedule", "cancel"}
    MaxIterations = 1
    MayCrash = TRUE
    Slow = {}
    MayClose = FALSE
PROPERTIES
    AdoptionNotRefused
CHECK_DEADLOCK FALSE
