SPECIFICATION Spec
CONSTANTS
    p1 = p1
    p2 = p2
    Process = {p1}
    Pipe = {out}
    Retained = 2
    None = None
    Lives <- NobodyDies
    MaxOutput = 1
    MayCancel = TRUE
PROPERTIES
    OutcomeHolds
CHECK_DEADLOCK FALSE
