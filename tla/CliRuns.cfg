SPECIFICATION FairSpec
CONSTANTS
    p1 = p1
    p2 = p2
    Process = {p1, p2}
    Pipe = {out, err}
    Retained = 2
    None = None
    Lives <- FirstDiesOnce
    MaxOutput = 2
    MayCancel = TRUE
INVARIANTS
    TypeOK
    EndedRunsAreDead
    OrphansAreReported
    
PROPERTIES
    AppendsKeepOutput
    RunsStayEnded
CHECK_DEADLOCK FALSE
