SPECIFICATION Spec
CONSTANTS
    p1 = p1
    p2 = p2
    a = a
    b = b
    d = d
    Process = {p1, p2}
    Thread = {a, b, d}
    Home <- TwoAndOne
    Key = {k1}
    Value = {1, 2}
    None = None
    Revise <- CountUp
    Rewrite <- DeleteAll
    MayFail = TRUE
    MaxKept = 2
INVARIANTS
    LoadedIsCurrent
    NoLockIsLeaked
PROPERTIES
    ImplementsCollection
