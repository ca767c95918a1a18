CONSTANTS
    o1 = o1
    p1 = p1
    s1 = s1
    s2 = s2
    None = None
    Owner = {o1}
    Process = {p1}
    ProcessOf <- MCProcessOf
    Opaque = {}
    Service = {o1}
    Schedule = {s1, s2}
    KindOf <- MCKindOf
    Intervals = {1}
    Policies = {"run-once"}
    MaxConcurrency = 2
    KeyLimit = 2
    CatchUp = 1
    MaxWait = 1
    Horizon = 1
    MaxRevision = 2
    Faults = FALSE
SPECIFICATION MCSpec
INVARIANTS
    NoLostWake
PROPERTIES
    EdgeFiresOnce
    DueIsServed
CHECK_DEADLOCK FALSE
