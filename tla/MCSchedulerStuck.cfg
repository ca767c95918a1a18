CONSTANTS
    o1 = o1
    o2 = o2
    p1 = p1
    p2 = p2
    s1 = s1
    s2 = s2
    None = None
    Owner = {o1}
    Process = {p1}
    ProcessOf <- MCSoloProcessOf
    Opaque = {}
    Service = {o1}
    Schedule = {s1}
    KindOf <- MCRecurring
    Intervals = {1}
    Policies = {"run-once"}
    MaxConcurrency = 1
    KeyLimit = 1
    CatchUp = 1
    MaxWait = 1
    Horizon = 1
    MaxRevision = 2
    Faults = FALSE
SPECIFICATION FairSpec
PROPERTIES
    DueIsServed
CHECK_DEADLOCK FALSE
