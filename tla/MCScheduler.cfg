CONSTANTS
    o1 = o1
    o2 = o2
    p1 = p1
    p2 = p2
    s1 = s1
    s2 = s2
    None = None
    Owner = {o1, o2}
    Process = {p1, p2}
    ProcessOf <- MCProcessOf
    Opaque = {}
    Service = {o1}
    Schedule = {s1}
    KindOf <- MCRecurring
    Intervals = {1}
    Policies = {"skip", "catch-up"}
    MaxConcurrency = 2
    KeyLimit = 1
    CatchUp = 2
    MaxWait = 1
    Horizon = 1
    MaxRevision = 2
    Faults = TRUE
SPECIFICATION Spec
INVARIANTS
    Ceilings
    RunIsExclusive
PROPERTIES
    NoOccurrenceLost
    EditSurvives
CHECK_DEADLOCK FALSE
