CONSTANTS
    o1 = o1
    o2 = o2
    p1 = p1
    p2 = p2
    None = None
    Owner = {o1, o2}
    Process = {p1, p2}
    ProcessOf <- MCProcessOf
    Opaque = {p2}
    MaxControls = 1
    Kinds = {"interrupt", "approval", "message"}
    Faults = TRUE
    Closers = {o1, o2}
SPECIFICATION Spec
INVARIANTS
    TruthfulOutcome
    SingleExecutor
PROPERTIES
    ImplementsQueue
CHECK_DEADLOCK FALSE
