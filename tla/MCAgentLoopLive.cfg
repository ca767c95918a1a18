CONSTANTS
    o1 = o1
    o2 = o2
    p1 = p1
    p2 = p2
    None = None
    Owner = {o1, o2}
    Process = {p1, p2}
    ProcessOf <- MCProcessOf
    Opaque = {}
    MaxControls = 2
    Kinds = {"interrupt", "message"}
    Faults = FALSE
    Closers = {}
SPECIFICATION RetrySpec
PROPERTIES
    FenceLifted
    ControlsDrain
CHECK_DEADLOCK FALSE
