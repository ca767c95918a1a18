CONSTANTS
    o1 = o1
    o2 = o2
    p1 = p1
    p2 = p2
    None = None
    Owner = {o1, o2}
    Process = {p1, p2}
    ProcessOf <- MCProcessOf
    Opaque = {}
    MaxControls = 1
    Kinds = {"interrupt"}
    Faults = FALSE
    Closers = {}
SPECIFICATION Spec
PROPERTIES
    RecoveryFailsClosed
CHECK_DEADLOCK FALSE
