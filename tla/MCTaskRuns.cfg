CONSTANTS
    w1 = w1
    r1 = r1
    r2 = r2
    NoRunner = NoRunner
    Run = {1, 2}
    Runner = {w1}
    Owners = {r1, r2}
    FirstOwner = r1
    MaxEpoch = 3
    MaxMessages = 2
    MaxCalls = 2
SPECIFICATION RunsSpec
INVARIANT
    CancelAppliesAtBoundary
CHECK_DEADLOCK FALSE
