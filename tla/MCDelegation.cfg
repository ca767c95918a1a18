CONSTANTS
    o1 = o1
    o2 = o2
    o3 = o3
    p1 = p1
    p2 = p2
    d1 = d1
    d2 = d2
    None = None
    Owner = {o1, o2, o3}
    Process = {p1, p2}
    ProcessOf <- MCProcessOf
    Opaque = {}
    Child = {d1, d2}
    Exclusive = {d1, d2}
    Looped = {d1}
    Touched = {d1}
    Starters = {o1, o3}
    Cancellers = {o2, o3}
    MayLapse = FALSE
    c1 = c1
    u1 = u1
    text = text
    Candidate = {c1}
    UserEntry = {u1}
    TextOf <- MCTextOf
    Mind = {n1, n2}
    Maintainers = {n1}
    NoMind = NoMind
    MaxFaults = 1
SPECIFICATION MCSpec
VIEW PartView
INVARIANTS
    ChildIsSound
    MemoryKeepsItsWord
PROPERTIES
    EndsStay
CHECK_DEADLOCK FALSE
