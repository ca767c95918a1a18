CONSTANTS
    o1 = o1
    o2 = o2
    p1 = p1
    p2 = p2
    i1 = i1
    i2 = i2
    i3 = i3
    a1 = a1
    a2 = a2
    dir = dir
    file = file
    other = other
    None = None
    Owner = {o1, o2}
    Process = {p1, p2}
    ProcessOf <- MCProcessOf
    Opaque = {}
    Intent = {i1, i2, i3}
    AuthorityOf <- MCAuthorityOf
    Default <- MCDefault
    Scopes = {"call", "target", "persistent"}
    Added = {"deny"}
    MaxGrants = 1
    MaxRules = 1
    Ruled = {i3}
    Path = {dir, file, other}
    Overlaps <- MCOverlaps
    Calls <- MCCalls
    Delegated = {o2}
    Root = dir
    MaxCalls = 2
    Failing = {o1}
SPECIFICATION Spec
INVARIANTS
    OneCallOnce
    Authorized
    JournalIsTrue
    WorkspaceExclusive
    NothingLeftBehind
CHECK_DEADLOCK FALSE
