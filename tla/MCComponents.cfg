CONSTANTS
    o1 = o1
    o2 = o2
    p1 = p1
    p2 = p2
    s1 = s1
    s2 = s2
    s3 = s3
    None = None
    Owner = {o1, o2}
    Process = {p1, p2}
    ProcessOf <- MCProcessOf
    Opaque = {}
    MaxControls = 2
    Kinds = {"interrupt", "cancel"}
    Item = {i1, i2}
    Present = {i1}
    Missing = Missing
    MaxRestores = 2
    Tracked = {f1}
    Untracked = {f2}
    NoFile = NoFile
    MaxContents = 2
    MaxCommits = 1
    MaxManual = 1
    MaxCheckpoints = 3
    Writer = {v1, v2}
    Role = {r1, r2}
    DefaultRole = r1
    Binding = {b1, b2}
    Foreign = {b2}
    Unbound = Unbound
    NoRole = NoRole
    NoConfig = NoConfig
    Nobody = Nobody
    MaxGeneration = 2
    Scope = {s1, s2, s3}
    SlotProcess = {p1, p2}
    ScopeProcess <- MCScopeProcess
    Child = {k1}
    NoScope = NoScope
    MaxDepth = 2
    Alias = {a1, a2}
    Digest = {d1}
    Mixed = Mixed
    Pulled = {a2}
    Shipped = {a2}
    Keeper = {e1, e2}
    Pullers = {e1}
    Bearer = {r1}
    NoModel = NoModel
    Sha = {m1, m2}
    Hardware = {h1}
    Depths <- MCDepths
    StagesOf <- MCStagesOf
    Reading = {1, 2}
    IdleReading = {1}
    Failed = 0
    NoRecord = NoRecord
    Managed = {q1}
    Caller = {t1, t2}
    Starters = {t1}
    Closers = {t2}
    NoProcess = NoProcess
    Run = {1, 2}
    Runner = {w1}
    Owners = {z1, z2}
    FirstOwner = z1
    NoRunner = NoRunner
    MaxEpoch = 3
    MaxMessages = 2
    MaxCalls = 2
    MaxHistory = 3
    MaxSize = 3
    Usables = {4, 8}
    Excesses = {0, 1}
    MaxAttempts = 2
    Code = {g1, g2}
    Client = {l1, l2}
    l1 = l1
    l2 = l2
    y1 = y1
    Connection = {y1}
    ClientAt <- MCClientAt
    Batch = 2
    MaxEvents = 4
    NoCode = NoCode
    User = {x1, x2}
    NoUser = NoUser
    MaxLines = 3
    MaxNotices = 1
SPECIFICATION Spec
VIEW PartView
INVARIANTS
    FailClosed
    FenceCoversOpen
    OneProcessor
    ConfigIsSound
    OneUserOfTheSlot
    AnswersAreTrue
    RunsAreSound
    ContextIsSound
    CoreIsSound
    McpIsSound
PROPERTIES
    ExecutionFenced
    EndsAreFinal
    RestoreIsAtomic
    RollbackLosesNothing
    NothingDangles
    PromotionIsSound
CHECK_DEADLOCK FALSE
