SPECIFICATION Spec
CONSTANTS
    a = a
    b = b
    s1 = s1
    k1 = k1
    k2 = k2
    t = t
    MaxCandidates = 2
    MaxRetries = 2
    MaxContext = 2
    MaxTimeout = 1
    MaxOverload = 1
    Sessions = {s1}
    MaxLoops = 1
    MaxPlans = 2
    MaxWork = 2
    MaxStarts = 2
    KvKeys = {k1, k2}
    Prefixed = {k1}
    Values = {0, 1}
    Ttl = 2
    CleanupInterval = 1
    MaxNow = 5
    MaxVersions = 2
    MaxWrites = 2
    MaxReads = 2
    DiffLines = {a, b}
    MaxDiffLength = 5
    DiffContext = 1
    DiffLookAhead = 2
    Signatures = {a, b}
    Threshold = 3
    Cap = 6
    MaxHistory = 8
    Todos = {t}
    Events = {1, 2, 3}
    BatchSize = 2
    MaxRows = 2
    MaxNames = 1
    MaxSessions = 2
    MaxCalls = 2
    MaxEdits = 2
    MaxEnds = 2
INVARIANTS
    
    ContainersAccounted
    
    CallsBounded
    PlanStartsOnce
    
    ReadsReplay
    LoopsWarned
    EventsKept
CHECK_DEADLOCK FALSE
