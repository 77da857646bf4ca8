SPECIFICATION Spec
CONSTANTS
    p1 = p1
    p2 = p2
    query = query
    change = change
    f1 = f1
    f2 = f2
    tracked = tracked
    main = main
    dev = dev
    None = None
    Procs = {p1, p2}
    First = p1
    Calls = {query, change}
    Kind <- KindOfCall
    MaxLinks = 4
    MaxRelayed = 1
    MaxFaults = 2
    Faults = {"crash", "cut", "error", "close"}
    MaxAttempts = 2
    Paths = {f1, f2}
    BatchMax = 1
    MaxEdits = 3
    MaxStarts = 2
    MaxTroubles = 1
    Troubles = {"call", "file", "slow", "incomplete"}
    TreeFiles = {tracked}
    MaxVersion = 1
    Branches = {main, dev}
    MaxOpen = 2
INVARIANTS
    WritesRunOnce
    AnswersMatch
    NobodyWaitsInVain
    ReadsSurvive
    EditsAccounted
    
CHECK_DEADLOCK FALSE
SYMMETRY SamePaths
