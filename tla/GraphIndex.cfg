SPECIFICATION Spec
CONSTANTS
    a = a
    b = b
    c = c
    None = None
    NotTracked = NotTracked
    Absent = Absent
    Files = {1, 2, 3, 4}
    Symbols = {1, 2, 3, 4}
    NameOf <- Names
    FileOf <- Homes
    MaxEdges = 5
    MaxCalls = 3
    MaxDepth = 3
    Tree <- Paths
    Hashes = {"h1", "h2"}
    SourceFiles = {a, b, c}
    Versions <- Contents
    TestOf <- Tests
    Beneath <- Below
    Barrels = {}
    CoChanged <- Together
    MaxChanges = 2
    MaxLate = 1
    MaxMessages = 3
    MaxErrors = 2
    MaxFallbacks = 1
    MaxToolFailures = 1
    TurnLimit = 3
    FailureLimit = 1
    MaxLines = 4
    MaxLength = 2
    MaxSymbols = 2
    MaxChunkSize = 4
    LinesPerChunk = 3
    OverlapLines = 1
    MinChunkTokens = 2
    MaxChunkTokens = 3
    CharsPerToken = 2
    MaxClients = 4
    MaxCallers = 2
    MAX_RESTARTS = 3
    MaxOpenCalls = 2
INVARIANTS
    CyclesAreComponents
    ImpactIsDistance
    BridgesDisconnect
    CommunitiesSettle
    SkipsOnlyUnchanged
    TraversalsAgree
    BudgetsCut
    RefsMatchDisk
    DerivedIsBuilt
    
    ChunksCover
    
    
CHECK_DEADLOCK FALSE
