SPECIFICATION ConnectorsSpec
CONSTANTS
    Components <- AllConnectors
    Runs = {w1, w2}
    MaxMemories = 4
    PageSize = 1
    ListPages = 3
    MaxVersion = 2
    SyncBudget <- SyncHazards
    AddCalls = {q1}
    Editors = {w1, w2}
    MaxStored = 2
    Slots = {s1}
    Contents = {x1, x2}
    Nothing = nothing
    ScanPage = 1
    ScanPages = 2
    StoreBudgets <- StoreHazards
    Nodes = {a, b, c, d}
    Start = a
    Depth = 3
    Askers = {a1}
    Branches = {"main", "dev"}
    MaxScans = 2
    MaxPushes = 1
    MaxMishaps = 1
    Symbols = {"s1", "s2", "s3"}
    Scripts = {"f1"}
    Named <- Names
    MaxHops = 2
    Writers = {w1, w2}
    WriteRequests <- AnyRequest
    Paths = {"p", "q"}
    Words = {"u", "v", "w"}
    FirstTree <- OneTree
    OtherEdits <- AnyEdit
    WriteBudget <- BranchHazards
    ViewTools = {"read_file", "delegate", "notion"}
    WholeUpTo <- WholeLengths
    PageOf <- PageLengths
    LongestPage <- LimitLengths
    Characters = {"c", "d"}
    LongestText = 4
    LineSpan = 1
    TextChanges = 1
SYMMETRY MemorySymmetry
INVARIANTS
    ConnectorsTypeOK
    SyncConverges
    MemoriesKept
    AnswersExact
    BranchSound
PROPERTIES
    OnlyOrphansArchived
CHECK_DEADLOCK FALSE
