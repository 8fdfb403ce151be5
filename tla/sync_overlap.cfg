SPECIFICATION ConnectorsSpec
CONSTANTS
    Components <- OnlySync
    Runs = {w1, w2}
    MaxMemories = 3
    PageSize = 2
    ListPages = 2
    MaxVersion = 2
    SyncBudget <- SyncHazards
    AddCalls = {q1}
    Editors = {w1, w2}
    MaxStored = 2
    Slots = {s1}
    Contents = {x1, x2}
    Nothing = nothing
    ScanPage = 1
    ScanPages = 2
    StoreBudgets <- StoreHazards
    Nodes = {a, b, c, d}
    Start = a
    Depth = 3
    Askers = {a1}
    Branches = {"main", "dev"}
    MaxScans = 2
    MaxPushes = 1
    MaxMishaps = 1
    Symbols = {"s1", "s2", "s3"}
    Scripts = {"f1"}
    Named <- Names
    MaxHops = 2
    Writers = {w1, w2}
    WriteRequests <- AnyRequest
    Paths = {"p", "q"}
    Words = {"u", "v", "w"}
    FirstTree <- OneTree
    OtherEdits <- AnyEdit
    WriteBudget <- BranchHazards
    ViewTools = {"read_file", "delegate", "notion"}
    WholeUpTo <- WholeLengths
    PageOf <- PageLengths
    LongestPage <- LimitLengths
    Characters = {"c", "d"}
    LongestText = 4
    LineSpan = 1
    TextChanges = 1
PROPERTY
    NoStoredArchived
CHECK_DEADLOCK FALSE
