SPECIFICATION NotionSpec
CONSTANTS
    Components <- All
    Callers = {a1, a2, a3}
    Processes = {p1, p2}
    Entities = {e1}
    MaxPages = 3
    MaxRows = 4
    IndexBudget <- IndexFaults
    Writers = {w1, w2}
    Lines = 2
    Batch = 1
    MaxSaves = 3
    MaxStamp = 2
    MaxNotes = 1
    RangeFaults = 1
    Latest = latest
    Others = {w1, w2}
    MaxTexts = 4
    MaxNotePages = 3
    MaxOps = 3
    NoteFaults = 1
    LogProcesses = {w1, w2}
    Cap = 2
    MaxCommits = 5
    MaxTends = 2
    LogFaults = 2
    Updaters = {w1, w2}
    UpdateAsks <- SomeUpdates
    FirstPage <- OnePage
    UpdateBudget <- PageFaults
SYMMETRY NotionSymmetry
INVARIANTS
    NotionTypeOK
    IndexSound
    SavedTextReadable
    LogKept
    UpdateSound
PROPERTIES
    RangeSound
CHECK_DEADLOCK FALSE
