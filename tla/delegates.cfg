SPECIFICATION DelegatesSpec
CONSTANTS
    Delegates <- All
    Limits = {2, 4, 5}
    HardMaxSteps = 5
    StuckSteps = 2
    Modes <- AgentModes
    Invocations = {p1}
    Batches <- Reads
    ResultIds <- CallIds
    FullDetail = 1
    StepRoom = 1
    MaxVersions = 2
    HistoryBudgets <- Mishaps
    Files = {f1, f2, f3}
    BatchSize = 2
    MaxFilesPerRun = 1
    MaxWritesPerFile = 2
    StartLimit = 3
    PushLimits = {0, 3}
    EDITOR_DEFAULT_STEPS = 2
    EDITOR_HARD_MAX_STEPS = 3
    MaxFailures = 2
    StepRetries = 1
    EDITOR_STUCK_STEPS = 1
    Budget <- Faults
    Kinds = 1
    Paths = {q1}
    None = none
    FRONTEND_HARD_MAX_STEPS = 5
    FRONTEND_MAX_VALIDATE_CALLS = 1
    MaxFileVersion = 3
    MaxCalls = 2
    DesignBudgets <- Troubles
SYMMETRY FileSymmetry
INVARIANTS
    DelegatesTypeOK
    ConversationSound
    AnswersEarned
    EvidenceSound
    EditorReportTrue
    EditorBounded
    CacheKeepsUp
    DesignKept
PROPERTIES
    RefinesLifecycle
    EditorStepsSound
CHECK_DEADLOCK FALSE
