SPECIFICATION ServicesSpec
CONSTANTS
    Services <- AllServices
    main = main
    lib = lib
    copy = copy
    None = none
    Self = self
    Super = super
    Chains = {}
    Replicas = {w1}
    MaxJobs = 2
    Paths = {main, lib, copy}
    Trees <- Commits
    Tree <- CommitTree
    Text <- Texts
    SCAN_CONCURRENCY = 1
    PASS2_WINDOW_FILES = 2
    Private = TRUE
    ScanBudgets <- Troubles
    Callers = {q1}
    Providers <- Clients
    NumModels = 2
    NumKeys = 2
    Requests = {r1, r2}
    Upstreams = {"github", "notion", "mem0"}
    MIN_INTERVAL = 2
    MAX_RETRIES = 1
    MaxTime = 8
INVARIANTS
    ServicesTypeOK
    IndexHealed
    CallsSound
PROPERTIES
    JobsSettle
    StartsAreSpaced
CHECK_DEADLOCK FALSE
