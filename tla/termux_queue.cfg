SPECIFICATION FairSpec
CONSTANTS
    JobCount = 3
    Phones = {p1}
    Handlers = {h1, h2}
    Callers = 2
    MaxDepth = 1
    MaxSkips = 1
    MaxPosts = 2
    JobTTL = 2
    Timeout = 1
    ApprovalWait = 1
    MaxFaults = 1
INVARIANTS
    TypeOK
    AtMostOnce
    JobsFound
PROPERTIES
    ResultStays
    Served
