SPECIFICATION FairSpec
CONSTANTS
    Invocations = {p1, p2}
    MessageIds = {m1, m2, m3}
    StartLimits = {3}
    PollLimits = {}
    OneCaller = TRUE
    HardMaxSteps = 3
    DefaultMaxSteps = 1
    MaxFailures = 2
    StepRetries = 0
    FreshTicks = 1
    DeadTicks = 1
    MaxLife = 0
    Budget <- LostResponseBudget
INVARIANT
    RetriesBounded
PROPERTY
    Settles
