SPECIFICATION PushedSpec
CONSTANTS
    Invocations = {p1, p2}
    MessageIds = {m1, m2, m3}
    StartLimits = {2}
    PollLimits = {3}
    OneCaller = TRUE
    HardMaxSteps = 3
    DefaultMaxSteps = 2
    MaxFailures = 2
    StepRetries = 0
    FreshTicks = 1
    DeadTicks = 2
    MaxLife = 1
    Budget <- StallBudget
PROPERTY
    PollSparesWorker
    PushesRecover
