SPECIFICATION Spec
CONSTANTS
    Invocations = {p1, p2}
    MessageIds = {m1, m2}
    StartLimits = {2, 3}
    PollLimits = {}
    OneCaller = TRUE
    HardMaxSteps = 3
    DefaultMaxSteps = 2
    MaxFailures = 2
    StepRetries = 2
    FreshTicks = 1
    DeadTicks = 1
    MaxLife = 0
    Budget <- SerialBudget
SYMMETRY Symmetric
INVARIANT
    TypeOK
    OneTurnAtATime
PROPERTY
    RefinesLifecycle
