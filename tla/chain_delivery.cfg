SPECIFICATION Spec
CONSTANTS
    Invocations = {p1, p2}
    MessageIds = {m1, m2, m3, m4}
    StartLimits = {2}
    PollLimits = {}
    OneCaller = TRUE
    HardMaxSteps = 3
    DefaultMaxSteps = 2
    MaxFailures = 2
    StepRetries = 0
    FreshTicks = 1
    DeadTicks = 1
    MaxLife = 0
    Budget <- DeliveryBudget
SYMMETRY Symmetric
INVARIANT
    ChainMoves
