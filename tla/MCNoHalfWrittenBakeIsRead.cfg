SPECIFICATION MCSpec
CONSTANTS
    a = a
    b = b
    c = c
    d = d
    x = x
    y = y
    NoDojo = NoDojo
    Runs <- MCRuns
    RoundSteps = 1
    RunRounds = 3
    MaxSamples = 2
    MaxFaults = 1
    NoDirectory = NoDirectory
    NoLoss = NoLoss
    NoReport = NoReport
    warmup = warmup
    joint = joint
    anneal = anneal
    None = None
    Dojos <- MCTrained
    Settings <- MCSettings
    MaxConsecutiveDojoFailures = 2
    MaxTotalDojoFailures = 3
    MaxConsecutiveFailures = 4
    Epsilon = 1
    Patience = 2
    ReactivationDelta = 0
    TargetSaturated = 100
    GrowthInterval = 2
    Arms <- MCArms
    SpecOf <- MCSpecOf
    MaxReingests = 1
    NoBake = NoBake
    Phases = 3
    MaxRounds = 2
    SafeName <- MCNames
    Parts = {"bakes"}
INVARIANTS
    NoHalfWrittenBakeIsRead
SYMMETRY MCSymmetry
CHECK_DEADLOCK FALSE
