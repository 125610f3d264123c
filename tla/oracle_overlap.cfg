SPECIFICATION OracleSpec
CONSTANTS
    thresholdHigh <- MCThresholdHigh
    thresholdMid <- MCThresholdMid
    convertedHigh = 40
    convertedMid = 400
    convertedLow = 4000
    Million = 2
    MaxMoveRatio <- MCRatio
    MinDefinition = 10
    Prices <- MCPrices
    Empty = Empty
    Garbage = Garbage
    DefaultTimeout = 1
    MaxTimeout = 1
    Runs <- MCRuns
    Envs <- MixedEnvs
    OneAtATime = FALSE
    Buffer = 2
    OrderedBudget = 2
    MaxTime = 4
INVARIANTS
    OutcomesAreHonest
    OpenOnlyIfLate
    OnlyAsConfigured
    ErrorsAreFailures
CHECK_DEADLOCK FALSE
