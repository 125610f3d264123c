SPECIFICATION MarketSpec
CONSTANTS
    thresholdHigh <- MCThresholdHigh
    thresholdMid <- MCThresholdMid
    convertedHigh = 40
    convertedMid = 400
    convertedLow = 4000
    Million = 2
    MaxMoveRatio <- MCRatio
    MinDefinition = 10
    Prices <- MCPrices
    DailyMove <- MCDailyMove
INVARIANTS
    TracksThePrice
    NeverLockedOut
PROPERTIES
    FollowsThePrice
    MovesAreBounded
    Converges
CHECK_DEADLOCK FALSE
