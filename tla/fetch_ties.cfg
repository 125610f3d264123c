SPECIFICATION Spec
CONSTANTS
    Trades <- MCTrades
    NoId <- MCNoId
    Books <- CrowdedBooks
    Days <- MCDays
    Offset <- MCOffset
    EDT = 0
    DayHours = 2
    WindowDays = 2
    Now <- MCNow
    WindowStart <- MCWindowStart
    WindowEnd <- MCWindowEnd
    PageSize = 3
    MaxRetries = 1
    RetryWait = 500
    IgnoresEnd = FALSE
    PriceOf <- MCPriceOf
    Quantity <- MCQuantity
    Garbage = Garbage
INVARIANT
    Complete
CHECK_DEADLOCK FALSE
