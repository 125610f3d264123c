SPECIFICATION Spec
CONSTANTS
    Trades <- MCTrades
    NoId <- MCNoId
    Books <- FittingBooks
    Days <- MCDays
    Offset <- MCOffset
    EDT = 0
    DayHours = 2
    WindowDays = 2
    Now <- MCNow
    WindowStart <- MCWindowStart
    WindowEnd <- MCWindowEnd
    PageSize = 3
    MaxRetries = 1
    RetryWait = 500
    IgnoresEnd = TRUE
    PriceOf <- MCPriceOf
    Quantity <- MCQuantity
    Garbage = Garbage
INVARIANTS
    TypeOK
    CountedOnce
    Complete
    AveragesWholeDays
    AveragesPrices
    QuietWindowIsEmpty
PROPERTIES
    CursorAdvances
    FetchEnds
CHECK_DEADLOCK FALSE
