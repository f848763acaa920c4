\* Time exits only, as scalp is configured; another session on the connection; one restart.
SPECIFICATION SSpec
CONSTANTS
    None = None
    Symbols = {A}
    SlipNum = 1
    SlipDen = 100
    RateDen = 1000
    Rates <- MCRates
    StartingCapital = 1000
    MaxPositionValue = 700
    MaxOpenPositions = 1
    AllowShort = TRUE
    SquareOff = 3
    DayLength = 10
    Quantities = {1}
    Levels = {}
    Prices = {180, 200}
    Bars <- Ticks
    Brackets <- StopAndTarget
    MaxOrders = 3
    MaxEvents = 2
    MaxTime = 4
    MaxHold = 1
    StallAfter = None
    EntryMinutes = {1, 2}
    TradesPerSymbol = 1
    TradesPerDay = 1
    SharedLedger = TRUE
    MaxRestarts = 1
INVARIANTS
    SessionInv
    OrphansAreKnown
    DurableIsWhole
CHECK_DEADLOCK FALSE
