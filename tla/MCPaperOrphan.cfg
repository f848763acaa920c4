\* Stall exits, as trend is configured, and a restart.
SPECIFICATION SSpec
CONSTANTS
    None = None
    Symbols = {A}
    SlipNum = 1
    SlipDen = 100
    RateDen = 1000
    Rates <- MCRates
    StartingCapital = 1000
    MaxPositionValue = 700
    MaxOpenPositions = 1
    AllowShort = TRUE
    SquareOff = 4
    DayLength = 10
    Quantities = {1}
    Levels = {}
    Prices = {180, 200}
    Bars <- Ticks
    Brackets <- StopAndTarget
    MaxOrders = 2
    MaxEvents = 3
    MaxTime = 5
    MaxHold = 3
    StallAfter = 1
    EntryMinutes = {1, 2}
    TradesPerSymbol = 1
    TradesPerDay = 1
    SharedLedger = FALSE
    MaxRestarts = 1
INVARIANTS
    NeverOrphaned
CHECK_DEADLOCK FALSE
