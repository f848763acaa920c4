\* Stall exits, two strategies on one connection, a restart, every step fair.
SPECIFICATION FairSpec
CONSTANTS
    None = None
    Symbols = {A}
    SlipNum = 1
    SlipDen = 100
    RateDen = 1000
    Rates <- MCRates
    StartingCapital = 1000
    MaxPositionValue = 700
    MaxOpenPositions = 1
    AllowShort = TRUE
    SquareOff = 3
    DayLength = 10
    Quantities = {1}
    Levels = {}
    Prices = {180, 200}
    Bars <- Ticks
    Brackets <- StopAndTarget
    MaxOrders = 2
    MaxEvents = 2
    MaxTime = 3
    MaxHold = 2
    StallAfter = 1
    EntryMinutes = {1}
    TradesPerSymbol = 1
    TradesPerDay = 1
    SharedLedger = TRUE
    MaxRestarts = 1
PROPERTIES
    EndsFlat
CHECK_DEADLOCK FALSE
