\* Two symbols for one slot, square-off and a second day.
SPECIFICATION Spec
CONSTANTS
    None = None
    Symbols = {A, B}
    SlipNum = 1
    SlipDen = 100
    RateDen = 1000
    Rates <- MCRates
    StartingCapital = 1000
    MaxPositionValue = 700
    MaxOpenPositions = 1
    AllowShort = TRUE
    SquareOff = 1
    DayLength = 2
    Quantities = {1}
    Levels = {}
    Prices = {200, 220}
    Bars <- Ticks
    Brackets <- OneBracket
    MaxOrders = 2
    MaxEvents = 2
    MaxTime = 2
INVARIANTS
    SlotLimit
    FlatOnceSquared
PROPERTIES
    ImplementsBook
CHECK_DEADLOCK FALSE
