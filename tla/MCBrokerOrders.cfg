\* One symbol, every kind of order, round trips one after the other.
SPECIFICATION Spec
CONSTANTS
    None = None
    Symbols = {A}
    SlipNum = 1
    SlipDen = 100
    RateDen = 1000
    Rates <- MCRates
    StartingCapital = 600
    MaxPositionValue = 700
    MaxOpenPositions = 1
    AllowShort = TRUE
    SquareOff = 1
    DayLength = 2
    Quantities = {1, 2}
    Levels = {200}
    Prices = {180, 200, 220}
    Bars <- TickAndWideBar
    Brackets <- TwoBrackets
    MaxOrders = 2
    MaxEvents = 3
    MaxTime = 0
INVARIANTS
    NoOrphanExit
    TradeMirrorsPosition
    OneExitPerBracket
    BooksReconcile
PROPERTIES
    NoFlip
    BarIsUsedUp
    FundedEntries
CHECK_DEADLOCK FALSE
