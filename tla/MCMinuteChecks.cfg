CONSTANTS
    None = None
    A = A
    N1 = N1
    N2 = N2
    N3 = N3
    Stocks = {A}
    NewsStocks = {N1, N2, N3}
    NoAlias = {N3}
    LastMinute = 4
    MaxTrades = 2
    MaxAttempts = 2
    Refresh = 1
    MaxAge = 1
    PerTick = 1
    MaxRestarts = 1
    DayEnd = 3
    SquareOffAt = 2
    Sessions = 2
    MaxHeld = 1
    MaxLives = 2
SYMMETRY Symmetry
SPECIFICATION MinuteSpec
CHECK_DEADLOCK FALSE
INVARIANTS
    BarsInv
    NewsInv
    LoopInv
