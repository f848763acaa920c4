CONSTANTS
    None = None
    A = A
    N1 = N1
    N2 = N2
    N3 = N3
    Stocks = {A}
    NewsStocks = {N1, N2, N3}
    NoAlias = {N3}
    LastMinute = 2
    MaxTrades = 2
    MaxAttempts = 2
    Refresh = 1
    MaxAge = 1
    PerTick = 1
    MaxRestarts = 1
SPECIFICATION Spec
CHECK_DEADLOCK FALSE
PROPERTY TimeoutsAreRetried
