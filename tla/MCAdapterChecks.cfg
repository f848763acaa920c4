\* One stock, three connections, every way a call can fail; two threads.
SPECIFICATION FairAdapterSpec
CONSTANTS
    None = None
    A = A
    Symbols = {A}
    MaxConns = 3
    MaxMessages = 2
    T1 = T1
    T2 = T2
    Threads = {T1, T2}
    Jobs = 3
    Period = 2
    Gap = 2
    MaxTries = 3
    BaseDelay = 2
    MaxDelay = 3
    Timeout = 1
    Late = 1
    Window = 5
INVARIANTS
    FeedInv
    RequestsInv
PROPERTIES
    PricesArrive
    ImplementsConnection
    ExitEndsPollers
CHECK_DEADLOCK FALSE
