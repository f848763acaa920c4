\* A unit is 30 s; one stock and the index, half a minute before a check.
SPECIFICATION FairSpec
CONSTANTS
    None = None
    A = A
    Symbols = {A}
    StaleAfter = 1
    DownAfter = 2
    MinRestart = 2
    SlowRestart = 4
    MaxFast = 1
    MaxGap = 3
    MaxBusy = 1
INVARIANTS
    WatchdogInv
PROPERTIES
    RestartsSpaced
    TroubleIsHandled
CHECK_DEADLOCK FALSE
