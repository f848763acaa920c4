\* The feed fails in the universe's call.
SPECIFICATION Spec
CONSTANTS
    None = None
    A = A
    Symbols = {A}
    StaleAfter = 1
    DownAfter = 2
    MinRestart = 2
    SlowRestart = 3
    MaxFast = 1
    MaxGap = 3
    MaxBusy = 0
INVARIANTS
    NeverStoppedByFeed
CHECK_DEADLOCK FALSE
