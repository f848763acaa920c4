\* Two symbols for one place, a held one without history; a restart, a stay of
\* two minutes, sentiment that turns.
SPECIFICATION Spec
CONSTANTS
    None = None
    A = A
    B = B
    C = C
    Symbols = {A, B, C}
    Liquid = {A, B}
    NoHistory = {C}
    Unknown = {C}
    MinStay = 2
    QuoteMaxAge = 1
    BatchSize = 50
    Fixed = 1
    ApiCalls = 5
    MaxTime = 3
    MaxRestarts = 1
INVARIANTS
    NeverPoisoned
    HeldAreFollowed
    FollowedAgree
    PanelInv
PROPERTIES
    MembershipChanges
CHECK_DEADLOCK FALSE
