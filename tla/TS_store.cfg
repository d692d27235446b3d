SPECIFICATION Spec
CONSTANTS
    Peers = {p1, p2}
    SelfKeys = {k1, k2, k3}
    NoKey = NoKey
    Conns = {c1, c2}
    UI = UI
    Faults = TRUE
    MaxStarts = 3
SYMMETRY Interchangeable
CHECK_DEADLOCK FALSE
INVARIANTS TypeOK CopiesAgree OnlySelfIsSelf
PROPERTY IdentityIsKept
