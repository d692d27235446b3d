SPECIFICATION Spec
CONSTANTS
    Peers = {p1}
    SelfKeys = {k1, k2}
    NoKey = NoKey
    Conns = {c1}
    UI = UI
    Faults = FALSE
    MaxStarts = 2
CHECK_DEADLOCK FALSE
INVARIANT AgreeAtRest
