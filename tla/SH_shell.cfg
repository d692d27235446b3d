SPECIFICATION ShellSpec
CONSTANTS
    Handlers = {h1, h2}
    Faults = TRUE
    MaxScans = 2
    Peers = {d1}
    Self = Self
    Windows = {w1, w2}
    NoWindow = NoWindow
CHECK_DEADLOCK FALSE
INVARIANTS TypeOK ShellTypeOK SingleFire JoinedOnce QrHandleIsLive
PROPERTIES CodeIsKept ImplementsOneShot
