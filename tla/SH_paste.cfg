SPECIFICATION FairShellSpec
CONSTANTS
    Handlers = {h1}
    Faults = FALSE
    MaxScans = 1
    Peers = {d1}
    Self = Self
    Windows = {w1}
    NoWindow = NoWindow
CHECK_DEADLOCK FALSE
PROPERTY AnswerEndsPaste
