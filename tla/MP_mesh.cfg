SPECIFICATION FairSpec
CONSTANTS
    a = a
    b = b
    c = c
    Nodes = {a, b, c}
    MeshName <- TwoNames
    Addresses = {1, 2, 3, 4}
    Home <- InOrder
    NoNode = NoNode
    MaxOps = 2
    MaxFaults = 2
INVARIANTS TypeOK OnlyChosenReads HandoffIsReadable
PROPERTIES DevicesAreFound 
