SPECIFICATION Spec
CONSTANTS
    a = a
    b = b
    c = c
    Nodes = {a, b, c}
    MeshName <- TwoNames
    Addresses = {1, 2, 3, 4}
    Home <- InOrder
    NoNode = NoNode
    MaxOps = 2
    MaxFaults = 0
INVARIANT TargetCanRead

