CONSTANTS
    n1 = n1
    n2 = n2
    n3 = n3
    None = None
    Nodes <- MCNodes
    VirtualSpotsArg = 2
    MaxRingLen = 6
SPECIFICATION Spec
INVARIANT TypeOK
PROPERTY RoutesAsAbstractRing
