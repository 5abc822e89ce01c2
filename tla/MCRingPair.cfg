CONSTANTS
    n1 = n1
    n2 = n2
    None = None
    Nodes <- MCNodes
    VirtualSpotsArg = 2
    MaxRingLen = 4
    PositionAssignments <- [HashRing]MCPositionAssignments
SPECIFICATION Spec
INVARIANT RingsAgree
