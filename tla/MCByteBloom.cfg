CONSTANTS
    g1 = g1
    g2 = g2
    NoOwner = NoOwner
    Threads <- MCThreads
    Keys <- MCKeys
    Size = 6
    K = 3
    MaxCalls = 2
SPECIFICATION Spec
INVARIANT NoFalseNegative
