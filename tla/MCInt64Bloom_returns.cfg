CONSTANTS
    g1 = g1
    g2 = g2
    NoOwner = NoOwner
    Threads <- MCThreads
    Keys <- MCKeys
    Size = 15
    K = 4
    MaxLen = 2
    MaxCalls = 1
SPECIFICATION Spec
PROPERTY AddManyReturns
CHECK_DEADLOCK FALSE
