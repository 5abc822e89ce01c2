CONSTANTS
    g1 = g1
    g2 = g2
    v1 = v1
    Absent = Absent
    Threads <- MCThreads
    Keys <- MCKeysSmall
    Vals <- MCVals
    ShardCount = 4
    Ops <- OpsSnapshot
    MaxCalls = 2
SPECIFICATION Spec
INVARIANT NoPanic
