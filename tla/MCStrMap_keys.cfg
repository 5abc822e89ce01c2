CONSTANTS
    g1 = g1
    g2 = g2
    v1 = v1
    Absent = Absent
    Threads <- MCThreads
    Keys <- MCKeys
    Vals <- MCVals
    ShardCount = 33
    Ops <- OpsKeys
    MaxCalls = 2
SPECIFICATION Spec
INVARIANT KeysSnapshot
