CONSTANTS
    g1 = g1
    g2 = g2
    v1 = v1
    Absent = Absent
    NoOwner = NoOwner
    Threads <- MCThreads
    Keys <- MCKeys
    Vals <- MCVals
    Shards <- MCShards
    Ops <- OpsAll
    MaxCalls = 1
SPECIFICATION Spec

INVARIANT KeysMovingSnapshot
PROPERTY EveryCallReturns
