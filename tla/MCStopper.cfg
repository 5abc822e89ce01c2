CONSTANTS
    s1 = s1
    s2 = s2
    t1 = t1
    t2 = t2
    w1 = w1
    NoOwner = NoOwner
    Stoppers <- MCStoppers
    Triggerers <- MCTriggerers
    Waiters <- MCWaiters
SPECIFICATION Spec
INVARIANT TypeOK
INVARIANT TriggerClosedOnce
PROPERTY WaitStoppedReturns
