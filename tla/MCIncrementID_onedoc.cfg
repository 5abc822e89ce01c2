CONSTANTS
    c1 = c1
    c2 = c2
    Clients <- MCClients
    Batches <- MCBatches
    MaxCalls = 2
SPECIFICATION Spec

INVARIANT OneCounterDoc
