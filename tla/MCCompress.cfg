CONSTANTS
    g1 = g1
    g2 = g2
    d0 = d0
    d1 = d1
    d2 = d2
    d3 = d3
    b1 = b1
    b2 = b2
    b3 = b3
    b4 = b4
    Threads <- MCThreads
    Data <- MCData
    Length <- MCLength
    Buffers <- MCBuffers
    InitArgs <- MCInitArgs
    MaxCalls = 2
SPECIFICATION Spec
INVARIANT ResultsIntact
