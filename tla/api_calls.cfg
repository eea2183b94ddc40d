SPECIFICATION Spec
CONSTANTS
    p1 = p1
    p2 = p2
    n1 = n1
    n2 = n2
    d1 = d1
    d2 = d2
    Threads <- TwoThreads
    Names <- TwoNames
    Devices <- TwoDevices
    Capacity = 1
    MaxCalls = 4
INVARIANTS TypeOK OverlapReported  OneClientPerDevice VectorInBounds EnumerationExact
CHECK_DEADLOCK FALSE
SYMMETRY Symmetry
