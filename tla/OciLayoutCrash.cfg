SPECIFICATION Spec
CONSTANTS
    w = w
    v = v
    r = r
    a = a
    b = b
    Handles <- MCOne
    Writers <- MCOne
    Digests <- MCDigests
    MaxCalls = 3
    Features <- MCCrash
INVARIANTS
    RemovedKnown
CHECK_DEADLOCK FALSE
