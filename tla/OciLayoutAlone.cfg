SPECIFICATION Spec
CONSTANTS
    w = w
    v = v
    r = r
    a = a
    b = b
    Handles <- MCOne
    Writers <- MCOne
    Digests <- MCDigests
    MaxCalls = 6
    Features <- MCPlain
INVARIANTS
    RemovedKnown
PROPERTIES
    Implements
CHECK_DEADLOCK FALSE
