SPECIFICATION Spec
CONSTANTS
    w = w
    v = v
    r = r
    a = a
    b = b
    Handles <- MCTwo
    Writers <- MCTwo
    Digests <- MCDigests
    MaxCalls = 4
    Features <- MCPlain
INVARIANTS
    RemovedKnown
CHECK_DEADLOCK FALSE
