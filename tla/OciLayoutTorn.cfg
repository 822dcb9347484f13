SPECIFICATION Spec
CONSTANTS
    w = w
    v = v
    r = r
    a = a
    b = b
    Handles <- MCTwo
    Writers <- MCTwo
    Digests <- MCDigests
    MaxCalls = 3
    Features <- MCPlain
INVARIANTS
    WholeBlobs
CHECK_DEADLOCK FALSE
