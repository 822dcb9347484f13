SPECIFICATION Spec
CONSTANTS
    w = w
    v = v
    r = r
    a = a
    b = b
    Handles <- MCReader
    Writers <- MCOne
    Digests <- MCDigests
    MaxCalls = 4
    Features <- MCCrash
INVARIANTS
    AnswersCurrent
    WholeBlobs
SYMMETRY MCSymmetry
CHECK_DEADLOCK FALSE
