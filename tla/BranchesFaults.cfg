SPECIFICATION Spec
CONSTANTS
    Names <- MCNames
    Main = 1
    MaxSnapshots = 3
    RetainedRoots = 1
    PeerTags <- MCSharedTag
    Features <- MCFaults
    None = None
INVARIANTS
    HeadsResolve
    CheckoutDecided
    RootsWhole
