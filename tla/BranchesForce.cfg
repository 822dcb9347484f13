SPECIFICATION Spec
CONSTANTS
    Names <- MCNames
    Main = 1
    MaxSnapshots = 3
    RetainedRoots = 3
    PeerTags <- MCSharedTag
    Features <- MCForce
    None = None
INVARIANTS
    OriginsPublished
PROPERTIES
    WorkKept
