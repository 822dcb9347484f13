SPECIFICATION Spec
CONSTANTS
    Names <- MCNames
    Main = 1
    MaxSnapshots = 3
    RetainedRoots = 1
    PeerTags <- MCSharedTag
    Features <- MCShared
    None = None
INVARIANTS
    RetentionExact
    OriginsPublished
PROPERTIES
    WorkKept
