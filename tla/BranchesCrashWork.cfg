SPECIFICATION Spec
CONSTANTS
    Names <- MCNames
    Main = 1
    MaxSnapshots = 3
    RetainedRoots = 1
    PeerTags = {}
    Features <- MCCrash
    None = None
PROPERTIES
    WorkKept
