SPECIFICATION Spec
CONSTANTS
    Keys <- MCTwo
    FirstRoot <- MCAnn
    NewScopes <- MCNew
    Forms <- MCForm
    PriorSigned <- MCPriorSigned
    OurKinds <- MCOurs
    TheirKinds <- MCAdmit
    Prior <- MCPrior
    Edits <- MCEdit
    Needed = 1
    AllowPropose = FALSE
    Unsigned = "refuse"
    RecordCap = 3
    Depths <- MCDepth
    MaxDocs = 4
    MaxSigned = 2
    Features <- MCFeatures
INVARIANT AuthorityGranted
INVARIANT WithdrawnNeverCounts
INVARIANT EvidenceSound
PROPERTY PinnedAuthority
PROPERTY AuthorizationKept
CHECK_DEADLOCK FALSE
