SPECIFICATION Spec
CONSTANTS
    Blocks <- MCBlocks
    Kind <- MCKind
    Evidence <- MCEvidence
    SelfCiting <- MCSelfCiting
    Uses <- MCUses
    Contradicts <- MCContradicts
    Unreadable <- MCUnreadable
    Rank <- MCRank
    Replacing <- MCReplacing
    Start <- MCStart
    Installed <- MCAll
    FetchSets <- MCFetchSome
    Strategies <- MCEvery
    RetainedRoots = 3
    MaxOurs = 2
    MaxTheirs = 3
    MaxJoins = 1
    Features <- MCFaults
CHECK_DEADLOCK FALSE
INVARIANT EvidenceHeld
PROPERTIES
    DropsStick
    EndsAsAccepted
    PrecedenceSettled
    RemovalsOnRecord
