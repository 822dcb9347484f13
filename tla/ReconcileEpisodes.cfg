SPECIFICATION Spec
CONSTANTS
    Blocks <- MCBlocks
    Kind <- MCKind
    Evidence <- MCEvidence
    SelfCiting <- MCSelfCiting
    Uses <- MCUses
    Contradicts <- MCContradicts
    Unreadable <- MCUnreadable
    Rank <- MCRank
    Replacing <- MCReplacing
    Start <- MCStart
    Installed <- MCAll
    FetchSets <- MCFetchAll
    Strategies <- MCMerge
    RetainedRoots = 2
    MaxOurs = 1
    MaxTheirs = 2
    MaxJoins = 1
    Features <- MCPrune
CHECK_DEADLOCK FALSE
PROPERTY EpisodesKept
