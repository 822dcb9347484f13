SPECIFICATION Spec
CONSTANTS
    Blocks <- MCBlocks
    Kind <- MCKind
    Evidence <- MCEvidence
    SelfCiting <- MCSelfCiting
    Uses <- MCUses
    Contradicts <- MCContradicts
    Unreadable <- MCUnreadable
    Rank <- MCRank
    Replacing <- MCReplacing
    Start <- MCStartBare
    Installed <- MCAll
    FetchSets <- MCFetchSome
    Strategies <- MCMerge
    RetainedRoots = 2
    MaxOurs = 1
    MaxTheirs = 3
    MaxJoins = 1
    Features <- MCPrune
CHECK_DEADLOCK FALSE
INVARIANT DecisionsStand
