SPECIFICATION Spec
CONSTANTS
    Blocks <- MCBlocks
    Contents <- MCContents
    Kind <- MCKind
    Content <- MCContent
    Evidence <- MCEvidence
    Uses <- MCUses
    Contradicts <- MCContradicts
    Redactable = TRUE
    Droppable <- MCDroppable
    RetainedRoots = 2
    ReviewThreshold = 3
    MaxVersions = 4
    Features <- MCFaults
PROPERTIES
    DatumKept
    EpisodesKept
