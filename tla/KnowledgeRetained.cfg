SPECIFICATION Spec
CONSTANTS
    Blocks <- MCBlocks
    Contents <- MCContents
    Kind <- MCKind
    Content <- MCContent
    Evidence <- MCEvidence
    Uses <- MCUses
    Contradicts <- MCContradicts
    Redactable = TRUE
    Droppable <- MCDroppable
    RetainedRoots = 3
    ReviewThreshold = 3
    MaxVersions = 5
    Features <- MCPlain
PROPERTIES
    RetainedDatumKept
