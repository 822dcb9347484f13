SPECIFICATION Spec
CONSTANTS
    Blocks <- MCBlocks
    Contents <- MCContents
    Kind <- MCKind
    Content <- MCContent
    Evidence <- MCEvidence
    Uses <- MCUses
    Contradicts <- MCContradicts
    Redactable = TRUE
    Droppable <- MCDroppable
    RetainedRoots = 2
    ReviewThreshold = 3
    MaxVersions = 6
    Features <- MCPlain
INVARIANTS
    CitationsHeld
    Consistent
    Intact
    RedactionStands
