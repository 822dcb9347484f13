SPECIFICATION Spec
CONSTANTS
    Classes <- MCClasses
    SchemeOf <- MCSchemeOf
    Sources <- MCSources
    Start <- MCStart
    Unrecorded <- MCUnrecorded
    Requests <- MCRequests
    Proposals <- MCLone
    Waits = {}
    Demotable = {"class", "hierarchy", "placement"}
    Droppable = {"class", "hierarchy", "placement", "source"}
    MaxOps = 5
INVARIANTS
    CatalogSound
    BrowseHeld
CHECK_DEADLOCK FALSE
