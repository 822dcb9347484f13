SPECIFICATION Spec
CONSTANTS
    m1 = m1
    m2 = m2
    r1 = r1
    r2 = r2
    r3 = r3
    stray = stray
    other = other
    Machines <- MCMachines
    Records <- MCRecords
    Signer <- MCSigner
    Strays <- MCStrays
    Foreign <- MCForeign
    MaxRecords = 2
    MaxMerged = 2
    MaxJobs = 3
INVARIANTS
    ListedWhole
PROPERTIES
    PushLists
    MergeKeeps
CHECK_DEADLOCK FALSE
