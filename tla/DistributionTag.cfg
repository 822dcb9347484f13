SPECIFICATION FairSpec
CONSTANTS
    Clients <- MCClients
    Founder = "ana"
    Kinds <- MCKinds
    Edited <- OneEdited
    Subsets <- MCSubsets
    Attempts = 2
    Lag = 1
    Stale = 0
    MaxVersions = 4
    MaxWrites = 2
    MaxFailures = 1
    Features = {"merge"}
INVARIANTS TagComplete AlarmsReal OriginContained
PROPERTIES ReplacesOnlyUnseen PushEnds
CHECK_DEADLOCK FALSE
