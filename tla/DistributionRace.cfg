SPECIFICATION Spec
CONSTANTS
    Clients <- MCClients
    Founder = "ana"
    Kinds <- MCKinds
    Edited <- OneEdited
    Subsets <- MCSubsets
    Attempts = 2
    Lag = 0
    Stale = 0
    MaxVersions = 4
    MaxWrites = 2
    MaxFailures = 0
    Features = {"merge"}
PROPERTIES RaceSeen
CHECK_DEADLOCK FALSE
