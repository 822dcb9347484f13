SPECIFICATION LedgerSpec
CONSTANTS
    v = v
    w = w
    x = x
    y = y
    z = z
    p = p
    q = q
    Derived <- MCDerived
    Start <- MCDerived
    Producers <- MCProducers
    Assistants <- MCAssistants
    Successions <- MCTies
    Demotable <- MCDemotable
    NoOne = NoOne
    MemoryTypeOf <- MCMemoryTypeOf
    Words <- MCWords
    Stopwords <- MCStopwords
    Relations <- MCRelations
    DigestRank <- MCDigestRank
    Erased <- MCErased
    Queries <- MCQueries
    MaxRecords = 4
    MaxLeaves = 9
PROPERTY
    SettledStays
CHECK_DEADLOCK FALSE
