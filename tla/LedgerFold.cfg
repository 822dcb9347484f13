SPECIFICATION LedgerSpec
CONSTANTS
    v = v
    w = w
    x = x
    y = y
    z = z
    p = p
    q = q
    Derived <- MCDerived
    Start <- MCStart
    Producers <- MCProducers
    Assistants <- MCAssistants
    Successions <- MCAbove
    Demotable <- MCDemotable
    NoOne = NoOne
    MemoryTypeOf <- MCMemoryTypeOf
    Words <- MCWords
    Stopwords <- MCStopwords
    Relations <- MCRelations
    DigestRank <- MCDigestRank
    Erased <- MCErased
    Queries <- MCQueries
    MaxRecords = 4
    MaxLeaves = 9
INVARIANTS
    ProofsBind
    SuccessorsExact
    MadeByReach
    ScanExact
CHECK_DEADLOCK FALSE
