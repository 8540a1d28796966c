SPECIFICATION StoreSpec
CONSTANTS
    t1 = t1
    t2 = t2
    t3 = t3
    u1 = u1
    NULL = NULL
    Stale = Stale
    NoTable = NoTable
    Wild = Wild
    NoFile = NoFile
    Malformed = Malformed
    NoTuple = NoTuple
    System = FALSE
    MaxSlots = 3
    Keys <- MCKeys
    Buckets <- MCBuckets
    hash <- MCHash
    Tuples <- MCTuples
    stored <- MCStored
    text <- MCText
    Conditions <- MCConditions
    Assignments <- MCAssignments
INVARIANTS
    TypeOK
    DistinctTuples
    IndexCovers
    IndexExact
    UpdateSparesItsOwn
PROPERTIES
    InsertIsUnion
    UpdateIsExact
    CompactKeepsTuples
    ImplementsSet
