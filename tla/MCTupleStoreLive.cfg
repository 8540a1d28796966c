SPECIFICATION FairSpec
CONSTANTS
    t1 = t1
    t2 = t2
    u1 = u1
    NULL = NULL
    Stale = Stale
    NoTable = NoTable
    Wild = Wild
    NoFile = NoFile
    Malformed = Malformed
    NoTuple = NoTuple
    System = TRUE
    MaxSlots = 2
    Keys <- MCKeys
    Buckets <- MCBuckets
    hash <- MCHash
    Tuples <- MCTuples
    stored <- MCStored
    text <- MCText
    Conditions <- MCConditions
    Assignments <- MCAssignments
INVARIANT
    IndexCovers
PROPERTY
    ScanEnds
