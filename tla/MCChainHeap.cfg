SPECIFICATION HeapSpec
CONSTANTS
    NULL = NULL
    Stale = Stale
    NoTable = NoTable
    Wild = Wild
    NoFile = NoFile
    bucket = bucket
    Keys <- MCKeys
    Addresses <- MCAddresses
INVARIANT
    ChainInOrder
PROPERTY
    Refines
