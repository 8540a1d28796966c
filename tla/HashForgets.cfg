SPECIFICATION LedgerSpec
CONSTANTS
    b0 = b0
    b1 = b1
    NULL = NULL
    Stale = Stale
    NoTable = NoTable
    Wild = Wild
    NoFile = NoFile
    MaxOwed = 2
    Keys <- MCKeys
    Buckets <- MCBuckets
    hash <- MCHash
INVARIANT StoredIsFound
