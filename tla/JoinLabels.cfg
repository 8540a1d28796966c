SPECIFICATION Spec
CONSTANTS
    a = a
    b = b
    c = c
    d = d
    e = e
    f = f
    g = g
    dd = dd
    none = none
    p1 = p1
    p2 = p2
    ax = ax
    ay = ay
    az = az
    id = id
    fid = fid
    ak = ak
    aw = aw
    name = name
    num = num
    h = h
    Fragment = Fragment
    NULL = NULL
    Internal = dd
    status_productjoin = FALSE
    MaxQueries = 1
    within <- MCWithin
    relship <- MCRelship
    Queries <- MCQueries
    BaseRelations <- MCBaseRelations
CHECK_DEADLOCK FALSE
INVARIANTS
    JoinKeepsLabels
