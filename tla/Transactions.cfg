CONSTANTS
    Scenarios = {"oldest", "trxs", "rceids", "alloc", "detach", "notimeout", "shutdown"}
    s1 = s1
    s2 = s2
    w1 = w1
    w2 = w2
    g = g
    d = d
    t = t
    db1 = db1
    db2 = db2
    Session = {s1, s2}
    Signaller = {g}
    Worker = {w1, w2}
    Detacher = {d}
    Terminator = {t}
    Db = {db1, db2}
    crceBucket = 2
    cbucketMost = 3
    cbucketAllowed = 1
    crceMax = 5
    fTimeouts = TRUE
    TrxSession = {s1, s2}
    Caller = {w1, w2}
    cProcs = 2
    trxInfinite = 30
    trxLast = 4
    trxHalf = 20
    trxFirst = 28
    trxEnd = 100
    rceidHalf = 12
    rceidFirst = 15
    rceidEnd = 61
SPECIFICATION MCFairSpec
CHECK_DEADLOCK FALSE
INVARIANT OldestSound
INVARIANT TrxOrder
INVARIANT ChainInOrder
INVARIANT BucketsSound
PROPERTY ReturnsOldest
PROPERTY DetachLeavesNone
PROPERTY AllocEnds
PROPERTY TermEnds
