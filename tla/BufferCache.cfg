CONSTANTS
    Scenarios = {"versions", "pages", "threads"}
    Page = {p1, p2}
    p2 = p2
    p1 = p1
    t3 = t3
    Buffer = {b1, b2, b3}
    Thread = {t1, t2, t3}
    Nil = Nil
    MaxUpdate = 3
    MayFail = TRUE
SPECIFICATION MCSpec
SYMMETRY Symmetry
INVARIANT SeesLatest
INVARIANT NoLostUpdate
INVARIANT CacheSound
PROPERTY StableWrite
PROPERTY DiskForward
