SPECIFICATION MCSpec
CHECK_DEADLOCK FALSE
SYMMETRY Symmetry
CONSTANTS
    Scenarios = {"cleanup", "nested", "create", "readers", "locks", "nodes"}
    Session = {s1, s2, s3}
    Node = {n1, n2}
    Data = {1}
    DeltaBy = {1}
    Ops = {}
    trxMax = 24
    trxLast = 20
    levelMax = 2
    rceidMax = 3
    QuietClean = TRUE
INVARIANT VersionsSound
PROPERTY CleansOnlyOld
PROPERTY ImplementsSI
