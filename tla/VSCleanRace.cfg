SPECIFICATION Spec
CHECK_DEADLOCK FALSE
PROPERTIES CleanupInvisible
CONSTANTS
    Session = {s1, s2}
    Node = {n1}
    Data = {1, 2}
    DeltaBy = {1}
    Ops = {"Replace", "Clean"}
    trxMax = 28
    trxLast = 24
    levelMax = 1
    rceidMax = 2
    QuietClean = FALSE
