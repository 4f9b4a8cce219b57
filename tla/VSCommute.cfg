SPECIFICATION Spec
CHECK_DEADLOCK FALSE
INVARIANT CommuteAlike
CONSTANTS
    Session = {s1, s2}
    Node = {n1}
    Data = {1}
    DeltaBy = {1}
    Ops = {"Delta", "ReadLock"}
    trxMax = 36
    trxLast = 32
    levelMax = 1
    rceidMax = 4
    QuietClean = TRUE
