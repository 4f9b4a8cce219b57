SPECIFICATION Spec
CHECK_DEADLOCK FALSE
PROPERTIES RollbackInvisible
CONSTANTS
    Session = {s1, s2}
    Node = {n1}
    Data = {1}
    DeltaBy = {1}
    Ops = {"Insert", "FlagDelete", "CreateIndex"}
    trxMax = 24
    trxLast = 20
    levelMax = 1
    rceidMax = 3
    QuietClean = TRUE
