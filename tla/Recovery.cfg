CONSTANTS
    Scenarios = {"lazy", "shared", "pages", "crashes", "waypoints"}
    n1 = n1
    n2 = n2
    n3 = n3
    p1 = p1
    p2 = p2
    NSession = 2
    Node = {n1, n2, n3}
    Page = {p1, p2}
    PageOf <- TwoPages
    Loaded = {n1}
    MaxLog = 6
    MaxUpdate = 2
    MaxCrash = 2
    LazyAllowed = TRUE
    LosesLogs = FALSE
SPECIFICATION MCFairSpec
CHECK_DEADLOCK FALSE
INVARIANT RecoveredState
INVARIANT RecoveryReliable
INVARIANT AckedDurable
PROPERTY RecoveryDone
