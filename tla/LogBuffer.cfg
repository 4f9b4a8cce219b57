CONSTANTS
    Scenarios = {"shared", "crash", "flushes", "room", "lazy"}
    Session = {s1, s2}
    s2 = s2
    task = task
    lazy = lazy
    After = {"none", "flush", "lazy"}
    cbSec = 2
    csecLGBuf = 3
    csecFile = 3
    Size = {1, 3}
    cbIgnored = 2
    NewGen = {TRUE, FALSE}
    cbMax = 6
    ccrashMax = 2
    fFaults = TRUE
    fTearShadow = FALSE
SPECIFICATION MCFairSpec
CHECK_DEADLOCK FALSE
INVARIANT LogDurable
INVARIANT BufferSound
PROPERTY CallsEnd
PROPERTY LazyWritten
