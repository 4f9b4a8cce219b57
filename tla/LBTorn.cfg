CONSTANTS
    Session = {s1}
    task = task
    lazy = lazy
    After = {"flush"}
    cbSec = 3
    csecLGBuf = 3
    csecFile = 2
    Size = {1, 2}
    cbIgnored = 2
    NewGen = {FALSE}
    cbMax = 3
    ccrashMax = 0
    fFaults = FALSE
    fTearShadow = TRUE
SPECIFICATION Spec
INVARIANT TornSegmentRepaired
CHECK_DEADLOCK FALSE
