CONSTANTS
    Clients = {c1, c2}
    Mgr = mgr
    Blocks = {0, 1}
    Blank = blank
    Policy = "SSTF"
    NonPreemptible = {"suspend"}
    MainWaits = TRUE
    MaxOps = 1
SPECIFICATION Spec
INVARIANT NeverCrashes
CHECK_DEADLOCK FALSE
