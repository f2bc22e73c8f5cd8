CONSTANTS
    Clients = {c1, c2}
    Mgr = mgr
    Blocks = {0, 1}
    Blank = blank
    Policy = "SSTF"
    NonPreemptible = {"link", "suspend"}
    MainWaits = TRUE
    MaxOps = 2
SPECIFICATION Spec
INVARIANT OwnRequestDone
CHECK_DEADLOCK FALSE
