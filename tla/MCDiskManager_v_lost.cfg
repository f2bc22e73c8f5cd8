CONSTANTS
    Clients = {c1, c2}
    Mgr = mgr
    Blocks = {0, 1}
    Blank = blank
    Policy = "FCFS"
    NonPreemptible = {}
    MainWaits = TRUE
    MaxOps = 1
SPECIFICATION FairSpec
PROPERTY EveryCallReturns
CHECK_DEADLOCK FALSE
