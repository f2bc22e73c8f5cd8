CONSTANTS
    Clients = {c1, c2}
    Mgr = mgr
    Blocks = {0, 1}
    Blank = blank
    Policy = "FCFS"
    NonPreemptible = {"suspend"}
    MainWaits = TRUE
    MaxOps = 2
SPECIFICATION FairSpec
INVARIANTS OwnRequestDone WakeupsBalance
PROPERTIES ImplementsService EveryCallReturns ManagerExits
CHECK_DEADLOCK FALSE
