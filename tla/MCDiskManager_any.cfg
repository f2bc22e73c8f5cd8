CONSTANTS
    Clients = {c1, c2}
    Mgr = mgr
    Blocks = {0, 1}
    Blank = blank
    Policy = "SSTF"
    NonPreemptible = {}
    MainWaits = FALSE
    MaxOps = 2
SPECIFICATION Spec
SYMMETRY Symmetric
INVARIANTS TypeOK LivreTracksDriver CommandAccepted PickStays QueueMutex NoRequestLost ReportNeverExceeds
PROPERTIES ImplementsArm ImplementsQueues
CHECK_DEADLOCK FALSE
