CONSTANTS
    UserTasks = {2, 3, 4}
    PRIORITY_MAX <- MCMax
    PRIORITY_DEF = 0
    PRIORITY_MIN = 2
    QUANTUM_SIZE = 2
    PrioArgs <- MCPrios
    SetprioBudget = 1
    Overrun = 1
    MainYieldBudget = 1
SPECIFICATION OFairSpec
INVARIANTS TypeOK AgingOnlyHelps LosesCPUInTime BoundedOvertaking
PROPERTY NoStarvation
CHECK_DEADLOCK FALSE
