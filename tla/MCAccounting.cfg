CONSTANTS
    UserTasks = {t2, t3, t4}
    System = System
    MaxTime = 4
    MaxActivations = 2
SYMMETRY Symmetry
SPECIFICATION Spec
INVARIANTS TypeOK NoTickTwice WithinLifetime LostToOne
CHECK_DEADLOCK FALSE
