CONSTANTS
    Clients = {0, 1, 2}
    Blocks = {0, 1, 2, 3, 4, 5, 6, 7, 8, 9, 10, 11, 12}
    Blank = blank
    Char = char
    Idle = idle
    Policy = "FCFS"
    NonPreemptible = {"suspend"}
    NUMTASKS = 3
    numblocks = 13
SPECIFICATION Spec
INVARIANTS NothingLost DiskAtTheEnd
