CONSTANTS
    Clients = {c1}
    Blocks = {0, 1, 2, 3}
    Policy = "CSCAN"
    MaxQueue = 4
SPECIFICATION SSpec
INVARIANTS LoopsAgree OneWrapPerWait
PROPERTY NothingPassedOver
