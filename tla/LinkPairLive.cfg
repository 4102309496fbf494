CONSTANTS
    DrainRequired = FALSE
    AckTimer = TRUE
    MaxRetries = 1
    SeqMax = 1
    SinkResults = {"STARTED"}
    RxMax = 1
    LineMax = 2
    Faults = 1
    Restarts = 0
    Reordering = FALSE
    Requests = 2
SPECIFICATION LivePairSpec
PROPERTY EveryRequestSettles
CHECK_DEADLOCK FALSE
