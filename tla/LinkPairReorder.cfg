CONSTANTS
    DrainRequired = FALSE
    AckTimer = TRUE
    MaxRetries = 1
    SeqMax = 2
    SinkResults = {"SENT"}
    RxMax = 1
    LineMax = 2
    Faults = 0
    Restarts = 0
    Reordering = TRUE
    Requests = 2
SPECIFICATION PairSpec
INVARIANT DeliveredOnce
CHECK_DEADLOCK FALSE
