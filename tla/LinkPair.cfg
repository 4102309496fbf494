CONSTANTS
    DrainRequired = FALSE
    AckTimer = TRUE
    MaxRetries = 1
    SeqMax = 2
    SinkResults = {"SENT"}
    RxMax = 1
    LineMax = 2
    Faults = 2
    Restarts = 1
    Reordering = FALSE
    Requests = 3
SPECIFICATION PairSpec
PROPERTY DeliveryImplemented
CHECK_DEADLOCK FALSE
