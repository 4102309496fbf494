CONSTANTS
    Envelope = "COBS"
    DrainRequired = FALSE
    AckTimer = TRUE
    MaxRetries = 1
    SeqMax = 2
    GenMax = 2
    ComplMax = 1
    RxMax = 1
    SinkResults <- Asynchronous
    Session = 1
    RxFrames <- AcksAndData
SPECIFICATION SchedSpec
INVARIANTS
    SendingIsCarried
PROPERTIES
    SettledIsFinal
    NoSpin
    SleepIsSafe
CHECK_DEADLOCK FALSE
