CONSTANTS
    Envelope = "NATIVE"
    DrainRequired = TRUE
    AckTimer = TRUE
    MaxRetries = 1
    SeqMax = 1
    GenMax = 1
    ComplMax = 1
    RxMax = 1
    SinkResults <- AnyAnswer
    Session = 1
    RxFrames <- AckAndBothData
SPECIFICATION SchedSpec
INVARIANTS
    PhysicalExclusive
    RetransmitFaithful
PROPERTIES
    LeasedBytesStable
CHECK_DEADLOCK FALSE
