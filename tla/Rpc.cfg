CONSTANTS
    CallSlot = {1, 2}
    OpMax = 2
    HandleMax = 3
    PendingSlot = {1, 2}
    CacheSlot = {1}
    CorrelateSlot = {2, 3}
    NoIdentity = NoIdentity
    EvictOldest = TRUE
    Method = {"REL", "UNREL"}
    SessionMax = 2
    ExecMax = 2
    Part = {"client", "server", "pair"}
    PairCalls = 1
SPECIFICATION MCSpec
CHECK_DEADLOCK FALSE
INVARIANTS NotifiedOnce AnswerMatches AtMostOnce ReservedOwned NoOrphanTx
PROPERTY OwnTokenOnly
