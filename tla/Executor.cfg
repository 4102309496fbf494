SPECIFICATION SessionSpec
CONSTANTS
    ServiceCount = 1
    SessionMax = 1
    Thread = {t1, t2}
    Adapter = adapter
    NoJob = none
    JobSlots = 2
    CommandCap = 1
    DispatchBudget = 1
    Plans <- MCPlans
CHECK_DEADLOCK FALSE
INVARIANTS
    NoLostWake
    ClosedIsQuiet
    ReleaseReachesClient
PROPERTY
    EveryoneReturns
