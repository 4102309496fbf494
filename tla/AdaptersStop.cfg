SPECIFICATION Spec
CONSTANTS
    DmaRing = 1
    UsbRoom = 1
    IrqFifo = 2
    IrqRing = 1
    PollFifo = 2
    PollRing = 1
    PollBatch = 1
    UdpRoom = 1
    UdpBudget = 2
    AsioRoom = 1
    AsioBudget = 2
    SerialRing = 2
    HostRoom = 1
    LoopRoom = 1
    PacketSlots = 1
    KernelCalls = 2
    KernelReplies = 1
    DmaPlans <- MCDmaStops
    UsbPlans <- NoPlans
    IrqPlans <- NoPlans
    PollPlans <- NoPlans
    UdpPlans <- NoPlans
    AsioPlans <- NoPlans
    SerialPlans <- NoPlans
    HostPlans <- NoPlans
    LoopPlans <- NoPlans
    KernelPlans <- NoPlans
INVARIANT StopSettlesTx
CHECK_DEADLOCK FALSE
