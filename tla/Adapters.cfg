SPECIFICATION Spec
CONSTANTS
    DmaRing = 1
    UsbRoom = 1
    IrqFifo = 2
    IrqRing = 1
    PollFifo = 2
    PollRing = 2
    PollBatch = 2
    UdpRoom = 1
    UdpBudget = 2
    AsioRoom = 1
    AsioBudget = 2
    SerialRing = 2
    HostRoom = 1
    LoopRoom = 1
    PacketSlots = 1
    KernelCalls = 2
    KernelReplies = 1
    DmaPlans <- MCDmaPlans
    UsbPlans <- MCUsbPlans
    IrqPlans <- MCIrqPlans
    PollPlans <- MCPollPlans
    UdpPlans <- MCUdpPlans
    AsioPlans <- MCAsioPlans
    SerialPlans <- MCSerialPlans
    HostPlans <- MCHostPlans
    LoopPlans <- MCLoopPlans
    KernelPlans <- MCKernelPlans
INVARIANTS
    RxFaithful
    TxSettledOnce
    DetachedIsQuiet
    AdapterAwake
    CallEndsOnce
CHECK_DEADLOCK FALSE
