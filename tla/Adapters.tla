------------------------------ MODULE Adapters ------------------------------
(***************************************************************************)
(* Every transport adapter, and the static kernel over its packet port, in *)
(* one specification: a behaviour picks one of them and runs it.  Adapters *)
(* differ in their drivers, threads and interrupts, and owe their link the *)
(* same four things, which are stated once, below.                         *)
(***************************************************************************)
EXTENDS UartDma, UsbBulk, Uart, Udp, HostPorts, Kernel

Init ==
    \/ DmaInit \/ UsbInit \/ IrqInit \/ PollInit \/ UdpInit
    \/ AsioInit \/ SerialInit \/ HostInit \/ LoopInit \/ KernelInit

Next ==
    \/ port.kind = "dma"    /\ DmaNext
    \/ port.kind = "usb"    /\ UsbNext
    \/ port.kind = "irq"    /\ IrqNext
    \/ port.kind = "poll"   /\ PollNext
    \/ port.kind = "udp"    /\ UdpNext
    \/ port.kind = "asio"   /\ AsioNext
    \/ port.kind = "serial" /\ SerialNext
    \/ port.kind = "host"   /\ HostNext
    \/ port.kind = "loop"   /\ LoopNext
    \/ port.kind = "kernel" /\ KernelNext

Spec == Init /\ [][Next]_port

----------------------------------------------------------------------------
\* What the link is given is what arrived, in order and each piece once, whatever the
\* interrupts, callbacks, pauses, aborts and restarts between: a piece may be missing only
\* where the adapter's way of telling of a loss (wl_rx_note_overflow, a stopped receiver, a
\* refused unit) says so, and nothing torn, foreign or out of turn is ever handed over.
RxFaithful ==
    CASE port.kind = "dma"    -> DmaStreamOk
      [] port.kind = "usb"    -> UsbRxOk
      [] port.kind = "irq"    -> IrqRxOk
      [] port.kind = "poll"   -> PollRxOk
      [] port.kind = "udp"    -> UdpRxOk
      [] port.kind = "asio"   -> AsioRxOk
      [] port.kind = "serial" -> SerialRxOk
      [] port.kind = "host"   -> HostRxOk
      [] port.kind = "loop"   -> LoopRxOk
      [] port.kind = "kernel" -> KernelRxOk

\* The memory of a unit the link lent (wl_tx_consumed, wl_tx_drained): its return is reported
\* exactly once, never while the driver still reads the bytes, and a unit whose return has
\* not been reported has somebody who will bring the report on.
TxSettledOnce ==
    /\ ~port.twice
    /\ port.dtx => port.unit = "lent"
    /\ port.kind = "dma"    => DmaUnitOk
    /\ port.kind = "usb"    => UsbTxOk
    /\ port.kind = "irq"    => IrqTxOk
    /\ port.kind = "loop"   => LoopTxOk
    /\ port.kind = "kernel" => KernelTxOk

\* Once an adapter has let go of its link (its stop, quiesce or close has returned), no driver,
\* thread or interrupt can touch the link's memory any more and every lent unit is settled; a
\* quiescent kernel owes no call an outcome.
DetachedIsQuiet ==
    /\ port.closed => port.unit = "none" /\ ~port.dtx
    /\ port.kind = "dma"    => DmaQuietOk
    /\ port.kind = "irq"    => IrqQuietOk
    /\ port.kind = "poll"   => PollQuietOk
    /\ port.kind = "serial" => SerialQuietOk
    /\ port.kind = "host"   => HostQuietOk
    /\ port.kind = "loop"   => LoopQuietOk
    /\ port.kind = "kernel" => KernelQuietOk

\* An owner that finds nothing to run (the readiness functions) and goes to sleep has missed
\* nothing: input it could take, a completion, a retry or a restart it owes always leaves it
\* runnable, woken, or waiting for an event that is still to come.
AdapterAwake ==
    CASE port.kind = "dma"    -> DmaAwake
      [] port.kind = "usb"    -> UsbAwake
      [] port.kind = "irq"    -> IrqAwake
      [] port.kind = "poll"   -> PollAwake
      [] port.kind = "udp"    -> UdpAwake /\ UdpBusyOk
      [] port.kind = "asio"   -> AsioAwake
      [] port.kind = "serial" -> SerialAwake
      [] port.kind = "host"   -> HostAwake
      [] port.kind = "loop"   -> LoopTurnOk
      [] port.kind = "kernel" -> KernelAwake

\* Every call of the static kernel ends exactly once, however cancellation, deadline, transmit
\* error, close and a late or repeated response race, and however its slot and its request
\* frame are reused by a call started from a callback; it ends with an answer only if the
\* peer answered that very operation.
CallEndsOnce == port.kind = "kernel" => KernelCallOk

\* A link whose sink answered BUSY is told when to try again: by the retry the adapter has
\* scheduled, by the socket it watches, or, as long as the peer is unknown, by whoever
\* makes it known (include/wirelink/port.h: "Publish transport writable after a BUSY
\* response").
BusyIsRetried ==
    port.blocked /\ ~port.closed =>
        /\ port.kind = "dma" /\ port.started => port.retry
        /\ port.kind = "asio" => port.txBlocked \/ port.peer = "none"

\* A UART DMA port that has stopped has reported the end of every transmission it accepted,
\* drained included, so that the link may transmit again after a restart
\* (docs/adapters.md: "UART DMA stop waits for actual RX buffer returns and TX completion").
StopSettlesTx == port.kind = "dma" /\ ~port.started /\ ~port.stopping => port.unit = "none"
=============================================================================
