------------------------------ MODULE UartDma ------------------------------
(***************************************************************************)
(* The Zephyr UART DMA adapter (src/adapters/zephyr/uart_dma/src/          *)
(* uart_dma.c): two staging buffers circulate between the UART driver, the *)
(* adapter and the receive ring of the link; the driver's callbacks        *)
(* interrupt the owner anywhere between two steps of its service.          *)
(*                                                                         *)
(* The driver (external) holds a buffer and a look-ahead one and queues    *)
(* its events in evq.  Slot orders are kept as the queue of armed slots.   *)
(* A behaviour follows one plan: the buffer length, and how many bytes,    *)
(* units and line errors come.                                             *)
(***************************************************************************)
EXTENDS Port

CONSTANTS DmaRing,     \* bytes the link's ring holds
          DmaPlans     \* records: drains (wait_for_tx_idle), patient (nobody stops
                       \* the port while the line drains), and the bounds len, bytes,
                       \* sends, faults

DmaSlot == {1, 2}
EmptySlot == [bytes |-> << >>, fwd |-> 0, own |-> FALSE, rel |-> FALSE]

DmaInit ==
    \E plan \in DmaPlans :
    port = LinkSide @@
      [kind |-> "dma", plan |-> plan, slots |-> [s \in DmaSlot |-> EmptySlot], queue |-> << >>,
       request |-> FALSE, started |-> FALSE, stopping |-> FALSE, running |-> FALSE,
       paused |-> FALSE, expected |-> FALSE, abort |-> FALSE, abortAsked |-> FALSE,
       barrier |-> FALSE, gap |-> FALSE, pending |-> FALSE, wake |-> FALSE, txActive |-> FALSE,
       completion |-> "none", token |-> FALSE, drain |-> FALSE, retry |-> FALSE, opc |-> "idle",
       armed |-> 0, sink |-> TRUE,
       on |-> FALSE, cur |-> 0, next |-> 0, evq |-> << >>,
       arrived |-> 0, sends |-> 0, faults |-> 0, ring |-> 0]

----------------------------------------------------------------------------
(* Receive slots, under rx_lock.                                           *)

Waiting(d, s) == d.slots[s].fwd < Len(d.slots[s].bytes)
ResetSlot(d, s) ==
    [d EXCEPT !.slots[s] = EmptySlot, !.queue = SelectSeq(@, LAMBDA q : q # s)]
ResetSlots(d) == [d EXCEPT !.slots = [s \in DmaSlot |-> EmptySlot], !.queue = << >>]

\* retire_forwarded_slots
RetireForwarded(d) ==
    LET Done(s) == d.slots[s].rel /\ ~Waiting(d, s)
    IN [d EXCEPT !.queue = SelectSeq(@, LAMBDA s : ~Done(s)),
                 !.slots = [s \in DmaSlot |-> IF Done(s) THEN EmptySlot ELSE @[s]]]

\* oldest_pending_slot, one byte of it copied into the ring
OldestPending(d) ==
    {s \in DmaSlot : Waiting(d, s) /\ \A r \in DmaSlot \ {s} : Waiting(d, r) => d.queue[1] = s}
ForwardByte(d) ==
    IF OldestPending(d) = {} \/ d.ring = DmaRing THEN d
    ELSE LET s == CHOOSE x \in OldestPending(d) : TRUE
         IN RetireForwarded([d EXCEPT !.slots[s].fwd = @ + 1, !.ring = @ + 1,
                                      !.stream = Append(@, d.slots[s].bytes[d.slots[s].fwd + 1])])

\* drain_ready_slots_locked: as much as the ring takes; nothing once stopping
DrainSlots(d) ==
    IF d.stopping THEN d
    ELSE FoldLeft(LAMBDA x, i : ForwardByte(x), RetireForwarded(d), [i \in 1 .. 2 * d.plan.len |-> i])
Blocked(d) == \E s \in DmaSlot : Waiting(d, s)

FreeDmaSlots(d) == DmaSlot \ Range(d.queue)
NextFree(d) == CHOOSE s \in FreeDmaSlots(d) : \A r \in FreeDmaSlots(d) : s <= r
\* arm_free_slot_locked
ArmSlot(d) ==
    LET s == NextFree(d)
    IN [d EXCEPT !.slots[s] = [EmptySlot EXCEPT !.own = TRUE], !.queue = Append(@, s), !.armed = s]

MarkAbort(d) == [d EXCEPT !.abort = TRUE]

\* submit_requested_buffer: its critical section, then the answer to the driver
Unasked(d) == ~d.request \/ d.stopping \/ d.abort
Requested(d) ==
    LET r == RetireForwarded(d) IN
    IF FreeDmaSlots(r) = {} THEN [r EXCEPT !.paused = TRUE, !.armed = 0]
    ELSE [ArmSlot(r) EXCEPT !.request = FALSE]
DriverTakes(d) == d.on /\ d.next = 0
Responded(d) ==
    IF DriverTakes(d) THEN [d EXCEPT !.next = d.armed] ELSE MarkAbort(ResetSlot(d, d.armed))

\* the same within one callback
SubmitRequested(d) ==
    IF Unasked(d) THEN d
    ELSE LET r == Requested(d) IN
         IF r.armed = 0 THEN r
         ELSE IF DriverTakes(r) THEN [Responded(r) EXCEPT !.paused = FALSE] ELSE Responded(r)
SubmitFails(d) == ~Unasked(d) /\ (Requested(d).armed = 0 \/ ~DriverTakes(Requested(d)))

----------------------------------------------------------------------------
(* The driver (external) and the adapter's callback.  dma_dispatch drops   *)
(* an event of an adapter that is detached, and wakes the owner otherwise. *)

Woken(d) == [d EXCEPT !.pending = TRUE, !.wake = TRUE]
Callback(d, after) == port' = IF d.closed THEN d ELSE Woken(after)

\* UART_RX_RDY: one more byte of the driver's current buffer
OnReady(d, s, b) == SubmitRequested(DrainSlots([d EXCEPT !.slots[s].bytes = Append(@, b)]))

\* UART_RX_BUF_REQUEST
OnRequest(d) ==
    IF d.stopping THEN [d EXCEPT !.expected = TRUE]
    ELSE LET r == [d EXCEPT !.request = TRUE] IN
         IF SubmitFails(r) THEN [SubmitRequested(r) EXCEPT !.expected = TRUE, !.paused = TRUE]
         ELSE SubmitRequested(r)

\* UART_RX_BUF_RELEASED
OnReleased(d, s) ==
    IF s \notin Range(d.queue) THEN MarkAbort(d)
    ELSE SubmitRequested(DrainSlots([d EXCEPT !.slots[s].own = FALSE, !.slots[s].rel = TRUE]))

\* UART_RX_STOPPED
OnStopped(d) == IF d.stopping THEN d ELSE MarkAbort(d)

\* UART_RX_DISABLED: expected after a pause or a stop, an abort otherwise
OnDisabled(d) ==
    LET q == [d EXCEPT !.request = FALSE, !.running = FALSE] IN
    IF d.stopping THEN [q EXCEPT !.expected = FALSE]
    ELSE IF ~d.abort /\ ~(d.paused /\ d.expected) THEN MarkAbort(q)
    ELSE IF d.paused
    THEN [q EXCEPT !.gap = TRUE, !.expected = IF d.abort THEN @ ELSE FALSE]
    ELSE q

\* UART_TX_DONE, UART_TX_ABORTED
OnTxEvent(d, how) ==
    IF d.txActive /\ d.completion = "none" THEN [d EXCEPT !.completion = how] ELSE d

Handle(d, ev) ==
    CASE ev[1] = "request" -> OnRequest(d)
      [] ev[1] = "released" -> OnReleased(d, ev[2])
      [] ev[1] = "stopped" -> OnStopped(d)
      [] ev[1] = "disabled" -> OnDisabled(d)
      [] ev[1] = "aborted" -> OnTxEvent(d, "aborted")

\* the driver leaves reception: it gives its buffers back and says so
Leaving(d) ==
    LET Back(s) == IF s = 0 THEN << >> ELSE << <<"released", s>> >>
    IN [d EXCEPT !.on = FALSE, !.cur = 0, !.next = 0,
                 !.evq = @ \o Back(d.cur) \o Back(d.next) \o << <<"disabled", 0>> >>]

\* a byte arrives: stored and reported, or lost while the driver is off
DriverByte ==
    /\ port.evq = << >> /\ port.arrived < port.plan.bytes
    /\ LET d == [port EXCEPT !.arrived = @ + 1] IN
       IF ~d.on THEN port' = d
       ELSE LET full == Len(d.slots[d.cur].bytes) + 1 = d.plan.len
                moved == IF ~full THEN d
                         ELSE IF d.next = 0 THEN Leaving(d)
                         ELSE [d EXCEPT !.cur = d.next, !.next = 0,
                                        !.evq = << <<"released", d.cur>>, <<"request", 0>> >>]
            IN Callback(d, OnReady(moved, d.cur, d.arrived))

DriverEvent ==
    /\ port.evq # << >>
    /\ LET d == [port EXCEPT !.evq = Tail(@)] IN Callback(d, Handle(d, Head(port.evq)))

\* a line error: the driver stops receiving on its own
DriverFails ==
    /\ port.on /\ port.evq = << >> /\ port.faults < port.plan.faults
    /\ port' = Leaving([port EXCEPT !.evq = << <<"stopped", 0>> >>, !.faults = @ + 1])

DriverSent ==
    /\ port.dtx /\ LET d == [port EXCEPT !.dtx = FALSE] IN Callback(d, OnTxEvent(d, "done"))

----------------------------------------------------------------------------
(* The owner: sink, service in its steps, stop, quiesce.                   *)

DmaOwner(at, d) == port.opc = at /\ port' = d
Return(d) == [d EXCEPT !.opc = "idle"]

\* uart_dma_sink: the driver takes the unit, refuses it for now, or fails
DmaSink ==
    /\ port.opc = "idle" /\ port.sink /\ port.started /\ ~port.stopping
    /\ ~port.txActive /\ MayHand(port) /\ port.sends < port.plan.sends
    /\ LET d == [port EXCEPT !.sends = @ + 1] IN
       \/ port' = [d EXCEPT !.txActive = TRUE, !.token = TRUE, !.completion = "none", !.dtx = TRUE,
                           !.unit = "lent"]
       \/ port' = [d EXCEPT !.retry = TRUE, !.blocked = TRUE]
       \/ port' = d

\* wl_zephyr_uart_dma_readiness, its runnable part; a pending retry or drain check is due
\* as soon as time has passed
DmaRunnable(d) ==
    \/ d.pending \/ d.completion # "none" \/ d.retry \/ d.drain
    \/ LET owned == \E s \in DmaSlot : d.slots[s].own IN
       IF d.stopping THEN ~d.running /\ ~d.txActive /\ ~owned
       ELSE IF d.abort THEN ~d.running /\ ~owned
       ELSE d.ring < DmaRing /\ (Blocked(d) \/ (d.started /\ d.paused /\ ~d.running /\ d.queue = << >>))

\* wl_zephyr_uart_dma_service: acknowledge, report a transmission, then look at reception
ServiceBegin ==
    /\ DmaRunnable(port)
    /\ \E due \in IF port.retry THEN BOOLEAN ELSE {FALSE} :
         LET d == IF due THEN [Writable(port) EXCEPT !.retry = FALSE] ELSE port
         IN DmaOwner("idle", [d EXCEPT !.wake = FALSE, !.pending = FALSE, !.opc = "tx"])

\* service_tx_completion: the memory comes back, then (when the port waits for an idle
\* line) the line does; a stop does not wait for the line.  The drain is reported with the
\* token the adapter still has; a refused report ends the service.
Completed(d) ==
    LET c == [d EXCEPT !.completion = "none"] IN
    IF d.completion = "none" THEN d
    ELSE IF d.completion = "done" /\ d.plan.drains /\ ~d.stopping
         THEN [Consumed(c, TRUE) EXCEPT !.drain = TRUE]
         ELSE [Consumed(c, FALSE) EXCEPT !.txActive = FALSE, !.token = FALSE]
DrainReport(d) ==
    LET r == IF d.token THEN Drained(d) ELSE [d EXCEPT !.twice = TRUE]
    IN [r EXCEPT !.drain = FALSE, !.txActive = FALSE, !.token = FALSE]
ServiceTx ==
    LET c == Completed(port)
        After(d) == [d EXCEPT !.opc = IF d.twice /\ ~port.twice THEN "idle" ELSE "rx"] IN
    \/ DmaOwner("tx", After(c)) /\ (c.drain => ~c.stopping)
    \/ DmaOwner("tx", After(DrainReport(c))) /\ c.drain

OwnedByDriver(d) == \E s \in DmaSlot : d.slots[s].own

\* a stop is complete once the driver holds nothing; a service before that changes nothing
StopsAtOnce(d) == ~d.running /\ ~d.txActive
MayFinishStop(d) == ~d.running /\ ~d.txActive /\ ~OwnedByDriver(d)
ServiceStop ==
    /\ port.stopping
    /\ DmaOwner("rx",
         IF MayFinishStop(port)
         THEN [ResetSlots(port) EXCEPT !.request = FALSE, !.stream = Append(@, -1),
                 !.abort = FALSE, !.abortAsked = FALSE, !.barrier = FALSE, !.gap = FALSE,
                 !.retry = FALSE, !.started = FALSE, !.stopping = FALSE, !.paused = FALSE,
                 !.expected = FALSE, !.opc = "idle"]
         ELSE Return(port))

\* uart_rx_disable: EFAULT when the driver is off already
Disable(d) == IF d.on THEN Leaving(d) ELSE [d EXCEPT !.running = FALSE]

\* an abort: leave reception, wait for the buffers, then note the gap and start afresh
ServiceAbort ==
    /\ ~port.stopping /\ port.abort
    /\ DmaOwner("rx",
         IF port.running
         THEN Return(IF port.abortAsked THEN port ELSE Disable([port EXCEPT !.abortAsked = TRUE]))
         ELSE IF OwnedByDriver(port) THEN Return(port)
         ELSE [NoteOverflow(ResetSlots(port)) EXCEPT !.request = FALSE, !.abort = FALSE,
                 !.abortAsked = FALSE, !.expected = FALSE, !.paused = TRUE, !.barrier = TRUE,
                 !.pending = TRUE, !.opc = "idle"])

\* forward what is staged; answer the driver's request in three steps, as a callback may
\* come between each
ServiceDrain ==
    /\ ~port.stopping /\ ~port.abort
    /\ LET d == DrainSlots(port) IN
       DmaOwner("rx", [d EXCEPT !.opc = IF Blocked(d) \/ ~d.running THEN "tail" ELSE "arm"])

ServiceArm ==
    IF Unasked(port) THEN DmaOwner("arm", [port EXCEPT !.opc = "tail"])
    ELSE LET r == Requested(port) IN
         DmaOwner("arm", [r EXCEPT !.opc = IF r.armed = 0 THEN "tail" ELSE "respond"])

ServiceRespond ==
    DmaOwner("respond",
        [Responded(port) EXCEPT !.opc = IF DriverTakes(port) THEN "resume" ELSE "idle"])

ServiceResume == DmaOwner("resume", [port EXCEPT !.paused = FALSE, !.opc = "tail"])

\* start_rx: the driver may ask for its look-ahead buffer at once, or refuse to start
StartRx(d) ==
    LET a == ArmSlot([d EXCEPT !.paused = FALSE, !.expected = FALSE, !.gap = FALSE])
    IN {[a EXCEPT !.running = TRUE, !.on = TRUE, !.cur = a.armed,
                  !.evq = Append(@, <<"request", 0>>)],
        [ResetSlots(a) EXCEPT !.paused = TRUE, !.request = FALSE]}

\* the end of a service: a barrier passes, and paused reception starts again once every
\* staged byte is forwarded and the gap is noted
ServiceTail ==
    /\ port.opc = "tail"
    /\ \/ port.barrier /\ port' = Return([port EXCEPT !.barrier = FALSE])
       \/ /\ ~port.barrier /\ ~(port.started /\ ~port.running /\ port.paused /\ port.queue = << >>)
          /\ port' = Return(port)
       \/ /\ ~port.barrier /\ port.started /\ ~port.running /\ port.paused /\ port.queue = << >>
          /\ IF port.gap
             THEN port' = [NoteOverflow(port) EXCEPT !.gap = FALSE, !.barrier = TRUE,
                            !.pending = TRUE, !.opc = "idle"]
             ELSE \E d \in StartRx(port) : port' = Return(d)

\* wl_zephyr_uart_dma_start
DmaStart ==
    /\ port.opc = "idle" /\ ~port.started /\ ~port.stopping /\ ~port.closed /\ port.sink
    /\ port.queue = << >> /\ ~port.running
    /\ \E d \in StartRx(port) : port' = [d EXCEPT !.started = d.running]

\* wl_zephyr_uart_dma_stop marks, then tells the driver; quiesce takes the sink away first
Stopping(d) ==
    IF ~d.started /\ ~d.stopping THEN d
    ELSE [d EXCEPT !.stopping = TRUE, !.paused = FALSE, !.expected = TRUE,
                   !.request = FALSE, !.opc = "stop"]
DmaStop ==
    /\ port.opc = "idle" /\ port.started /\ port.sink /\ -1 \notin Range(port.stream)   \* bound: once
    /\ port.plan.patient => ~port.drain
    /\ port' = Stopping(port)
DmaQuiesce ==
    /\ port.opc = "idle" /\ port.sink /\ (port.plan.patient => ~port.drain)
    /\ port' = Stopping([port EXCEPT !.sink = FALSE])
StopDriver ==
    LET r == IF port.running THEN Disable(port) ELSE port
        t == IF ~r.txActive \/ r.completion # "none" THEN r
             ELSE IF r.dtx THEN [r EXCEPT !.dtx = FALSE, !.evq = Append(@, <<"aborted", 0>>)]
             ELSE [r EXCEPT !.completion = "aborted"]
    IN DmaOwner("stop", [Woken(t) EXCEPT !.opc = "idle"])

\* the loop of quiesce ends; the callback is taken down
DmaDetach ==
    /\ port.opc = "idle" /\ ~port.sink /\ ~port.started /\ ~port.stopping /\ ~port.closed
    /\ port' = [port EXCEPT !.closed = TRUE]

\* the link reads its ring
RingRead == port.ring > 0 /\ port' = [port EXCEPT !.ring = 0]

DmaNext ==
    \/ DriverByte \/ DriverEvent \/ DriverFails \/ DriverSent
    \/ DmaSink \/ ServiceBegin \/ ServiceTx \/ ServiceStop \/ ServiceAbort \/ ServiceDrain
    \/ ServiceArm \/ ServiceRespond \/ ServiceResume \/ ServiceTail
    \/ DmaStart \/ DmaStop \/ DmaQuiesce \/ StopDriver \/ DmaDetach \/ RingRead

----------------------------------------------------------------------------
(* What the adapter owes.                                                  *)

\* the link is given the bytes in order, and a missing one only behind a noted overflow or
\* a stop
DmaStreamOk ==
    LET bytes == SelectSeq(port.stream, LAMBDA b : b > 0) IN
    /\ \A i \in 1 .. Len(bytes) - 1 : bytes[i] < bytes[i + 1]
    /\ \A i \in 1 .. Len(port.stream) - 1 :
         port.stream[i] > 0 /\ port.stream[i + 1] > 0 => port.stream[i + 1] = port.stream[i] + 1

\* the link's unit is out exactly as long as the adapter owes its report, and the driver
\* or a queued event will bring the report on
DmaUnitOk ==
    /\ (port.unit # "none") <=> port.txActive
    /\ (port.unit = "draining") <=> port.drain
    /\ port.unit = "lent" /\ port.completion = "none" =>
         port.dtx \/ (\E i \in 1 .. Len(port.evq) : port.evq[i][1] = "aborted")

\* nothing of a detached adapter is still in the driver's hands
DmaQuietOk ==
    port.closed => ~port.dtx /\ port.cur = 0 /\ port.next = 0 /\ port.unit = "none"
                    /\ ~OwnedByDriver(port)

\* The pause of a receiver that the driver has left was overwritten: both buffers filled and
\* the driver left between the owner's answer to it (uart_dma.c:203) and the store that ends
\* the previous pause (uart_dma.c:212).  Nothing restarts such a receiver.
PauseLost == port.gap /\ ~port.paused /\ ~port.running

\* an owner with nothing to run waits for somebody: the driver is receiving or sending,
\* has an event queued, or the link's ring must be read first; a lost pause is the exception
DmaAwake ==
    port.opc = "idle" /\ (port.started \/ port.stopping) /\ ~DmaRunnable(port) =>
        port.on \/ port.dtx \/ port.evq # << >> \/ port.ring > 0 \/ PauseLost
=============================================================================
