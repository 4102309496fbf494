-------------------------------- MODULE Uart --------------------------------
(***************************************************************************)
(* The Zephyr interrupt-driven UART adapter (src/adapters/zephyr/uart_irq):*)
(* the interrupt callback moves bytes between the UART's FIFOs (external)  *)
(* and the link under callback_lock; the owner reports completions, polls  *)
(* the line for idle, and resumes a paused receiver.  One turn of the      *)
(* callback's loop is one step.  The owner sleeps on the semaphore wake.   *)
(***************************************************************************)
EXTENDS Port

CONSTANTS IrqFifo,      \* bytes the UART's receive FIFO holds
          IrqRing,      \* bytes the link's receive ring holds
          IrqPlans      \* bounds: records of bytes, units, drains (wait_for_tx_idle)

IrqInit ==
    \E plan \in IrqPlans :
    port = LinkSide @@
      [kind |-> "irq", plan |-> plan, started |-> FALSE, paused |-> FALSE, txActive |-> FALSE,
       completion |-> "none", drain |-> FALSE, error |-> FALSE, wake |-> FALSE, left |-> 0,
       rxIrq |-> FALSE, txIrq |-> FALSE, fifo |-> << >>, overrun |-> FALSE,
       opc |-> "idle", ring |-> 0, arrived |-> 0, units |-> 0]

----------------------------------------------------------------------------
(* The interrupt side.                                                     *)

\* a byte comes off the line: the FIFO takes it, or loses it and flags an overrun
IrqLine ==
    /\ port.arrived < port.plan.bytes
    /\ LET n == port.arrived + 1
           u == [port EXCEPT !.arrived = n]
       IN port' = IF Len(u.fifo) < IrqFifo THEN [u EXCEPT !.fifo = Append(@, n)]
                  ELSE [u EXCEPT !.overrun = TRUE, !.lost = @ \cup {n}]

\* the error check of uart_callback
ErrCheck(u) ==
    IF ~u.overrun THEN u
    ELSE [NoteOverflow(u) EXCEPT !.overrun = FALSE, !.error = TRUE, !.wake = TRUE]

\* receive_ready: pause on a full ring, else move what fits; the FIFO may fail to be read
IrqTake(u) ==
    LET n == IF Len(u.fifo) < IrqRing - u.ring THEN Len(u.fifo) ELSE IrqRing - u.ring
    IN [u EXCEPT !.stream = @ \o SubSeq(u.fifo, 1, n), !.ring = @ + n,
                 !.fifo = SubSeq(@, n + 1, Len(@)), !.wake = TRUE]
ReceiveReady(u, fails) ==
    IF u.paused \/ ~u.rxIrq \/ u.fifo = << >> THEN u
    ELSE IF u.ring = IrqRing
    THEN [NoteOverflow(u) EXCEPT !.rxIrq = FALSE, !.paused = TRUE, !.wake = TRUE]
    ELSE IF fails THEN [u EXCEPT !.error = TRUE, !.wake = TRUE]
    ELSE IrqTake(u)

\* transmit_ready: the FIFO takes sent bytes (0 to all that are left), or fails (-1)
TransmitReady(u, sent) ==
    IF ~u.txActive \/ u.completion # "none" THEN [u EXCEPT !.txIrq = FALSE]
    ELSE IF sent = 0 THEN u
    ELSE IF sent < 0
    THEN [u EXCEPT !.txIrq = FALSE, !.completion = "failed", !.dtx = FALSE, !.wake = TRUE]
    ELSE IF sent < u.left THEN [u EXCEPT !.left = @ - sent]
    ELSE [u EXCEPT !.left = 0, !.txIrq = FALSE, !.completion = "consumed", !.dtx = FALSE,
                   !.wake = TRUE]

\* uart_callback: one turn.  A callback that arrives late finds no binding and returns.
UartCallback ==
    /\ port.started
    /\ port.overrun \/ (port.rxIrq /\ port.fifo # << >>) \/ port.txIrq
    /\ \E fails \in BOOLEAN :
       LET r == ReceiveReady(ErrCheck(port), fails) IN
       \/ r # port /\ port' = r
       \/ r.txIrq /\ \E sent \in -1 .. r.left : port' = TransmitReady(r, sent)

----------------------------------------------------------------------------
(* The owner.                                                              *)

\* wl_zephyr_uart_irq_start
IrqStart ==
    /\ port.opc = "idle" /\ ~port.started /\ ~port.closed
    /\ port' = [port EXCEPT !.started = TRUE, !.rxIrq = TRUE]

\* uart_sink: the unit is of two bytes
IrqSink ==
    /\ port.opc = "idle" /\ port.started /\ MayHand(port) /\ port.units < port.plan.units
    /\ ~port.txActive
    /\ port' = [port EXCEPT !.units = @ + 1, !.txActive = TRUE, !.completion = "none",
                            !.left = 2, !.txIrq = TRUE, !.dtx = TRUE, !.unit = "lent"]

\* wl_zephyr_uart_irq_readiness; a pending idle check is due once time has passed
IrqRunnable(u) ==
    u.error \/ u.completion # "none" \/ u.drain \/ (u.paused /\ u.ring < IrqRing)

\* wl_zephyr_uart_irq_service: acknowledge the latch, then look at what it announced
IrqAck ==
    /\ port.opc = "idle" /\ port.started
    /\ IrqRunnable(port) \/ port.wake \/ port.ring > 0
    /\ port' = [port EXCEPT !.wake = FALSE, !.error = FALSE, !.opc = "tx"]
IrqReported(u) ==
    IF u.completion = "none" THEN u
    ELSE IF u.completion = "consumed" /\ u.plan.drains
    THEN [Consumed(u, TRUE) EXCEPT !.completion = "none", !.drain = TRUE]
    ELSE [Consumed(u, FALSE) EXCEPT !.completion = "none", !.txActive = FALSE]
IrqServiceTx ==
    /\ port.opc = "tx"
    /\ LET u == [IrqReported(port) EXCEPT !.opc = "resume"] IN
       \/ port' = u
       \/ u.drain /\ port' = [Drained(u) EXCEPT !.drain = FALSE, !.txActive = FALSE]
IrqResume ==
    /\ port.opc = "resume"
    /\ port' = [port EXCEPT !.opc = "pump",
                            !.paused = @ /\ port.ring = IrqRing,
                            !.rxIrq = @ \/ (port.paused /\ port.ring < IrqRing)]

\* the endpoint then polls the link, and waits when neither has anything to do
IrqPump == port.opc = "pump" /\ port' = [port EXCEPT !.ring = 0, !.opc = "decide"]
IrqSleeps(u) == ~IrqRunnable(u) /\ u.ring = 0
IrqDecide ==
    /\ port.opc = "decide"
    /\ port' = [port EXCEPT !.opc = IF IrqSleeps(port) THEN "wait" ELSE "idle"]
IrqWait == port.opc = "wait" /\ (port.wake \/ port.drain) /\ port' = [port EXCEPT !.opc = "idle"]

\* wl_zephyr_uart_irq_stop: no interrupt and no binding, then the link gets its unit back
GivesBack(u) ==
    IF ~u.txActive THEN u
    ELSE IF u.drain THEN Drained(u) ELSE Consumed(u, FALSE)
IrqStop ==
    /\ port.opc = "idle" /\ ~port.closed
    /\ port' = [GivesBack(port) EXCEPT !.started = FALSE, !.rxIrq = FALSE, !.txIrq = FALSE,
                  !.dtx = FALSE, !.txActive = FALSE, !.drain = FALSE, !.closed = TRUE,
                  !.wake = TRUE]

IrqNext ==
    \/ IrqLine \/ UartCallback \/ IrqStart \/ IrqSink \/ IrqAck \/ IrqServiceTx \/ IrqResume
    \/ IrqPump \/ IrqDecide \/ IrqWait \/ IrqStop

----------------------------------------------------------------------------
IrqRxOk == StreamInOrder(port) /\ LossNotedFirst(port)

\* the lent unit is with the interrupt, which is on, or its completion is recorded
IrqTxOk == port.unit = "lent" => (port.dtx /\ port.txIrq) \/ port.completion # "none"

IrqQuietOk == port.closed => ~port.rxIrq /\ ~port.txIrq

\* a sleeping owner with no wakeup pending has nothing to do
IrqAwake ==
    port.opc = "wait" /\ ~port.wake => port.ring = 0 /\ (IrqRunnable(port) => port.drain)

-----------------------------------------------------------------------------
(***************************************************************************)
(* The Zephyr polled UART adapter (src/adapters/zephyr/uart_poll): a       *)
(* worker thread polls the UART for bytes and stages them in the link's    *)
(* ring, the owner's sink writes a unit out before it returns, and any     *)
(* thread may ask both to stop.  wpc is where the worker stands.           *)
(***************************************************************************)

CONSTANTS PollFifo,     \* bytes the UART holds
          PollRing,     \* bytes the link's receive ring holds
          PollBatch,    \* WL_ZEPHYR_UART_POLL_BATCH
          PollPlans     \* bounds: records of bytes, units

PollInit ==
    \E plan \in PollPlans :
    port = LinkSide @@
      [kind |-> "poll", plan |-> plan, running |-> "ready", wpc |-> "none", staged |-> << >>,
       limit |-> 0, published |-> FALSE, error |-> FALSE, wake |-> FALSE, stopWake |-> FALSE,
       left |-> 0, fifo |-> << >>, overrun |-> FALSE, opc |-> "idle", ring |-> 0,
       arrived |-> 0, units |-> 0]

PollLine ==
    /\ port.arrived < port.plan.bytes
    /\ LET n == port.arrived + 1
           u == [port EXCEPT !.arrived = n]
       IN port' = IF Len(u.fifo) < PollFifo THEN [u EXCEPT !.fifo = Append(@, n)]
                  ELSE [u EXCEPT !.overrun = TRUE, !.lost = @ \cup {n}]

----------------------------------------------------------------------------
(* The worker: receive.                                                    *)

Running == port.running = "running"

\* note_error
NoteError(u) == [NoteOverflow(u) EXCEPT !.error = TRUE, !.published = TRUE]

\* the head of the loop: leave, or check for errors and reserve room
PollTop ==
    /\ port.wpc = "top"
    /\ LET u == [port EXCEPT !.published = FALSE]
           e == IF u.overrun THEN [NoteError(u) EXCEPT !.overrun = FALSE] ELSE u
           room == PollRing - e.ring
       IN port' = IF ~Running THEN [port EXCEPT !.wpc = "done"]
                  ELSE IF room = 0 THEN [e EXCEPT !.wpc = "publish"]
                  ELSE [e EXCEPT !.wpc = "batch", !.limit = IF room < PollBatch THEN room ELSE PollBatch]

\* a byte at a time, until the batch is full, the line is quiet, the UART fails, or a stop
PollByte ==
    /\ port.wpc = "batch" /\ Running /\ Len(port.staged) < port.limit /\ port.fifo # << >>
    /\ port' = [port EXCEPT !.staged = Append(@, Head(port.fifo)), !.fifo = Tail(@)]
PollCommit ==
    /\ port.wpc = "batch"
    /\ \E fails \in BOOLEAN :
         /\ IF fails THEN Running /\ Len(port.staged) < port.limit
            ELSE ~Running \/ Len(port.staged) = port.limit \/ port.fifo = << >>
         /\ LET u == IF fails THEN NoteError(port) ELSE port
            IN port' = [u EXCEPT !.stream = @ \o port.staged, !.ring = @ + Len(port.staged),
                                 !.published = @ \/ port.staged # << >>, !.staged = << >>,
                                 !.limit = 0, !.wpc = "publish"]

\* wake the owner for what was published, then block for a while
PollPublish ==
    /\ port.wpc = "publish"
    /\ port' = [port EXCEPT !.wake = @ \/ port.published, !.published = FALSE,
                            !.wpc = IF Running THEN "sleep" ELSE "top"]
PollTick == port.wpc = "sleep" /\ port' = [port EXCEPT !.stopWake = FALSE, !.wpc = "top"]

----------------------------------------------------------------------------
(* The owner, and a stop from any thread.                                  *)

\* wl_zephyr_uart_poll_start: a stop asked for before the start stays latched
PollStart ==
    /\ port.opc = "idle" /\ port.running = "ready" /\ ~port.closed
    /\ port' = [port EXCEPT !.running = "running", !.wpc = "top"]

\* sink: the unit (of two bytes) is written before the sink returns, unless a stop cuts it
PollSink ==
    /\ port.opc = "idle" /\ Running /\ MayHand(port) /\ port.units < port.plan.units
    /\ port' = [port EXCEPT !.units = @ + 1, !.unit = "lent", !.dtx = TRUE, !.left = 2,
                            !.opc = "sink"]
PollSinkByte ==
    /\ port.opc = "sink" /\ port.left > 0 /\ Running
    /\ port' = [port EXCEPT !.left = @ - 1]
PollSinkReturn ==
    /\ port.opc = "sink" /\ (port.left = 0 \/ ~Running)
    /\ port' = [port EXCEPT !.unit = "none", !.dtx = FALSE, !.left = 0, !.opc = "idle"]

\* service acknowledges and clears the error; the endpoint then polls the link and waits
PollService ==
    /\ port.opc = "idle" /\ ~port.closed /\ (port.error \/ port.wake \/ port.ring > 0)
    /\ port' = [port EXCEPT !.wake = FALSE, !.error = FALSE, !.opc = "pump"]
PollPump == port.opc = "pump" /\ port' = [port EXCEPT !.ring = 0, !.opc = "decide"]
PollDecide ==
    /\ port.opc = "decide"
    /\ port' = [port EXCEPT !.opc = IF ~port.error /\ port.ring = 0 /\ Running THEN "wait" ELSE "idle"]
PollWait == port.opc = "wait" /\ port.wake /\ port' = [port EXCEPT !.wake = FALSE, !.opc = "idle"]

\* wl_zephyr_uart_poll_request_stop
Stopped(u) == [u EXCEPT !.running = "stopped", !.stopWake = TRUE, !.wake = TRUE]
PollRequestStop == port.running # "stopped" /\ ~port.closed /\ port' = Stopped(port)

\* wl_zephyr_uart_poll_stop: ask, join the worker, then let go of the link
PollStop ==
    /\ port.opc = "idle" /\ ~port.closed
    /\ port' = [Stopped(port) EXCEPT !.opc = "join"]
WorkerGone(u) == u.wpc \in {"none", "done"}
PollJoined ==
    /\ port.opc = "join" /\ WorkerGone(port)
    /\ port' = [port EXCEPT !.closed = TRUE, !.opc = "idle"]

PollNext ==
    \/ PollLine \/ PollTop \/ PollByte \/ PollCommit \/ PollPublish \/ PollTick
    \/ PollStart \/ PollSink \/ PollSinkByte \/ PollSinkReturn
    \/ PollService \/ PollPump \/ PollDecide \/ PollWait
    \/ PollRequestStop \/ PollStop \/ PollJoined

----------------------------------------------------------------------------
\* a loss the worker has not noted is still flagged by the UART
PollRxOk == StreamInOrder(port) /\ (port.lost # {} => port.overrun)

PollQuietOk == port.closed => WorkerGone(port) /\ port.staged = << >>

\* a sleeping owner with no wakeup pending has nothing to do, unless the worker is about to
\* wake it
PollAwake ==
    port.opc = "wait" /\ ~port.wake /\ (port.error \/ port.ring > 0 \/ ~Running) =>
        port.wpc \in {"batch", "publish"} /\ port.published
=============================================================================
