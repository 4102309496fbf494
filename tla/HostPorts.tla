----------------------------- MODULE HostPorts ------------------------------
(***************************************************************************)
(* The adapters a host program uses: the loopback between two links of one *)
(* program, the serial port and the USB bulk device.                       *)
(***************************************************************************)
EXTENDS Port

-----------------------------------------------------------------------------
(***************************************************************************)
(* The loopback adapter (src/adapters/loopback): it carries the units of   *)
(* two links to each other, a bounded number of attempts per service, in   *)
(* turn, and passes over a direction whose destination is full.            *)
(*                                                                         *)
(* Direction d carries from link d to link 1 - d: pending[d] is the unit   *)
(* the adapter holds (0: none), lent[d] the unit link d has lent, given[d] *)
(* what link d has received and ring[d] how much of it is unread.          *)
(***************************************************************************)

CONSTANTS LoopRoom,     \* units a link's receive queue holds
          LoopPlans     \* bounds: records of units, budget (unit_budget) and refused,
                        \* the units wl_feed_unit refuses for another reason than room

Ends == {0, 1}

LoopInit ==
    \E plan \in LoopPlans :
    port = LinkSide @@
      [kind |-> "loop", plan |-> plan, started |-> TRUE, nextDirection |-> 0,
       pending |-> [d \in Ends |-> 0], lent |-> [d \in Ends |-> 0],
       given |-> [d \in Ends |-> << >>], ring |-> [d \in Ends |-> 0],
       sent |-> [d \in Ends |-> 0], failed |-> [d \in Ends |-> 0]]

\* loopback_sink, called by link d with its next unit
LoopSink(d) ==
    /\ port.lent[d] = 0 /\ port.pending[d] = 0 /\ port.started
    /\ port.sent[d] < port.plan.units
    /\ LET n == port.sent[d] + 1
       IN port' = [port EXCEPT !.sent[d] = n, !.lent[d] = n, !.pending[d] = n]

\* next_pending_direction: in turn, without the ones found blocked
Candidates(u, blocked) == {d \in Ends : u.pending[d] # 0 /\ d \notin blocked}
NextPending(u, blocked) ==
    IF u.nextDirection \in Candidates(u, blocked) THEN u.nextDirection ELSE 1 - u.nextDirection

\* wl_tx_consumed of link d
LoopConsumed(u, d) ==
    [u EXCEPT !.twice = @ \/ u.lent[d] # u.pending[d], !.lent[d] = 0, !.pending[d] = 0]

\* one attempt of the service; a refused unit is gone, and completes
Passed(u, d) ==
    IF u.pending[d] \in u.plan.refused THEN u
    ELSE [u EXCEPT !.given[1 - d] = Append(@, u.pending[d]), !.ring[1 - d] = @ + 1]
Attempt(s) ==
    IF Candidates(s.u, s.blocked) = {} THEN s
    ELSE LET d == NextPending(s.u, s.blocked)
             u == [s.u EXCEPT !.nextDirection = 1 - d]
         IN IF u.ring[1 - d] = LoopRoom THEN [u |-> u, blocked |-> s.blocked \cup {d}]
            ELSE [s EXCEPT !.u = LoopConsumed(Passed(u, d), d)]

\* wl_loopback_service
Serviced(u) ==
    FoldLeft(LAMBDA s, i : Attempt(s), [u |-> u, blocked |-> {}],
             [i \in 1 .. u.plan.budget |-> i]).u
LoopService ==
    /\ port.started /\ \E d \in Ends : port.pending[d] # 0
    /\ port' = Serviced(port)

\* wl_loopback_readiness
LoopRunnable(u) == \E d \in Ends : u.pending[d] # 0 /\ u.ring[1 - d] < LoopRoom

\* wl_loopback_quiesce: both sinks go, and what is pending fails
LoopFails(u, d) ==
    IF u.pending[d] = 0 THEN u
    ELSE LoopConsumed([u EXCEPT !.failed[d] = u.pending[d]], d)
LoopQuiesce ==
    /\ port.started
    /\ port' = LoopFails(LoopFails([port EXCEPT !.started = FALSE, !.closed = TRUE], 0), 1)

LoopRead(d) == port.ring[d] > 0 /\ port' = [port EXCEPT !.ring[d] = @ - 1]

LoopNext ==
    \/ LoopService \/ LoopQuiesce
    \/ \E d \in Ends : LoopSink(d) \/ LoopRead(d)

----------------------------------------------------------------------------
\* each end receives what the other sent, in order, each unit once, and misses only what
\* was pending at the quiesce and what its link refused
LoopRxOk ==
    \A d \in Ends :
        LET left == IF port.failed[d] # 0 \/ port.pending[d] # 0 THEN 1 ELSE 0
        IN port.given[1 - d] = SelectSeq([i \in 1 .. port.sent[d] - left |-> i],
                                         LAMBDA n : n \notin port.plan.refused)

\* a unit is lent exactly as long as it is pending
LoopTxOk == ~port.twice /\ port.lent = port.pending

LoopQuietOk == port.closed => \A d \in Ends : port.lent[d] = 0

\* two services of a runnable loopback complete a unit, however small the budget and
\* whichever direction is blocked
LoopTurnOk ==
    port.started /\ LoopRunnable(port) =>
        \E d \in Ends : port.pending[d] # 0 /\ Serviced(Serviced(port)).pending[d] = 0

-----------------------------------------------------------------------------
(***************************************************************************)
(* The host serial adapter (src/adapters/astrial): the serial library's    *)
(* I/O thread (external) borrows the link's ring to read into and the      *)
(* lent unit to write from; the owner is told through a callback and asks  *)
(* for more reading once the ring has room.                                *)
(*                                                                         *)
(* lib is what the I/O thread does about reading: "want" a buffer, found   *)
(* none ("full"), "reading", or "paused"; note is a notification it owes   *)
(* before anything else.                                                   *)
(***************************************************************************)

CONSTANTS SerialRing,   \* bytes the link's receive ring holds
          SerialPlans   \* bounds: records of bytes, units

SerialInit ==
    \E plan \in SerialPlans :
    port = LinkSide @@
      [kind |-> "serial", plan |-> plan, started |-> TRUE, stopping |-> FALSE,
       rxPaused |-> FALSE, reserved |-> 0, txActive |-> FALSE, completion |-> "none",
       lib |-> "want", resume |-> FALSE, note |-> FALSE, wake |-> FALSE,
       fifo |-> << >>, ring |-> 0, opc |-> "idle", arrived |-> 0, units |-> 0]

SerialRoom(u) == SerialRing - u.ring

----------------------------------------------------------------------------
(* The I/O thread.                                                         *)

SerialLine ==
    /\ port.arrived < port.plan.bytes /\ ~port.stopping
    /\ port' = [port EXCEPT !.arrived = @ + 1, !.fifo = Append(@, port.arrived + 1)]

Io == ~port.note /\ ~port.stopping
SerialNotify == port.note /\ port' = [port EXCEPT !.note = FALSE, !.wake = TRUE]

\* acquire_rx_buffer: the room there is, or a pause
AcquireRx ==
    /\ Io /\ port.lib = "want"
    /\ port' = IF SerialRoom(port) = 0 THEN [port EXCEPT !.lib = "full"]
               ELSE [port EXCEPT !.reserved = SerialRoom(port), !.rxPaused = FALSE,
                                 !.lib = "reading"]
PauseRx ==
    /\ Io /\ port.lib = "full"
    /\ port' = [port EXCEPT !.note = ~port.rxPaused, !.rxPaused = TRUE, !.lib = "paused"]

\* complete_rx: some of the bytes that are there, or none when the read failed
CompletedRx(u, n) ==
    [u EXCEPT !.stream = @ \o SubSeq(u.fifo, 1, n), !.ring = @ + n, !.reserved = 0,
              !.fifo = SubSeq(@, n + 1, Len(@)), !.note = TRUE, !.lib = "want"]
CompleteRx ==
    /\ Io /\ port.lib = "reading"
    /\ \E n \in 0 .. port.reserved : n <= Len(port.fifo) /\ port' = CompletedRx(port, n)

\* record_tx_completion
RecordTx(u, result) == [u EXCEPT !.completion = result, !.dtx = FALSE, !.note = TRUE]
TxWritten == Io /\ port.dtx /\ \E result \in {"done", "failed"} : port' = RecordTx(port, result)

\* a resume_read the owner asked for
LibResume ==
    /\ Io /\ port.resume
    /\ port' = [port EXCEPT !.resume = FALSE, !.lib = IF @ = "paused" THEN "want" ELSE @]

----------------------------------------------------------------------------
(* The owner.                                                              *)

SerialSink ==
    /\ port.opc = "idle" /\ MayHand(port) /\ port.started /\ ~port.stopping
    /\ ~port.txActive /\ port.units < port.plan.units
    /\ port' = [port EXCEPT !.units = @ + 1, !.txActive = TRUE, !.completion = "none",
                            !.dtx = TRUE, !.unit = "lent"]

\* readiness, its runnable part
SerialRunnable(u) ==
    ~u.stopping /\ (u.completion # "none" \/ (u.rxPaused /\ SerialRoom(u) > 0))

\* service: report the transmission, then ask for reading again.  For a failed control unit
\* wl_tx_consumed returns an error, and the pass ends there (CutShort).
CutShort(u) == IF u.completion = "failed" THEN BOOLEAN ELSE {FALSE}
SerialReported(u) ==
    IF u.completion = "none" THEN u
    ELSE [Consumed(u, FALSE) EXCEPT !.completion = "none", !.txActive = FALSE]
SerialService ==
    /\ port.opc = "idle" /\ port.started
    /\ SerialRunnable(port) \/ port.ring > 0 \/ port.wake
    /\ \E cut \in CutShort(port) :
         port' = [SerialReported(port) EXCEPT !.wake = FALSE, !.opc = IF cut THEN "pump" ELSE "resume"]
SerialResume ==
    /\ port.opc = "resume"
    /\ port' = [port EXCEPT !.resume = @ \/ (port.rxPaused /\ ~port.stopping),
                            !.rxPaused = FALSE, !.opc = "pump"]

\* the endpoint polls the link, and waits when neither has anything to do
SerialPump == port.opc = "pump" /\ port' = [port EXCEPT !.ring = 0, !.opc = "decide"]
SerialDecide ==
    /\ port.opc = "decide"
    /\ port' = [port EXCEPT !.opc = IF SerialRunnable(port) \/ port.ring > 0 THEN "idle" ELSE "wait"]
SerialWait == port.opc = "wait" /\ port.wake /\ port' = [port EXCEPT !.opc = "idle"]

\* quiesce: close, then a last service.  External: close ends the library's transfers, runs
\* their callbacks (the adapter itself gives no reservation back) and joins its thread.
SerialClosed(u) ==
    LET w == IF u.dtx THEN RecordTx(u, "failed") ELSE u
    IN [w EXCEPT !.lib = "paused", !.reserved = 0, !.resume = FALSE, !.note = FALSE]
SerialQuiesce ==
    /\ port.opc = "idle" /\ ~port.stopping
    /\ LET w == SerialClosed(port) IN
       \E cut \in CutShort(w) :
         port' = [SerialReported(w) EXCEPT !.stopping = TRUE, !.rxPaused = @ /\ cut,
                                           !.closed = TRUE, !.started = FALSE]

SerialNext ==
    \/ SerialLine \/ SerialNotify \/ AcquireRx \/ PauseRx \/ CompleteRx \/ TxWritten \/ LibResume
    \/ SerialSink \/ SerialService \/ SerialResume \/ SerialPump \/ SerialDecide \/ SerialWait
    \/ SerialQuiesce

----------------------------------------------------------------------------
\* every byte the library read is given to the link once, in order
SerialRxOk == port.stream \o port.fifo = [i \in 1 .. port.arrived |-> i]

SerialQuietOk == port.closed => ~port.txActive

\* a sleeping owner is owed a notification when there is something to do, and reading is
\* paused only when it will be asked for again
SerialAwake ==
    port.opc = "wait" /\ ~port.wake /\ ~port.note =>
        ~SerialRunnable(port) /\ port.ring = 0 /\ (port.lib = "paused" => port.resume)

-----------------------------------------------------------------------------
(***************************************************************************)
(* The host USB bulk adapter (src/adapters/astrial_usb): as the serial     *)
(* adapter, but a read fills one unit claimed from the link, and a read    *)
(* that failed or filled its buffer stops reception for good, as nothing   *)
(* tells where the next unit starts.  The library's event thread           *)
(* (external) does the reading; lib and note are as for the serial port.   *)
(*                                                                         *)
(* all is the wake policy: AllCompletions, or ReceiveOnly, where the end   *)
(* of a transmission is recorded without a notification and the owner has  *)
(* to wait with a deadline.                                                *)
(***************************************************************************)

CONSTANTS HostRoom,     \* units the link's receive queue holds
          HostPlans     \* bounds: records of units, sends

HostInit ==
    \E plan \in HostPlans, all \in BOOLEAN :
    port = LinkSide @@
      [kind |-> "host", plan |-> plan, all |-> all, started |-> TRUE, stopping |-> FALSE, rxPaused |-> FALSE,
       fault |-> FALSE, faultPending |-> FALSE, claim |-> FALSE, txActive |-> FALSE,
       completion |-> "none", lib |-> "want", resume |-> FALSE, note |-> FALSE, wake |-> FALSE,
       ring |-> 0, opc |-> "idle", arrived |-> 0, sends |-> 0, gone |-> FALSE]

HostCanAccept(u) == ~u.claim /\ u.ring < HostRoom

----------------------------------------------------------------------------
(* The event thread.                                                       *)

Event == ~port.note /\ ~port.stopping
HostNotify == port.note /\ port' = [port EXCEPT !.note = FALSE, !.wake = TRUE]

\* acquire_rx_buffer
HostAcquire ==
    /\ Event /\ port.lib = "want"
    /\ port' = IF port.fault THEN [port EXCEPT !.lib = "paused"]
               ELSE IF ~HostCanAccept(port) THEN [port EXCEPT !.lib = "full"]
               ELSE [port EXCEPT !.claim = TRUE, !.rxPaused = FALSE, !.lib = "reading"]
HostPause ==
    /\ Event /\ port.lib = "full"
    /\ port' = [port EXCEPT !.note = ~port.rxPaused, !.rxPaused = TRUE, !.lib = "paused"]

\* complete_rx: a whole unit, nothing, or one that failed or may go on
HostLatch(u) == [u EXCEPT !.faultPending = @ \/ ~u.fault, !.fault = TRUE]
HostReceived(u, how) ==
    LET d == [u EXCEPT !.claim = FALSE, !.note = TRUE, !.lib = "want"]
    IN IF how = "short" THEN Give([d EXCEPT !.ring = @ + 1], u.arrived)
       ELSE IF how = "zero" THEN d
       ELSE HostLatch([d EXCEPT !.lost = @ \cup {u.arrived}])
HostComplete ==
    /\ Event /\ port.lib = "reading" /\ port.arrived < port.plan.units /\ ~port.gone
    /\ \E how \in {"short", "zero", "torn"} :
         port' = HostReceived([port EXCEPT !.arrived = @ + 1], how)

\* the device disappears: the callback latches a fault, and the read fails
HostDisconnect == Event /\ ~port.gone /\ port' = [HostLatch(port) EXCEPT !.gone = TRUE, !.note = TRUE]
HostReadFails ==
    /\ Event /\ port.gone /\ port.lib = "reading"
    /\ port' = HostLatch([port EXCEPT !.claim = FALSE, !.note = TRUE, !.lib = "want"])

\* record_tx_completion
HostRecord(u, result) == [u EXCEPT !.completion = result, !.dtx = FALSE, !.note = u.all]
HostWritten ==
    Event /\ port.dtx /\ \E result \in {"done", "failed"} : port' = HostRecord(port, result)
HostLibResume ==
    /\ Event /\ port.resume
    /\ port' = [port EXCEPT !.resume = FALSE, !.lib = IF @ = "paused" THEN "want" ELSE @]

----------------------------------------------------------------------------
(* The owner.                                                              *)

\* sink: the library takes the unit, is busy, or fails
HostSink ==
    /\ port.opc = "idle" /\ MayHand(port) /\ port.started /\ ~port.stopping
    /\ ~port.txActive /\ port.sends < port.plan.sends
    /\ LET u == [port EXCEPT !.sends = @ + 1] IN
       \/ port' = [u EXCEPT !.txActive = TRUE, !.completion = "none", !.dtx = TRUE, !.unit = "lent"]
       \/ port' = [u EXCEPT !.blocked = TRUE]
       \/ port' = u

\* readiness, its runnable part
HostRunnable(u) ==
    /\ ~u.stopping
    /\ u.faultPending \/ u.completion # "none" \/ (~u.fault /\ u.rxPaused /\ HostCanAccept(u))

\* service: report the transmission; ask for reading again unless faulted; report a fault.
\* A failed control unit cuts it short, as for the serial port.
HostReported(u) ==
    IF u.completion = "none" THEN u
    ELSE [Consumed(u, FALSE) EXCEPT !.completion = "none", !.txActive = FALSE]
HostService ==
    /\ port.opc = "idle" /\ port.started
    /\ HostRunnable(port) \/ port.ring > 0 \/ port.wake
    /\ \E cut \in CutShort(port) :
         port' = [HostReported(port) EXCEPT !.wake = FALSE, !.opc = IF cut THEN "pump" ELSE "resume"]
HostResume ==
    /\ port.opc = "resume"
    /\ port' = [port EXCEPT !.resume = @ \/ (port.rxPaused /\ ~port.stopping /\ ~port.fault),
                            !.rxPaused = FALSE, !.opc = "report"]
HostReport == port.opc = "report" /\ port' = [port EXCEPT !.faultPending = FALSE, !.opc = "pump"]
HostPump == port.opc = "pump" /\ port' = [port EXCEPT !.ring = 0, !.opc = "decide"]
HostDecide ==
    /\ port.opc = "decide"
    /\ port' = [port EXCEPT !.opc = IF HostRunnable(port) \/ port.ring > 0 THEN "idle" ELSE "wait"]
\* wait_for_activity: a notification, or the deadline a ReceiveOnly owner waits with
HostWait == port.opc = "wait" /\ (port.wake \/ ~port.all) /\ port' = [port EXCEPT !.opc = "idle"]

\* quiesce: close ends the transfers (the read with TransferCancelled) and the thread, then
\* a last service, and the claim goes back
HostQuiesce ==
    /\ port.opc = "idle" /\ ~port.stopping
    /\ LET w == IF port.dtx THEN HostRecord(port, "failed") ELSE port
       IN \E cut \in CutShort(w) :
            port' = [HostReported(w) EXCEPT !.claim = FALSE, !.lib = "paused", !.resume = FALSE,
                       !.note = FALSE, !.stopping = TRUE, !.rxPaused = @ /\ cut,
                       !.faultPending = @ /\ cut, !.closed = TRUE, !.started = FALSE]

HostNext ==
    \/ HostNotify \/ HostAcquire \/ HostPause \/ HostComplete \/ HostDisconnect \/ HostReadFails
    \/ HostWritten \/ HostLibResume \/ HostSink \/ HostService \/ HostResume \/ HostReport
    \/ HostPump \/ HostDecide \/ HostWait \/ HostQuiesce

----------------------------------------------------------------------------
\* nothing that follows a torn unit ever reaches the link
HostRxOk == StreamInOrder(port) /\ LossNotedFirst(port)

HostQuietOk == port.closed => ~port.claim /\ ~port.txActive

\* as SerialAwake, but under ReceiveOnly the end of a transmission, and nothing else, may
\* wait for the owner's deadline
HostAwake ==
    port.opc = "wait" /\ ~port.wake /\ ~port.note =>
        /\ HostRunnable(port) => ~port.all /\ ~HostRunnable([port EXCEPT !.completion = "none"])
        /\ port.ring = 0 /\ (port.lib = "paused" => port.resume \/ port.fault)
=============================================================================
