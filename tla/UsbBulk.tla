------------------------------ MODULE UsbBulk -------------------------------
(***************************************************************************)
(* The Zephyr USB bulk device adapter (src/adapters/zephyr/usb_bulk): one  *)
(* OUT request at a time, received into a unit claimed from the link, and  *)
(* one IN request for the unit the link lent.  The callbacks (request,     *)
(* enable, disable) run in the USB thread and preempt the owner, whose     *)
(* queue_out is split where a callback may come between.                   *)
(*                                                                         *)
(* out and in are the requests the controller (external) holds: "none",    *)
(* "armed", or "cancelled" by a disable whose callback is still to come.   *)
(* A unit cut short, too long or failed is in lost until the bus is        *)
(* enabled afresh, which is where the host starts again.                   *)
(***************************************************************************)
EXTENDS Port

CONSTANTS UsbRoom,      \* units the link's receive queue holds
          UsbPlans      \* bounds: records of units, sends, resets

UsbInit ==
    \E plan \in UsbPlans :
    port = LinkSide @@
      [kind |-> "usb", plan |-> plan, enabled |-> FALSE, rxActive |-> FALSE, rearm |-> FALSE,
       txActive |-> FALSE, faulted |-> FALSE, cancelExpected |-> FALSE, faultPending |-> FALSE,
       recovery |-> FALSE, recoveryDisabled |-> FALSE, completion |-> "none",
       claim |-> FALSE, ring |-> 0, opc |-> "idle", on |-> TRUE, out |-> "none", in |-> "none",
       raced |-> FALSE, arrived |-> 0, sends |-> 0, resets |-> 0]

\* wl_rx_can_accept_unit, wl_rx_unit_claim
UsbCanAccept(u) == ~u.claim /\ u.ring < UsbRoom

InQueueOut(u) == u.opc \in {"claim", "refused", "arm", "enqueue"}

----------------------------------------------------------------------------
(* The callbacks.                                                          *)

\* latch_rx_fault
LatchRxFault(u) == [u EXCEPT !.faultPending = @ \/ ~u.faulted, !.faulted = TRUE]

\* bulk_request of an OUT request: how is "short" (a whole unit), "zero", "full" (its end
\* may be missing), "error" or "aborted" (ECONNABORTED)
KeepsLongUnit(u, how) ==
    IF how \in {"error", "aborted"} THEN LatchRxFault(u)
    ELSE IF how \in {"short", "full"} THEN Give([u EXCEPT !.ring = @ + 1], u.arrived)
    ELSE u
Received(u, how) ==
    IF how \in {"error", "full"} \/ (how = "aborted" /\ ~u.cancelExpected /\ u.enabled)
    THEN LatchRxFault(u)
    ELSE IF how = "short" THEN Give([u EXCEPT !.ring = @ + 1], u.arrived)
    ELSE u
RxRequest(u, how) ==
    IF ~u.rxActive THEN [u EXCEPT !.out = "none"]
    ELSE LET r == Received(u, how)
         IN [r EXCEPT !.claim = FALSE, !.rxActive = FALSE, !.out = "none",
                      !.cancelExpected = FALSE, !.rearm = ~r.faulted]

\* the host sends a unit; one that is not whole is lost
HostUnit ==
    /\ port.out = "armed" /\ port.arrived < port.plan.units
    /\ \E how \in {"short", "full", "error", "aborted"} :
         LET u == [port EXCEPT !.arrived = @ + 1]
         IN port' = RxRequest(IF how = "short" THEN u ELSE [u EXCEPT !.lost = @ \cup {u.arrived}],
                              how)
HostZero == port.out = "armed" /\ port.arrived < port.plan.units /\ port' = RxRequest(port, "zero")
OutCancelled == port.out = "cancelled" /\ port' = RxRequest(port, "aborted")

\* bulk_request of an IN request
TxRequest(u, result) ==
    IF ~u.txActive THEN u ELSE [u EXCEPT !.completion = result]
InDone ==
    /\ port.in # "none"
    /\ \E result \in IF port.in = "armed" THEN {"done", "failed"} ELSE {"failed"} :
         port' = TxRequest([port EXCEPT !.in = "none", !.dtx = FALSE], result)

\* queue_out: what a claimed unit becomes when it is armed, and when it is queued
Armed(u) == [u EXCEPT !.rearm = FALSE, !.rxActive = TRUE]
Enqueued(u) ==
    IF u.on /\ u.enabled /\ u.out = "none" THEN [u EXCEPT !.out = "armed"]
    ELSE [u EXCEPT !.rxActive = FALSE, !.claim = FALSE, !.rearm = TRUE]
QueueOut(u) ==
    IF u.rxActive THEN u
    ELSE IF ~UsbCanAccept(u) THEN [u EXCEPT !.rearm = TRUE]
    ELSE Enqueued(Armed([u EXCEPT !.claim = TRUE]))

\* bulk_enable: the host configures the device
BulkEnable ==
    /\ port.on /\ ~port.enabled /\ port.resets < port.plan.resets
    /\ port' = QueueOut([port EXCEPT !.faulted = FALSE, !.recovery = FALSE,
                           !.recoveryDisabled = FALSE, !.enabled = TRUE, !.rearm = TRUE,
                           !.lost = {}, !.resets = @ + 1, !.raced = @ \/ InQueueOut(port)])

\* bulk_disable: the controller gives back what it holds, later
Cancelled(q) == IF q = "armed" THEN "cancelled" ELSE q
BulkDisabled(u) ==
    [u EXCEPT !.cancelExpected = @ \/ u.rxActive, !.enabled = FALSE, !.out = Cancelled(@),
              !.in = Cancelled(@), !.raced = @ \/ InQueueOut(u)]
BulkDisable == port.enabled /\ port' = BulkDisabled(port)

----------------------------------------------------------------------------
(* The owner.                                                              *)

\* usb_sink
UsbSink ==
    /\ port.opc = "idle" /\ MayHand(port) /\ port.enabled /\ port.sends < port.plan.sends
    /\ LET u == [port EXCEPT !.sends = @ + 1] IN
       \/ /\ ~u.txActive /\ u.in = "none"
          /\ port' = [u EXCEPT !.txActive = TRUE, !.completion = "none", !.in = "armed",
                               !.dtx = TRUE, !.unit = "lent"]
       \/ port' = [u EXCEPT !.blocked = TRUE]
       \/ port' = u

\* wl_zephyr_usb_bulk_readiness
UsbRunnable(u) ==
    u.faultPending \/ u.completion # "none" \/ (u.enabled /\ u.rearm /\ UsbCanAccept(u))

\* wl_zephyr_usb_bulk_service: report the transmission, queue a request, report a fault
UsbServiceTx ==
    /\ port.opc = "idle" /\ UsbRunnable(port)
    /\ LET u == IF port.completion = "none" THEN port
                ELSE [Consumed(port, FALSE) EXCEPT !.completion = "none", !.txActive = FALSE]
       IN port' = [u EXCEPT !.opc = IF u.enabled /\ u.rearm /\ ~u.rxActive THEN "claim" ELSE "report"]
UsbClaim ==
    /\ port.opc = "claim"
    /\ port' = IF UsbCanAccept(port) THEN [port EXCEPT !.claim = TRUE, !.opc = "arm"]
               ELSE [port EXCEPT !.opc = "refused"]
UsbRefused == port.opc = "refused" /\ port' = [port EXCEPT !.rearm = TRUE, !.opc = "report"]
UsbArm == port.opc = "arm" /\ port' = [Armed(port) EXCEPT !.opc = "enqueue"]
UsbEnqueue == port.opc = "enqueue" /\ port' = [Enqueued(port) EXCEPT !.opc = "report"]
UsbReport == port.opc = "report" /\ port' = [port EXCEPT !.faultPending = FALSE, !.opc = "idle"]

\* wl_zephyr_usb_bulk_recover: take the stack down once and up again; the host's next
\* configuration ends the recovery
UsbRecover ==
    /\ port.opc = "idle" /\ port.faulted /\ ~port.recovery
    /\ LET asked == [port EXCEPT !.recovery = TRUE]
           down == [BulkDisabled(asked) EXCEPT !.recoveryDisabled = TRUE, !.on = FALSE]
           d == IF port.recoveryDisabled THEN asked ELSE down
       IN \/ ~port.recoveryDisabled /\ port' = port
          \/ port' = [d EXCEPT !.on = TRUE]
          \/ port' = [d EXCEPT !.recovery = FALSE]

\* the link's owner takes a unit out of the receive queue
UsbRead == port.ring > 0 /\ port' = [port EXCEPT !.ring = @ - 1]

UsbNext ==
    \/ HostUnit \/ HostZero \/ OutCancelled \/ InDone \/ BulkEnable \/ BulkDisable
    \/ UsbSink \/ UsbServiceTx \/ UsbClaim \/ UsbRefused \/ UsbArm \/ UsbEnqueue \/ UsbReport
    \/ UsbRecover \/ UsbRead

----------------------------------------------------------------------------
\* no unit that follows a torn one reaches the link before the bus is enabled afresh, unless
\* the bus changed state while the owner was inside queue_out
UsbRxOk == StreamInOrder(port) /\ (port.raced \/ LossNotedFirst(port))

\* the completion of a lent unit is either with the controller or recorded
UsbTxOk == port.txActive => port.in # "none" \/ port.completion # "none"

\* an owner with nothing to run waits for a request the controller holds, for the link's
\* queue to drain, or for the application to recover a fault
UsbAwake ==
    port.opc = "idle" /\ port.enabled /\ ~UsbRunnable(port) =>
        port.out # "none" \/ (port.rearm /\ port.ring = UsbRoom) \/ port.faulted
=============================================================================
