------------------------------ MODULE RpcAsync ------------------------------
(***************************************************************************)
(* What the RPC layers see of a link (src/src/transport.c, protocol.c; the *)
(* whole link is module Link): one reliable transaction at a time, whose   *)
(* bytes the adapter may still hold when the transaction is settled, and   *)
(* whose end is announced by one event unless it was cancelled.            *)
(***************************************************************************)
EXTENDS RpcClient

CONSTANT HandleMax      \* transaction handles are 1 .. HandleMax, reused cyclically

Handle == 1 .. HandleMax
IdleLane == [h |-> 0, state |-> "IDLE", leased |-> FALSE, event |-> FALSE, last |-> 0]

Settled == {"SUCCESS", "FAILED"}

\* wl_tx_can_submit
CanSubmit(l, reliable) == ~l.leased /\ (reliable => l.h = 0)

\* wl_send_reliable, accepted; the sink keeps the unit (leased) or is done with it
Started(l, leased) ==
    LET h == IF l.last = HandleMax THEN 1 ELSE l.last + 1 IN
    [l EXCEPT !.h = h, !.state = "SENDING", !.leased = leased, !.last = h]

\* wl_tx_cancel
CancelTx(l, h) ==
    IF h # 0 /\ l.h = h /\ l.state = "SENDING" THEN [l EXCEPT !.state = "CANCELLED"] ELSE l

\* wl_tx_can_take, wl_tx_take
CanTake(l, h) == h # 0 /\ l.h = h /\ ~l.leased /\ l.state \in Settled \cup {"CANCELLED"}
TakeTx(l, h) ==
    IF CanTake(l, h) THEN [l EXCEPT !.h = 0, !.state = "IDLE", !.event = FALSE] ELSE l

\* The link on its own: the adapter gives the unit back, the transaction is settled.
LaneSteps(l) ==
    (IF l.leased THEN {[l EXCEPT !.leased = FALSE]} ELSE {})
    \cup (IF l.state = "SENDING"
          THEN {[l EXCEPT !.state = s, !.event = TRUE] : s \in Settled} ELSE {})

-----------------------------------------------------------------------------
(***************************************************************************)
(* src/src/rpc_async.c: calls with a completion callback, over the client  *)
(* table (RpcClient) and one link (above).  A record a holds the slots of  *)
(* accepted calls, the transaction whose call is gone (retiring) and how   *)
(* far a service pass has got (at): 0 outside one, a slot index while the  *)
(* pass looks at slots from there on, AfterCancel in the callback of       *)
(* cancel_complete.  While at # 0 the application runs in a callback and   *)
(* may submit and cancel.                                                  *)
(***************************************************************************)

AfterCancel == Max(CallSlot) + 2
NoCall == [op |-> 0, handle |-> [index |-> 0, gen |-> 0], method |-> "NONE", order |-> 0]

\* wl_rpc_async_init
AsyncInit == [slots |-> [i \in CallSlot |-> NoCall], nextOrder |-> 1, retiring |-> 0,
              at |-> 0, closing |-> FALSE, open |-> TRUE]

Allocated(a) == {i \in CallSlot : a.slots[i].op # 0}
StateOf(a, c, i) == c.slots[a.slots[i].handle.index].state
TerminalCalls(a, c) == {i \in Allocated(a) : StateOf(a, c, i) \in Terminal}

\* submit_oldest: the oldest queued call, the one it hands to the link if the link takes it
QueuedCalls(a, c) == {i \in Allocated(a) : StateOf(a, c, i) = "QUEUED"}
OldestQueued(a, c) ==
    {i \in QueuedCalls(a, c) : \A j \in QueuedCalls(a, c) : a.slots[i].order <= a.slots[j].order}
Submittable(a, c, l) ==
    {i \in OldestQueued(a, c) : ~a.closing /\ CanSubmit(l, a.slots[i].method = "REL")}

\* The client and link after submit_oldest sends i's request, by what wl_send_* returned:
\* BUSY keeps it queued, FAIL ends the call, OK starts it (HELD: the sink keeps the unit).
SendResults == {"BUSY", "FAIL", "OK", "HELD"}
AfterSend(a, c, l, i, result) ==
    LET index == a.slots[i].handle.index
        reliable == a.slots[i].method = "REL"
        lane == IF reliable THEN Started(l, result = "HELD") ELSE [l EXCEPT !.leased = result = "HELD"]
    IN  CASE result = "BUSY" -> [client |-> c, lane |-> l]
          [] result = "FAIL" -> [client |-> LinkFailed(c, index), lane |-> l]
          [] reliable -> [client |-> BindTx(c, index, lane.h), lane |-> lane]
          [] OTHER -> [client |-> TxCompleted(c, index), lane |-> lane]

\* collect_cancelled_tx
CanCollect(a, l) == ~a.closing /\ CanTake(l, a.retiring) /\ l.state = "CANCELLED"
Collected(a, l) == IF CanCollect(a, l) THEN [a EXCEPT !.retiring = 0] ELSE a
LaneCollected(a, l) == IF CanCollect(a, l) THEN TakeTx(l, a.retiring) ELSE l

\* notify_terminal up to the callback: the link transaction of a call that gave up is
\* cancelled; one the link still knows is remembered; the call's slots are freed.
Forgotten(a, l, tx) == a
Remembered(a, l, tx) == IF tx # 0 /\ l.h = tx THEN [a EXCEPT !.retiring = tx] ELSE a
NotifyTerminal(a, c, l, i) ==
    LET handle == a.slots[i].handle
        slot == c.slots[handle.index]
        cut == IF ~a.closing /\ slot.state \in {"CANCELLED", "TIMED_OUT"}
               THEN CancelTx(l, slot.tx) ELSE l
        kept == Remembered(a, cut, slot.tx)
    IN  [async |-> [Collected(kept, cut) EXCEPT !.slots[i] = NoCall],
         client |-> ReleaseHandle(c, handle),
         lane |-> LaneCollected(kept, cut)]

\* wl_rpc_async_submit: the slot of an accepted call
AnySlot(a) == CallSlot
FreeAsync(a) == CallSlot \ Allocated(a)
Accepted(a, c, op, method) ==
    [a EXCEPT !.slots[Min(FreeAsync(a))] =
                  [op |-> op, handle |-> HandleOf(c, op), method |-> method, order |-> a.nextOrder],
              !.nextOrder = @ + 1]

\* wl_rpc_async_get_readiness, runnable
AsyncRunnable(a, c, l) ==
    \/ a.retiring # 0 /\ CanTake(l, a.retiring)
    \/ TerminalCalls(a, c) # {}
    \/ \E i \in QueuedCalls(a, c) : CanSubmit(l, a.slots[i].method = "REL")

\* wl_rpc_async_retire_tx
RetireTx(a, h) == IF a.retiring = h THEN [a EXCEPT !.retiring = 0] ELSE a
=============================================================================
