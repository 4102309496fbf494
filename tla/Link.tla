-------------------------------- MODULE Link --------------------------------
(***************************************************************************)
(* One Wirelink context: src/src/protocol.c, transport.c, schedule.c and   *)
(* unit_frame.c.  A context owns one reliable transaction (stop and wait), *)
(* one physical DATA unit shared by reliable and unreliable traffic, one   *)
(* control unit for ACKs, one event slot and one borrowed RX payload.      *)
(*                                                                         *)
(* Every API call is one action.  wl_poll() is a chain of actions held     *)
(* together by pc, because producers publish received units while it runs; *)
(* the owner makes no other call before the chain ends.                    *)
(*                                                                         *)
(* Time is abstracted to tx.due: the owner's clock snapshot has reached    *)
(* the ACK deadline.  Payload bytes are abstracted to a body: the sequence *)
(* number of the reliable request they belong to, or Scrap.  I/O, claim    *)
(* and RX lease tokens are abstracted to the test they serve: a report or  *)
(* release that does not match what is outstanding is refused and changes  *)
(* nothing, so only matching ones are actions.                             *)
(***************************************************************************)
EXTENDS Integers, Sequences

CONSTANTS
    Envelope,       \* config.envelope: "COBS", "NATIVE" or "BUS"
    DrainRequired,  \* wl_set_tx_drain_required
    AckTimer,       \* config.ack_timeout_ms # 0
    MaxRetries,     \* config.max_retries
    SeqMax,         \* UINT32_MAX for tx_sequence
    GenMax,         \* UINT16_MAX for tx_generation
    ComplMax,       \* UINT32_MAX for tx_unreliable_completions
    RxMax,          \* received units that fit the ring or unit queue
    SinkResults,    \* what the adapter's sink may answer
    Session,        \* config.session_id
    RxFrames        \* the units the peer and the line may bring

ASSUME ConfigAssumption ==
    /\ Envelope \in {"COBS", "NATIVE", "BUS"}
    /\ DrainRequired \in BOOLEAN /\ AckTimer \in BOOLEAN
    /\ MaxRetries \in Nat /\ SeqMax \in Nat /\ RxMax \in Nat
    /\ GenMax \in Nat \ {0} /\ ComplMax \in Nat
    /\ SinkResults \subseteq {"SENT", "STARTED", "BUSY", "FAILED"}
    /\ Session \in Nat \ {0}
    /\ RxFrames \subseteq [kind : {"REL", "UNREL", "ACK", "BAD"}, id : [sid : Nat, seq : Nat],
                          body : Int]

Scrap == -1                             \* bytes that belong to no reliable request
Body == {Scrap} \cup (0 .. SeqMax)
NoId == [sid |-> 0, seq |-> 0]          \* session 0 is reserved by the protocol
Id == [sid : Nat, seq : Nat]

\* What a unit on the line is once decoded.
DataFrame(id, body) == [kind |-> "REL", id |-> id, body |-> body]
UnrelFrame == [kind |-> "UNREL", id |-> NoId, body |-> Scrap]
AckFrame(id) == [kind |-> "ACK", id |-> id, body |-> Scrap]
BadFrame == [kind |-> "BAD", id |-> NoId, body |-> Scrap]

NoEvent == [type |-> "NONE", handle |-> 0, frame |-> BadFrame]
TxEvent(type, handle) == [type |-> type, handle |-> handle, frame |-> BadFrame]
RxEvent(frame) == [type |-> IF frame.kind = "REL" THEN "RELIABLE_RX" ELSE "UNRELIABLE_RX",
                   handle |-> 0, frame |-> frame]
IsRx(e) == e.type \in {"RELIABLE_RX", "UNRELIABLE_RX"}

VARIABLES
    tx,      \* the reliable transaction
    io,      \* the physical DATA unit, its lease, its claim, the line's state
    ctl,     \* the control unit and the ACK in it
    mem,     \* tx_unit and tx_payload: whose bytes they hold
    rx,      \* received units, the RX lease and the duplicate record
    event,   \* the event slot (has_event, event)
    serial,  \* session_id, tx_sequence and tx_generation
    pc,      \* how far wl_poll has come; "idle" when no call is in progress
    out,     \* the event the last wl_poll returned
    wire,    \* the units the last step put on the line
    hist     \* history: terminal events returned, per handle; units of the current
             \* transaction that the sink took

vars == <<tx, io, ctl, mem, rx, event, serial, pc, out, wire, hist>>

TxStates == {"IDLE", "SENDING", "WAITING_ACK", "SUCCESS", "FAILED", "CANCELLED"}
Terminal == {"SUCCESS", "FAILED", "CANCELLED"}
TxEvents == {"TX_SUCCESS", "TX_TIMEOUT", "TX_FAILED"}

-----------------------------------------------------------------------------
(* Shared pieces of the handlers *)

NextGeneration(g) == IF g = GenMax THEN 1 ELSE g + 1

\* wl_tx_retry_due
RetryDue(t) == t.state = "WAITING_ACK" /\ t.wait = "ACK" /\ AckTimer /\ t.due

\* The adapter holds tx_unit for the reliable transaction.
ReliableLease(i) == i.inflight /\ i.reliable

\* A unit in flight does not make the line busy.
DataBusyIgnoresLease(reliable) ==
    \/ io.drain \/ ctl.pending \/ ctl.inflight \/ io.queued
    \/ IF reliable THEN tx.handle # 0 ELSE RetryDue(tx)

\* wl_data_busy
DataBusy(reliable) ==
    \/ io.inflight \/ io.drain \/ ctl.pending \/ ctl.inflight \/ io.queued
    \/ IF reliable THEN tx.handle # 0 ELSE RetryDue(tx)

\* wl_submit_control after the sink's answer: the control unit and the line.
ControlAnswer(c, i, res) ==
    CASE res = "SENT" ->
           [ctl |-> [c EXCEPT !.pending = FALSE], io |-> i, sent |-> <<AckFrame(c.ack)>>]
      [] res = "STARTED" ->
           [ctl |-> [c EXCEPT !.inflight = TRUE], io |-> i, sent |-> <<>>]
      [] res = "BUSY" ->
           [ctl |-> c, io |-> [i EXCEPT !.writable = FALSE], sent |-> <<>>]
      [] OTHER ->
           [ctl |-> [c EXCEPT !.pending = FALSE], io |-> i, sent |-> <<>>]

\* An ACK is submitted beside a DATA unit in flight.
SubmitControlBeside(c, i) ==
    IF c.pending /\ ~c.inflight /\ ~i.drain /\ i.writable
    THEN {ControlAnswer(c, i, res) : res \in SinkResults}
    ELSE {[ctl |-> c, io |-> i, sent |-> <<>>]}

\* wl_submit_control: the outcomes for control unit c and physical state i.
SubmitControl(c, i) ==
    IF c.pending /\ ~c.inflight /\ ~i.inflight /\ ~i.drain /\ i.writable
    THEN {ControlAnswer(c, i, res) : res \in SinkResults}
    ELSE {[ctl |-> c, io |-> i, sent |-> <<>>]}

\* wl_complete_unreliable_tx
CompleteUnreliable(i) == IF i.compl = ComplMax THEN i ELSE [i EXCEPT !.compl = @ + 1]

\* wl_submit_data after the sink's answer, for the reliable transaction t.
ReliableAnswer(t, i, frame, res) ==
    CASE res = "STARTED" ->
           [tx |-> [t EXCEPT !.state = "SENDING", !.due = FALSE],
            io |-> [i EXCEPT !.inflight = TRUE, !.queued = FALSE, !.reliable = TRUE],
            sent |-> <<>>, ok |-> TRUE, taken |-> 1]
      [] res = "BUSY" ->
           [tx |-> [t EXCEPT !.state = "SENDING", !.due = FALSE],
            io |-> [i EXCEPT !.inflight = FALSE, !.queued = TRUE, !.reliable = TRUE,
                             !.writable = FALSE],
            sent |-> <<>>, ok |-> TRUE, taken |-> 0]
      [] res = "SENT" ->
           [tx |-> [t EXCEPT !.state = "WAITING_ACK", !.wait = "ACK", !.due = FALSE],
            io |-> [i EXCEPT !.inflight = FALSE, !.queued = FALSE, !.reliable = FALSE],
            sent |-> <<frame>>, ok |-> TRUE, taken |-> 1]
      [] OTHER ->
           [tx |-> t,
            io |-> [i EXCEPT !.inflight = FALSE, !.queued = FALSE, !.reliable = FALSE],
            sent |-> <<>>, ok |-> FALSE, taken |-> 0]

\* wl_submit_data after the sink's answer, for an unreliable unit: io and the line.
UnreliableAnswer(i, frame, res) ==
    CASE res = "STARTED" ->
           [io |-> [i EXCEPT !.inflight = TRUE, !.queued = FALSE, !.reliable = FALSE],
            sent |-> <<>>]
      [] res = "BUSY" ->
           [io |-> [i EXCEPT !.inflight = FALSE, !.queued = TRUE, !.reliable = FALSE,
                             !.writable = FALSE],
            sent |-> <<>>]
      [] res = "SENT" ->
           [io |-> CompleteUnreliable([i EXCEPT !.inflight = FALSE, !.queued = FALSE,
                                                !.reliable = FALSE]),
            sent |-> <<frame>>]
      [] OTHER ->
           [io |-> [i EXCEPT !.inflight = FALSE, !.queued = FALSE, !.reliable = FALSE],
            sent |-> <<>>]

SubmitUnreliable(i, frame) == {UnreliableAnswer(i, frame, res) : res \in SinkResults}

\* The bytes tx_payload.data points at: retained copy, or in place in tx_unit.
Retained(m) == IF m.at = "unit" THEN m.unit.body ELSE m.payload

\* wl_send_tx_payload: encode unless a cached image is there.
Encoded(m, t) ==
    IF m.encoded THEN m
    ELSE [m EXCEPT !.unit = DataFrame([sid |-> serial.session, seq |-> t.seq], Retained(m)),
                   !.encoded = TRUE]

SendTxPayload(t, i, m) == {ReliableAnswer(t, i, Encoded(m, t).unit, res) : res \in SinkResults}

\* The pointer moves to tx_payload and the bytes stay behind.
InvalidatedNoCopy(m, handle) ==
    IF handle # 0 /\ m.at = "unit" THEN [m EXCEPT !.at = "payload", !.encoded = FALSE]
    ELSE [m EXCEPT !.encoded = FALSE]

\* wl_invalidate_tx_image: tx_unit is about to be reused.
Invalidated(m, handle) ==
    IF handle # 0 /\ m.at = "unit"
    THEN [m EXCEPT !.payload = m.unit.body, !.at = "payload", !.encoded = FALSE]
    ELSE [m EXCEPT !.encoded = FALSE]

\* wl_push_tx_event: into the slot, or remembered until the slot is free and
\* the reliable I/O lease has ended.
PushTxEvent(t, i, e, type) ==
    IF ReliableLease(i) \/ e # NoEvent
    THEN [tx |-> [t EXCEPT !.pending = type], event |-> e]
    ELSE [tx |-> t, event |-> TxEvent(type, t.handle)]

Ended(t, state, result) ==
    [t EXCEPT !.state = state, !.wait = "NONE", !.seq = 0, !.result = result, !.due = FALSE]

\* One retry is charged to the transaction.
Spent(t) == [t EXCEPT !.left = @ - 1, !.used = @ + 1]

\* Take the outcome of the last physical submission of an action.
Put(r) == io' = r.io /\ wire' = r.sent
Tried(r) == hist' = [hist EXCEPT !.tries = @ + r.taken]

-----------------------------------------------------------------------------
(* wl_init *)

FreshTx == [state |-> "IDLE", wait |-> "NONE", pending |-> "NONE", handle |-> 0, seq |-> 0,
            left |-> MaxRetries, used |-> 0, cancel |-> FALSE, result |-> "OK", due |-> FALSE]
FreshIo == [inflight |-> FALSE, reliable |-> FALSE, queued |-> FALSE, writable |-> TRUE,
            drain |-> FALSE, drain_reliable |-> FALSE, claim |-> "NONE", compl |-> 0]
FreshCtl == [pending |-> FALSE, inflight |-> FALSE, ack |-> NoId]
FreshMem == [unit |-> BadFrame, payload |-> Scrap, at |-> "payload", claim_at |-> "payload",
             encoded |-> FALSE]
FreshRx == [queue |-> <<>>, overflow |-> FALSE, leased |-> FALSE, hold |-> FALSE, last |-> NoId]
FreshHist == [told |-> [h \in 1 .. GenMax |-> 0], tries |-> 0]

Init ==
    /\ tx = FreshTx /\ io = FreshIo /\ ctl = FreshCtl /\ mem = FreshMem /\ rx = FreshRx
    /\ event = NoEvent /\ serial = [session |-> Session, seq |-> 0, gen |-> 0]
    /\ pc = "idle" /\ out = NoEvent /\ wire = <<>> /\ hist = FreshHist

-----------------------------------------------------------------------------
(* The owner's calls outside wl_poll.  out and wire describe the last step. *)

Calling == pc = "idle" /\ out' = NoEvent /\ pc' = pc

\* wl_send_frame_internal for a reliable packet whose bytes are in m.
StartReliable(m, i, seq) ==
    LET gen == NextGeneration(serial.gen)
        t == [tx EXCEPT !.handle = gen, !.seq = seq, !.wait = "NONE", !.left = MaxRetries,
                        !.used = 0]
    IN \E r \in SendTxPayload(t, i, m) :
         /\ Put(r)
         /\ serial' = [serial EXCEPT !.seq = seq + 1, !.gen = gen]
         /\ hist' = [hist EXCEPT !.tries = r.taken]
         /\ IF r.ok
            THEN /\ tx' = [r.tx EXCEPT !.result = "BUSY"]
                 /\ mem' = Encoded(m, t)
            ELSE /\ tx' = [r.tx EXCEPT !.handle = 0, !.state = "IDLE", !.seq = 0, !.wait = "NONE",
                                       !.left = 0]
                 /\ mem' = [Encoded(m, t) EXCEPT !.at = "payload", !.encoded = FALSE]

\* wl_send_frame_internal for an unreliable packet.
StartUnreliable(m, i) ==
    /\ \E r \in SubmitUnreliable(i, UnrelFrame) : Put(r)
    /\ mem' = [Invalidated(m, tx.handle) EXCEPT !.unit = UnrelFrame]
    /\ UNCHANGED tx

\* wl_send_reliable: the sequence number is spent even when the call is refused.
SendReliable ==
    /\ Calling
    /\ serial.seq < SeqMax
    /\ IF io.claim # "NONE" \/ DataBusy(TRUE)
       THEN serial' = [serial EXCEPT !.seq = @ + 1] /\ wire' = <<>> /\ UNCHANGED <<tx, io, mem, hist>>
       ELSE StartReliable([mem EXCEPT !.payload = serial.seq, !.at = "payload", !.encoded = FALSE],
                          io, serial.seq)
    /\ UNCHANGED <<ctl, rx, event>>

\* wl_send_unreliable
SendUnreliable ==
    /\ Calling
    /\ io.claim = "NONE" /\ ~DataBusy(FALSE) /\ io.compl # ComplMax
    /\ StartUnreliable(mem, io)
    /\ UNCHANGED <<ctl, rx, event, serial, hist>>

\* wl_tx_payload_claim: the application starts to write into the claimed bytes.
PayloadClaim(delivery) ==
    LET m == IF delivery = "UNRELIABLE" THEN Invalidated(mem, tx.handle) ELSE mem
        place == IF Envelope = "NATIVE" \/ (delivery = "UNRELIABLE" /\ tx.handle # 0)
                 THEN "unit" ELSE "payload"
    IN /\ Calling
       /\ io.claim = "NONE" /\ ~DataBusy(delivery = "RELIABLE")
       /\ delivery = "UNRELIABLE" => io.compl # ComplMax
       /\ io' = [io EXCEPT !.claim = delivery]
       /\ mem' = IF place = "unit" THEN [m EXCEPT !.unit = BadFrame, !.claim_at = place]
                                   ELSE [m EXCEPT !.payload = Scrap, !.claim_at = place]
       /\ wire' = <<>>
       /\ UNCHANGED <<tx, ctl, rx, event, serial, hist>>

\* wl_tx_payload_commit: the claim ends whatever the answer is.
PayloadCommit ==
    LET i == [io EXCEPT !.claim = "NONE"]
        Written == [mem EXCEPT !.at = mem.claim_at, !.encoded = FALSE,
                       !.unit.body = IF mem.claim_at = "unit" THEN serial.seq ELSE @,
                       !.payload = IF mem.claim_at = "unit" THEN @ ELSE serial.seq]
    IN /\ Calling
       /\ io.claim # "NONE"
       /\ CASE io.claim = "RELIABLE" /\ serial.seq < SeqMax /\ ~DataBusy(TRUE) ->
                  StartReliable(Written, i, serial.seq)
            [] io.claim = "UNRELIABLE" /\ ~DataBusy(FALSE) /\ io.compl # ComplMax ->
                  StartUnreliable(mem, i) /\ UNCHANGED <<serial, hist>>
            [] OTHER ->
                  /\ io' = i /\ wire' = <<>>
                  /\ serial' = IF io.claim = "RELIABLE" /\ serial.seq < SeqMax
                               THEN [serial EXCEPT !.seq = @ + 1] ELSE serial
                  /\ UNCHANGED <<tx, mem, hist>>
       /\ UNCHANGED <<ctl, rx, event>>

\* wl_tx_payload_abort, and a commit refused for its arguments.
PayloadAbort ==
    /\ Calling
    /\ io.claim # "NONE"
    /\ io' = [io EXCEPT !.claim = "NONE"]
    /\ wire' = <<>>
    /\ UNCHANGED <<tx, ctl, mem, rx, event, serial, hist>>

\* wl_tx_cancel for the active handle
Cancel ==
    /\ Calling
    /\ tx.handle # 0 /\ tx.state \in {"SENDING", "WAITING_ACK"}
    /\ tx' = [Ended(tx, "CANCELLED", "CANCELLED") EXCEPT
                 !.left = 0, !.cancel = IF ReliableLease(io) THEN TRUE ELSE @]
    /\ io' = IF ~ReliableLease(io) /\ io.queued /\ io.reliable
             THEN [io EXCEPT !.queued = FALSE, !.reliable = FALSE] ELSE io
    /\ wire' = <<>>
    /\ UNCHANGED <<ctl, mem, rx, event, serial, hist>>

\* wl_tx_can_take
CanTake == tx.handle # 0 /\ ~ReliableLease(io) /\ tx.state \in Terminal

\* wl_tx_take
Take ==
    /\ Calling
    /\ CanTake
    /\ tx' = [tx EXCEPT !.handle = 0, !.pending = "NONE", !.state = "IDLE", !.cancel = FALSE,
                        !.wait = "NONE", !.seq = 0]
    /\ mem' = [mem EXCEPT !.at = "payload", !.encoded = FALSE]
    /\ wire' = <<>>
    /\ UNCHANGED <<io, ctl, rx, event, serial, hist>>

\* wl_tx_writable
Writable ==
    /\ Calling
    /\ ~io.writable
    /\ io' = [io EXCEPT !.writable = TRUE]
    /\ wire' = <<>>
    /\ UNCHANGED <<tx, ctl, mem, rx, event, serial, hist>>

-----------------------------------------------------------------------------
(* The adapter's completions, reported on the owner's side. *)

\* The transaction fails with an I/O error.
FailIo(t, i) == PushTxEvent(Ended(t, "FAILED", "IO"), i, event, "TX_FAILED")

\* What became of the unit on the line: it was sent, or may have been despite the error.
OnLine(frame, ok) == IF ok THEN {<<frame>>} ELSE {<<>>, <<frame>>}

\* wl_tx_consumed: the line is writable again and may owe a drain report.
Reported(ok) ==
    [io EXCEPT !.writable = TRUE,
               !.drain = @ \/ (ok /\ DrainRequired),
               !.drain_reliable = IF ok /\ DrainRequired THEN ReliableLease(io) ELSE @]

\* ... and the adapter has given tx_unit back.
Freed(ok) == [Reported(ok) EXCEPT !.inflight = FALSE, !.reliable = FALSE]

\* A waiting ACK takes the line that became free.
ThenControl(i, line) ==
    \E r \in SubmitControl(ctl, i) : ctl' = r.ctl /\ io' = r.io /\ wire' = line \o r.sent

ConsumedControl(ok) ==
    /\ ctl.inflight
    /\ ctl' = [ctl EXCEPT !.pending = FALSE, !.inflight = FALSE]
    /\ io' = Reported(ok)
    /\ wire' \in OnLine(AckFrame(ctl.ack), ok)
    /\ UNCHANGED <<tx, mem, event, hist>>

ConsumedUnreliable(ok) ==
    /\ ~ctl.inflight /\ ~io.reliable
    /\ \E line \in OnLine(mem.unit, ok) :
          ThenControl(IF ok THEN CompleteUnreliable(Freed(ok)) ELSE Freed(ok), line)
    /\ UNCHANGED <<tx, mem, event, hist>>

\* The transaction was cancelled or acknowledged while the adapter held its unit.
ConsumedSettled(ok) ==
    /\ ~ctl.inflight /\ io.reliable
    /\ tx.cancel \/ tx.state # "SENDING"
    /\ tx' = [tx EXCEPT !.cancel = FALSE]
    /\ mem' = IF tx.cancel THEN [mem EXCEPT !.at = "payload", !.encoded = FALSE] ELSE mem
    /\ \E line \in OnLine(mem.unit, ok) : ThenControl(Freed(ok), line)
    /\ UNCHANGED <<event, hist>>

ReliableReport == ~ctl.inflight /\ io.reliable /\ ~tx.cancel /\ tx.state = "SENDING"

ConsumedSent ==
    /\ ReliableReport
    /\ tx' = [tx EXCEPT !.state = "WAITING_ACK", !.due = FALSE,
                        !.wait = IF Reported(TRUE).drain THEN "DRAIN" ELSE "ACK"]
    /\ ThenControl(Freed(TRUE), <<mem.unit>>)
    /\ UNCHANGED <<mem, event, hist>>

\* I/O error with retries left: a waiting ACK goes first, else the unit goes again.
ConsumedErrorQueue ==
    /\ ReliableReport /\ tx.left # 0 /\ ctl.pending
    /\ tx' = Spent(tx)
    /\ \E line \in OnLine(mem.unit, FALSE) :
          ThenControl([Freed(FALSE) EXCEPT !.queued = TRUE, !.reliable = TRUE], line)
    /\ UNCHANGED <<mem, event, hist>>

ConsumedErrorRetry ==
    /\ ReliableReport /\ tx.left # 0 /\ ~ctl.pending
    /\ \E line \in OnLine(mem.unit, FALSE), r \in SendTxPayload(tx, Freed(FALSE), mem) :
          /\ io' = r.io /\ wire' = line \o r.sent /\ Tried(r)
          /\ LET p == FailIo(r.tx, r.io)
             IN IF r.ok THEN tx' = Spent(r.tx) /\ UNCHANGED event
                ELSE tx' = p.tx /\ event' = p.event
    /\ mem' = Encoded(mem, tx)
    /\ UNCHANGED ctl

ConsumedErrorFail ==
    /\ ReliableReport /\ tx.left = 0
    /\ LET p == FailIo(tx, Freed(FALSE)) IN tx' = p.tx /\ event' = p.event
    /\ \E line \in OnLine(mem.unit, FALSE) : ThenControl(Freed(FALSE), line)
    /\ UNCHANGED <<mem, hist>>

\* wl_tx_consumed for the token of the unit in flight.
TxConsumed ==
    /\ Calling
    /\ io.inflight \/ ctl.inflight
    /\ \/ \E ok \in BOOLEAN : ConsumedControl(ok) \/ ConsumedUnreliable(ok) \/ ConsumedSettled(ok)
       \/ ConsumedSent \/ ConsumedErrorQueue \/ ConsumedErrorRetry \/ ConsumedErrorFail
    /\ UNCHANGED <<rx, serial>>

\* wl_tx_drained for the token whose drain is pending
TxDrained ==
    /\ Calling
    /\ io.drain
    /\ io' = [io EXCEPT !.drain = FALSE, !.writable = TRUE, !.drain_reliable = FALSE]
    /\ IF io.drain_reliable /\ tx.state = "WAITING_ACK" /\ tx.wait = "DRAIN"
       THEN \/ tx' = [tx EXCEPT !.wait = "ACK", !.due = FALSE] /\ UNCHANGED event
            \/ LET p == PushTxEvent([tx EXCEPT !.state = "FAILED", !.wait = "NONE", !.result = "IO",
                                               !.due = FALSE], io, event, "TX_FAILED")
               IN tx' = p.tx /\ event' = p.event
       ELSE UNCHANGED <<tx, event>>
    /\ wire' = <<>>
    /\ UNCHANGED <<ctl, mem, rx, serial, hist>>

-----------------------------------------------------------------------------
(* Receiving *)

\* wl_send_ack: one control unit; a second ACK while it is taken is dropped.
SendAck(id) ==
    IF ctl.pending THEN {[ctl |-> ctl, io |-> io, sent |-> <<>>]}
    ELSE SubmitControl([ctl EXCEPT !.pending = TRUE, !.ack = id], io)

\* An ACK is matched by its numbers alone.
AckMatchesAnyState(id) == tx.handle # 0 /\ id = [sid |-> serial.session, seq |-> tx.seq]

\* An ACK is matched by its sequence number alone.
AckMatchesAnySession(id) == tx.state \in {"WAITING_ACK", "SENDING"} /\ id.seq = tx.seq

\* wl_handle_ack
AckMatches(id) ==
    tx.state \in {"WAITING_ACK", "SENDING"} /\ id = [sid |-> serial.session, seq |-> tx.seq]

\* The acknowledged unit stays queued.
HandleAckKeepsQueue(id) ==
    IF AckMatches(id)
    THEN LET p == PushTxEvent([Ended(tx, "SUCCESS", "OK") EXCEPT !.left = 0], io, event, "TX_SUCCESS")
         IN tx' = p.tx /\ event' = p.event /\ io' = io
    ELSE UNCHANGED <<tx, event, io>>

HandleAck(id) ==
    IF AckMatches(id)
    THEN LET i == IF io.queued /\ io.reliable
                  THEN [io EXCEPT !.queued = FALSE, !.reliable = FALSE] ELSE io
             p == PushTxEvent([Ended(tx, "SUCCESS", "OK") EXCEPT !.left = 0], i, event, "TX_SUCCESS")
         IN tx' = p.tx /\ event' = p.event /\ io' = i
    ELSE UNCHANGED <<tx, event, io>>

\* wl_frame_route_view, with the event slot free and no payload borrowed.
Route(frame) ==
    CASE frame.kind = "REL" ->
           /\ \E r \in SendAck(frame.id) : ctl' = r.ctl /\ Put(r)
           /\ event' = IF frame.id = rx.last THEN event ELSE RxEvent(frame)
           /\ UNCHANGED tx
      [] frame.kind = "UNREL" ->
           event' = RxEvent(frame) /\ wire' = <<>> /\ UNCHANGED <<tx, io, ctl>>
      [] frame.kind = "ACK" ->
           HandleAck(frame.id) /\ wire' = <<>> /\ UNCHANGED ctl
      [] OTHER ->
           wire' = <<>> /\ UNCHANGED <<tx, io, ctl, event>>

\* rx_session_id and rx_sequence after frame was routed.
Remember(frame) == IF frame.kind = "REL" THEN [rx EXCEPT !.last = frame.id] ELSE rx

\* wl_feed_unit on a packet link: the unit is copied to rx_fallback and routed.
FeedUnit(frame) ==
    /\ Calling
    /\ Envelope # "COBS"
    /\ event = NoEvent /\ ~rx.leased
    /\ Route(frame)
    /\ rx' = Remember(frame)
    /\ UNCHANGED <<mem, serial, hist>>

\* A producer (interrupt, DMA or I/O thread) publishes one received unit, or
\* finds no room: a stream latches the overflow, a packet queue drops it.
Arrive(frame) ==
    /\ rx' = IF Len(rx.queue) < RxMax THEN [rx EXCEPT !.queue = Append(@, frame)]
             ELSE [rx EXCEPT !.overflow = (Envelope = "COBS")]
    /\ UNCHANGED <<tx, io, ctl, mem, event, serial, pc, out, wire, hist>>

\* wl_feed_recover_reset
RecoverReset ==
    /\ Calling
    /\ Envelope = "COBS" /\ ~rx.leased
    /\ rx' = [rx EXCEPT !.queue = <<>>]
    /\ wire' = <<>>
    /\ UNCHANGED <<tx, io, ctl, mem, event, serial, hist>>

\* wl_event_release of the borrowed payload
EventRelease ==
    /\ Calling
    /\ rx.leased
    /\ rx' = [rx EXCEPT !.leased = FALSE, !.hold = FALSE,
                        !.queue = IF rx.hold THEN Tail(@) ELSE @]
    /\ wire' = <<>>
    /\ UNCHANGED <<tx, io, ctl, mem, event, serial, hist>>

-----------------------------------------------------------------------------
(* wl_link_get_readiness *)

\* wl_rx_runnable
RxRunnable == ~rx.leased /\ (rx.overflow \/ rx.queue # <<>>)

\* A unit waiting for a busy sink counts as work.
RunnableWhileBusy ==
    \/ event # NoEvent \/ io.compl # 0
    \/ tx.pending # "NONE" /\ ~ReliableLease(io)
    \/ ~ctl.pending /\ RxRunnable
    \/ (ctl.pending \/ io.queued) /\ ~io.inflight /\ ~ctl.inflight /\ ~io.drain
    \/ ~ctl.pending /\ ~io.inflight /\ ~io.queued /\ io.claim = "NONE" /\ RetryDue(tx)
\* An expired ACK deadline is not work.
RunnableWithoutDeadline ==
    \/ event # NoEvent \/ io.compl # 0
    \/ tx.pending # "NONE" /\ ~ReliableLease(io)
    \/ ~ctl.pending /\ RxRunnable
    \/ /\ ctl.pending \/ io.queued
       /\ io.writable /\ ~io.inflight /\ ~ctl.inflight /\ ~io.drain /\ io.claim = "NONE"

\* wl_link_get_readiness: out_hint->runnable
Runnable ==
    \/ event # NoEvent \/ io.compl # 0
    \/ tx.pending # "NONE" /\ ~ReliableLease(io)
    \/ ~ctl.pending /\ RxRunnable
    \/ /\ ctl.pending \/ io.queued
       /\ io.writable /\ ~io.inflight /\ ~ctl.inflight /\ ~io.drain /\ io.claim = "NONE"
    \/ ~ctl.pending /\ ~io.inflight /\ ~io.queued /\ io.claim = "NONE" /\ RetryDue(tx)

-----------------------------------------------------------------------------
(* wl_poll *)

\* The owner's next clock snapshot has reached the ACK deadline.
Tick ==
    /\ AckTimer /\ tx.state = "WAITING_ACK" /\ tx.wait = "ACK" /\ ~tx.due
    /\ tx' = [tx EXCEPT !.due = TRUE]
    /\ UNCHANGED <<io, ctl, mem, rx, event, serial, pc, out, wire, hist>>

\* wl_poll: is there anything for wl_poll_transport_progress to do?
NeedsProgress ==
    \/ ctl.pending \/ tx.pending # "NONE" \/ io.queued \/ tx.state = "WAITING_ACK"
    \/ event = NoEvent /\ ~rx.leased /\ (Envelope = "COBS" \/ RxMax # 0)

\* wl_poll, then wl_poll_transport_progress: the queued ACK, the pending terminal
\* event, and the discard of a stream that overflowed.
PollBegin ==
    /\ pc = "idle"
    /\ IF NeedsProgress
       THEN \E r \in SubmitControl(ctl, io) :
              LET push == tx.pending # "NONE" /\ event = NoEvent /\ ~ReliableLease(r.io)
                  receive == ~r.ctl.pending /\ event = NoEvent /\ ~push /\ ~rx.leased
              IN /\ ctl' = r.ctl /\ Put(r)
                 /\ event' = IF push THEN TxEvent(tx.pending, tx.handle) ELSE event
                 /\ tx' = IF push THEN [tx EXCEPT !.pending = "NONE"] ELSE tx
                 /\ rx' = IF receive /\ rx.overflow
                          THEN [rx EXCEPT !.overflow = FALSE, !.queue = <<>>] ELSE rx
                 /\ pc' = IF receive THEN "rx" ELSE "queued"
       ELSE wire' = <<>> /\ pc' = "finish" /\ UNCHANGED <<tx, io, ctl, event, rx>>
    /\ out' = NoEvent
    /\ UNCHANGED <<mem, serial, hist>>

\* wl_frame_process_stream, wl_frame_process_units: one received unit.  A DATA
\* payload is borrowed in place (hold) or, when a stream wrapped, from a copy.
PollReceive ==
    /\ pc = "rx"
    /\ rx.queue # <<>>
    /\ LET frame == Head(rx.queue)
           Next1 == [Remember(frame) EXCEPT !.queue = Tail(@)]
       IN /\ Route(frame)
          /\ IF IsRx(event')
             THEN /\ pc' = "queued"
                  /\ \/ rx' = [Remember(frame) EXCEPT !.hold = TRUE]
                     \/ Envelope = "COBS" /\ rx' = Next1
             ELSE /\ pc' = IF event' = NoEvent THEN "rx" ELSE "queued"
                  /\ rx' = Next1
    /\ UNCHANGED <<mem, serial, out, hist>>

PollReceived ==
    /\ pc = "rx"
    /\ rx.queue = <<>>
    /\ pc' = "queued" /\ wire' = <<>>
    /\ UNCHANGED <<tx, io, ctl, mem, rx, event, serial, out, hist>>

\* wl_poll_transport_progress: the DATA unit the sink once refused.
QueuedReady ==
    /\ event = NoEvent /\ ~ctl.pending /\ io.claim = "NONE"
    /\ io.queued /\ ~io.inflight /\ ~io.drain /\ io.writable

PollQueued ==
    /\ pc = "queued" /\ pc' = "timer"
    /\ IF ~QueuedReady
       THEN wire' = <<>> /\ UNCHANGED <<tx, io, mem, event, hist>>
       ELSE IF io.reliable
       THEN \E r \in SendTxPayload(tx, io, mem) :
              /\ Put(r) /\ Tried(r)
              /\ mem' = Encoded(mem, tx)
              /\ LET p == FailIo(r.tx, r.io)
                 IN IF r.ok THEN tx' = r.tx /\ UNCHANGED event ELSE tx' = p.tx /\ event' = p.event
       ELSE /\ \E r \in SubmitUnreliable(io, mem.unit) : Put(r)
            /\ UNCHANGED <<tx, mem, event, hist>>
    /\ UNCHANGED <<ctl, rx, serial, out>>

\* The timer runs only while retries are left.
TimerReadyToRetry ==
    /\ event = NoEvent /\ ~ctl.pending /\ ~io.inflight /\ ~io.queued /\ io.claim = "NONE"
    /\ RetryDue(tx) /\ tx.left # 0

\* wl_poll_transport_progress: the ACK timer.
TimerReady ==
    /\ event = NoEvent /\ ~ctl.pending /\ ~io.inflight /\ ~io.queued /\ io.claim = "NONE"
    /\ RetryDue(tx)

PollTimer ==
    /\ pc = "timer" /\ pc' = "finish"
    /\ IF ~TimerReady
       THEN wire' = <<>> /\ UNCHANGED <<tx, io, mem, event, hist>>
       ELSE IF tx.left = 0
       THEN LET p == PushTxEvent(Ended(tx, "FAILED", "TIMEOUT"), io, event, "TX_TIMEOUT")
            IN tx' = p.tx /\ event' = p.event /\ wire' = <<>> /\ UNCHANGED <<io, mem, hist>>
       ELSE \E r \in SendTxPayload(tx, io, mem) :
              /\ Put(r) /\ Tried(r)
              /\ mem' = Encoded(mem, tx)
              /\ LET p == FailIo(r.tx, r.io)
                 IN IF r.ok
                    THEN tx' = Spent(r.tx) /\ UNCHANGED event
                    ELSE tx' = p.tx /\ event' = p.event
    /\ UNCHANGED <<ctl, rx, serial, out>>

\* wl_poll: hand one event to the caller.
PollReturn ==
    LET done == event = NoEvent /\ io.compl # 0
        e == IF done THEN TxEvent("TX_SUCCESS", 0) ELSE event
    IN /\ pc = "finish" /\ pc' = "idle"
       /\ io' = IF done THEN [io EXCEPT !.compl = @ - 1] ELSE io
       /\ event' = NoEvent
       /\ out' = e
       /\ rx' = IF IsRx(e) THEN [rx EXCEPT !.leased = TRUE] ELSE rx
       /\ hist' = IF e.handle # 0 THEN [hist EXCEPT !.told[e.handle] = @ + 1] ELSE hist
       /\ wire' = <<>>
       /\ UNCHANGED <<tx, ctl, mem, serial>>

-----------------------------------------------------------------------------
Owner ==
    \/ SendReliable \/ SendUnreliable \/ PayloadCommit \/ PayloadAbort
    \/ \E delivery \in {"RELIABLE", "UNRELIABLE"} : PayloadClaim(delivery)
    \/ Cancel \/ Take \/ EventRelease \/ RecoverReset
    \/ \E frame \in RxFrames : FeedUnit(frame)

Adapter == Writable \/ TxConsumed \/ TxDrained

Poll == PollBegin \/ PollReceive \/ PollReceived \/ PollQueued \/ PollTimer \/ PollReturn

Produce == \E frame \in RxFrames : Arrive(frame)

Next == Owner \/ Adapter \/ Poll \/ Produce \/ Tick

Spec == Init /\ [][Next]_vars

-----------------------------------------------------------------------------
(* Properties *)

Frame == [kind : {"REL", "UNREL", "ACK", "BAD"}, id : Id, body : Int]
Event == [type : {"NONE", "RELIABLE_RX", "UNRELIABLE_RX"} \cup TxEvents, handle : 0 .. GenMax,
          frame : Frame]

TxType == [state : TxStates, wait : {"NONE", "ACK", "DRAIN"}, pending : {"NONE"} \cup TxEvents,
           handle : 0 .. GenMax, seq : 0 .. SeqMax, left : 0 .. MaxRetries, used : 0 .. MaxRetries,
           cancel : BOOLEAN, result : {"OK", "BUSY", "IO", "TIMEOUT", "CANCELLED"},
           due : BOOLEAN]
IoType == [inflight : BOOLEAN, reliable : BOOLEAN, queued : BOOLEAN, writable : BOOLEAN,
           drain : BOOLEAN, drain_reliable : BOOLEAN, claim : {"NONE", "RELIABLE", "UNRELIABLE"},
           compl : 0 .. ComplMax]
CtlType == [pending : BOOLEAN, inflight : BOOLEAN, ack : Id]
MemType == [unit : [kind : {"REL", "UNREL", "ACK", "BAD"}, id : Id, body : Body], payload : Body,
            at : {"payload", "unit"}, claim_at : {"payload", "unit"}, encoded : BOOLEAN]
RxType == [queue : Seq(Frame), overflow : BOOLEAN, leased : BOOLEAN, hold : BOOLEAN, last : Id]

\* The context's fields stay within their types.
TypeOK ==
    /\ tx \in TxType /\ io \in IoType /\ ctl \in CtlType /\ mem \in MemType
    /\ rx \in RxType /\ Len(rx.queue) <= RxMax
    /\ event \in Event /\ out \in Event
    /\ serial \in [session : Nat \ {0}, seq : 0 .. SeqMax, gen : 0 .. GenMax]
    /\ pc \in {"idle", "rx", "queued", "timer", "finish"}
    /\ wire \in Seq(Frame)
    /\ hist \in [told : [1 .. GenMax -> Nat], tries : Nat]

\* The line has one user: the adapter never holds tx_unit and control_unit at
\* once, no unit waits behind one in flight, and the application never writes
\* into a claim while tx_unit is in flight or waiting (protocol.c: wl_data_busy,
\* wl_submit_control).
PhysicalExclusive ==
    /\ ~(io.inflight /\ ctl.inflight)
    /\ ctl.inflight => ctl.pending
    /\ ~(io.inflight /\ io.queued)
    /\ io.claim # "NONE" => ~io.inflight /\ ~io.queued

\* A transaction in SENDING always has its unit with the adapter or queued for
\* the next poll, and a reliable unit queued belongs to a transaction in SENDING:
\* no path leaves a transaction that nothing will ever move again.
SendingIsCarried ==
    /\ tx.state = "SENDING" => ReliableLease(io) \/ (io.queued /\ io.reliable)
    /\ io.queued /\ io.reliable => tx.state = "SENDING"

\* Every reliable DATA unit on the line or with the adapter carries the bytes the
\* application committed under that sequence number, whatever telemetry, claims,
\* retries and errors have reused tx_unit in between (wl_invalidate_tx_image).
RetransmitFaithful ==
    /\ ReliableLease(io) => mem.unit.kind = "REL" /\ mem.unit.body = mem.unit.id.seq
    /\ ReliableLease(io) /\ tx.state = "SENDING" => mem.unit.id = [sid |-> serial.session, seq |-> tx.seq]
    /\ \A k \in DOMAIN wire : wire[k].kind = "REL" => wire[k].body = wire[k].id.seq

\* A settled transaction stays settled: no late ACK, completion, drain report or
\* timer reopens it, changes its result or sends its unit again, and wl_poll reports its
\* end at most once.  A handle is 16 bits and is issued again after it wraps, so the
\* count is stated of the first GenMax requests.
SettledIsFinal ==
    [][/\ tx.state \in Terminal /\ tx'.handle = tx.handle =>
            tx'.state = tx.state /\ tx'.result = tx.result /\ hist'.tries = hist.tries
       /\ serial'.seq <= GenMax => \A h \in 1 .. GenMax : hist'.told[h] <= 1]_vars

\* Bytes the adapter is reading do not change under it.
LeasedBytesStable ==
    [][/\ io.inflight /\ io'.inflight => mem'.unit = mem.unit
       /\ ctl.inflight /\ ctl'.inflight => ctl'.ack = ctl.ack]_vars

\* docs/execution-contract.md:128 says the drain report "gates new physical
\* submissions": nothing is submitted while the previous unit has not drained.
DrainGatesSubmission == io.drain => ~io.inflight /\ ~ctl.inflight
=============================================================================
