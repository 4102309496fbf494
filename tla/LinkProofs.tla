----------------------------- MODULE LinkProofs -----------------------------
(***************************************************************************)
(* For every configuration of Link and of its readiness query.             *)
(*                                                                         *)
(* IInv: the types, the exclusive use of the line (PhysicalExclusive) and  *)
(* that a transaction in SENDING is carried (SendingIsCarried).  None of   *)
(* them holds of a step on its own: that the adapter never holds both      *)
(* units needs that nothing waits behind a unit in flight and that a claim *)
(* excludes both, that a transaction is carried needs who owns the unit in *)
(* flight, and the types need that the retries left and used share one     *)
(* budget and that a borrowed unit is still stored.                        *)
(*                                                                         *)
(* Good adds whose bytes the buffers hold (RetransmitFaithful and          *)
(* LeasedBytesStable) and where the end of a handle is announced           *)
(* (SettledIsFinal).  SchedInv adds what a hint promised about the rest of *)
(* the poll that follows it (NoSpin and SleepIsSafe).                      *)
(***************************************************************************)
EXTENDS LinkSchedule, TLAPS

Budget == tx.used + tx.left <= MaxRetries

\* A borrowed unit stays stored until it is released: it is leased to the
\* application, or the event that will lease it is in the slot of this poll.  A poll
\* receives only while nothing is borrowed and the slot is free.
RxHeld ==
    /\ rx.hold => /\ rx.queue # <<>>
                  /\ rx.leased \/ (pc \in {"queued", "timer", "finish"} /\ IsRx(event))
    /\ pc = "rx" => ~rx.leased /\ event = NoEvent

\* A cancel that waits for the adapter belongs to a cancelled transaction, and no
\* transaction is open without a handle.
CancelSettles == (tx.cancel => tx.state = "CANCELLED") /\ (tx.handle = 0 => tx.state = "IDLE")

\* The parts of IInv by the state they speak of: the transaction and the line, the
\* context's buffers and counters, and the received units with the event slot.
LineInv ==
    /\ tx \in TxType /\ io \in IoType /\ ctl \in CtlType
    /\ PhysicalExclusive /\ SendingIsCarried /\ Budget /\ CancelSettles
StoreInv ==
    /\ mem \in MemType
    /\ serial \in [session : Nat \ {0}, seq : 0 .. SeqMax, gen : 0 .. GenMax]
    /\ wire \in Seq(Frame)
    /\ hist \in [told : [1 .. GenMax -> Nat], tries : Nat]
EventInv ==
    /\ rx \in RxType /\ Len(rx.queue) <= RxMax /\ RxHeld
    /\ event \in Event /\ out \in Event
    /\ pc \in {"idle", "rx", "queued", "timer", "finish"}

IInv == LineInv /\ StoreInv /\ EventInv

-----------------------------------------------------------------------------
(* The operators the handlers share *)

\* What wl_submit_control may change: the control unit and tx_writable, and it starts
\* control I/O only while no DATA unit is in flight.
LEMMA SubmitControlFacts ==
    ASSUME NEW c \in CtlType, NEW i \in IoType, NEW r \in SubmitControl(c, i)
    PROVE  /\ r.ctl \in CtlType /\ r.io \in IoType
           /\ r.io.inflight = i.inflight /\ r.io.reliable = i.reliable /\ r.io.queued = i.queued
           /\ r.io.drain = i.drain /\ r.io.drain_reliable = i.drain_reliable
           /\ r.io.claim = i.claim /\ r.io.compl = i.compl
           /\ r.ctl.pending => c.pending
           /\ r.ctl.ack = c.ack
           /\ c.inflight => r.ctl = c
           /\ r.ctl.inflight => c.inflight \/ (r.ctl.pending /\ ~i.inflight)
<1>1. CASE ~(c.pending /\ ~c.inflight /\ ~i.inflight /\ ~i.drain /\ i.writable)
  BY <1>1 DEF SubmitControl, CtlType, IoType
<1>2. CASE c.pending /\ ~c.inflight /\ ~i.inflight /\ ~i.drain /\ i.writable
  <2>1. \/ r.ctl = [c EXCEPT !.pending = FALSE] /\ r.io = i
        \/ r.ctl = [c EXCEPT !.inflight = TRUE] /\ r.io = i
        \/ r.ctl = c /\ r.io = [i EXCEPT !.writable = FALSE]
    <3>1. PICK res \in SinkResults : r = ControlAnswer(c, i, res)
      BY <1>2, Zenon DEF SubmitControl
    <3> QED BY <3>1, Zenon DEF ControlAnswer
  <2>2. CASE r.ctl = [c EXCEPT !.pending = FALSE] /\ r.io = i
    BY <1>2, <2>2, Zenon DEF CtlType
  <2>3. CASE r.ctl = [c EXCEPT !.inflight = TRUE] /\ r.io = i
    BY <1>2, <2>3, Zenon DEF CtlType
  <2>4. CASE r.ctl = c /\ r.io = [i EXCEPT !.writable = FALSE]
    BY <1>2, <2>4, Zenon DEF IoType
  <2> QED BY <2>1, <2>2, <2>3, <2>4, Zenon
<1> QED BY <1>1, <1>2, Zenon

\* What wl_submit_data leaves behind for a reliable unit: carried (in flight or
\* queued), sent and waiting for its ACK, or refused with the transaction untouched.
LEMMA ReliableFacts ==
    ASSUME NEW t \in TxType, NEW i \in IoType, NEW m, NEW r \in SendTxPayload(t, i, m)
    PROVE  /\ r.tx \in TxType /\ r.io \in IoType /\ r.ok \in BOOLEAN
           /\ r.io.drain = i.drain /\ r.io.drain_reliable = i.drain_reliable
           /\ r.io.claim = i.claim /\ r.io.compl = i.compl
           /\ r.tx.handle = t.handle /\ r.tx.seq = t.seq /\ r.tx.pending = t.pending
           /\ r.tx.left = t.left /\ r.tx.used = t.used /\ r.tx.cancel = t.cancel
           /\ r.tx.result = t.result /\ r.taken \in {0, 1}
           /\ \/ r.ok /\ r.tx.state = "SENDING" /\ r.tx.wait = t.wait
                 /\ ReliableLease(r.io) /\ ~r.io.queued
              \/ r.ok /\ r.tx.state = "SENDING" /\ r.tx.wait = t.wait
                 /\ ~r.io.inflight /\ r.io.queued /\ r.io.reliable
              \/ r.ok /\ r.tx.state = "WAITING_ACK" /\ r.tx.wait = "ACK" 
                 /\ ~r.io.inflight /\ ~r.io.queued
              \/ ~r.ok /\ r.tx = t /\ ~r.io.inflight /\ ~r.io.queued
<1>1. PICK res \in SinkResults : r = ReliableAnswer(t, i, Encoded(m, t).unit, res)
  BY Zenon DEF SendTxPayload
<1>2. CASE res = "STARTED"
  BY <1>1, <1>2, Zenon DEF ReliableAnswer, TxType, IoType, ReliableLease, TxStates
<1>3. CASE res = "BUSY"
  BY <1>1, <1>3, Zenon DEF ReliableAnswer, TxType, IoType, TxStates
<1>4. CASE res = "SENT"
  BY <1>1, <1>4, ZenonT(60) DEF ReliableAnswer, TxType, IoType, TxStates
<1>5. CASE res \notin {"STARTED", "BUSY", "SENT"}
  BY <1>1, <1>5, ZenonT(60) DEF ReliableAnswer, TxType, IoType
<1> QED BY <1>2, <1>3, <1>4, <1>5, Zenon

\* What wl_submit_data leaves behind for an unreliable unit.
LEMMA UnreliableFacts ==
    ASSUME NEW i \in IoType, NEW frame, NEW r \in SubmitUnreliable(i, frame)
    PROVE  /\ r.io \in IoType
           /\ r.io.drain = i.drain /\ r.io.drain_reliable = i.drain_reliable
           /\ r.io.claim = i.claim
           /\ ~r.io.reliable /\ ~(r.io.inflight /\ r.io.queued)
<1>1. PICK res \in SinkResults : r = UnreliableAnswer(i, frame, res)
  BY Zenon DEF SubmitUnreliable
<1>2. CASE res = "STARTED"
  BY <1>1, <1>2, Zenon DEF UnreliableAnswer, IoType
<1>3. CASE res = "BUSY"
  BY <1>1, <1>3, Zenon DEF UnreliableAnswer, IoType
<1>4. CASE res = "SENT"
  <2> DEFINE j == [i EXCEPT !.inflight = FALSE, !.queued = FALSE, !.reliable = FALSE]
  <2>1. j \in IoType /\ ~j.inflight /\ ~j.queued /\ ~j.reliable /\ j.claim = i.claim
        /\ j.drain = i.drain /\ j.drain_reliable = i.drain_reliable
    BY Zenon DEF IoType
  <2>2. r.io = CompleteUnreliable(j)
    BY <1>1, <1>4, Zenon DEF UnreliableAnswer
  <2> HIDE DEF j
  <2>3. r.io = j \/ (j.compl # ComplMax /\ r.io = [j EXCEPT !.compl = @ + 1])
    BY <2>2, Zenon DEF CompleteUnreliable
  <2>4. j.compl # ComplMax => j.compl + 1 \in 0 .. ComplMax
    BY <2>1, ConfigAssumption DEF IoType
  <2> QED BY <2>1, <2>2, <2>3, <2>4, Zenon DEF IoType
<1>5. CASE res \notin {"STARTED", "BUSY", "SENT"}
  BY <1>1, <1>5, Zenon DEF UnreliableAnswer, IoType
<1> QED BY <1>2, <1>3, <1>4, <1>5, Zenon

\* wl_complete_unreliable_tx saturates.
LEMMA CompleteFacts ==
    ASSUME NEW j \in IoType
    PROVE  LET k == CompleteUnreliable(j) IN
           /\ k \in IoType /\ k.inflight = j.inflight /\ k.reliable = j.reliable
           /\ k.queued = j.queued /\ k.claim = j.claim /\ k.drain = j.drain
           /\ k.drain_reliable = j.drain_reliable
<1>1. j.compl # ComplMax => j.compl + 1 \in 0 .. ComplMax
  BY ConfigAssumption DEF IoType
<1> QED BY <1>1, Zenon DEF CompleteUnreliable, IoType

\* Ending a transaction keeps its handle, its pending event and its accounting.
LEMMA EndedFacts ==
    ASSUME NEW t \in TxType, NEW state \in Terminal,
           NEW result \in {"OK", "IO", "TIMEOUT", "CANCELLED"}
    PROVE  LET u == Ended(t, state, result) IN
           /\ u \in TxType /\ u.state = state /\ u.left = t.left /\ u.used = t.used
           /\ u.handle = t.handle /\ u.cancel = t.cancel
<1>1. 0 \in 0 .. SeqMax /\ state \in TxStates
  BY ConfigAssumption DEF TxStates, Terminal
<1> QED BY <1>1, Zenon DEF Ended, TxType

\* wl_push_tx_event changes the transaction's pending event and the slot only, and
\* never replaces an event in the slot.
LEMMA PushFacts ==
    ASSUME NEW t \in TxType, NEW i, NEW e \in Event, NEW type \in TxEvents
    PROVE  LET p == PushTxEvent(t, i, e, type) IN
           /\ p.tx \in TxType /\ p.event \in Event
           /\ p.tx.state = t.state /\ p.tx.left = t.left /\ p.tx.used = t.used
           /\ p.tx.handle = t.handle /\ p.tx.cancel = t.cancel
           /\ e # NoEvent => p.event = e
<1>1. TxEvent(type, t.handle) \in Event
  BY DEF TxEvent, Event, TxType, BadFrame, Frame, NoId, Id, Scrap
<1> QED BY <1>1, Zenon DEF PushTxEvent, TxType

\* A retry moves from the retries left to the retries used.
LEMMA SpentFacts ==
    ASSUME NEW t \in TxType, t.left # 0, t.used + t.left <= MaxRetries
    PROVE  /\ Spent(t) \in TxType /\ Spent(t).used + Spent(t).left <= MaxRetries
           /\ Spent(t).state = t.state /\ Spent(t).handle = t.handle
           /\ Spent(t).cancel = t.cancel
<1> DEFINE l == t.left - 1
           u == t.used + 1
<1>1. l \in 0 .. MaxRetries /\ u \in 0 .. MaxRetries /\ u + l <= MaxRetries
  BY ConfigAssumption DEF TxType
<1>2. Spent(t) = [t EXCEPT !.left = l, !.used = u]
  BY Zenon DEF Spent, TxType
<1> HIDE DEF l, u
<1> QED BY <1>1, <1>2, Zenon DEF TxType

\* wl_send_tx_payload writes a unit of the context's own bytes.
LEMMA EncodedFacts ==
    ASSUME NEW m \in MemType, NEW t \in TxType, serial.session \in Nat
    PROVE  Encoded(m, t) \in MemType /\ Encoded(m, t).unit \in Frame
<1>1. Retained(m) \in Body
  BY Zenon DEF Retained, MemType
<1>2. DataFrame([sid |-> serial.session, seq |-> t.seq], Retained(m))
        \in [kind : {"REL", "UNREL", "ACK", "BAD"}, id : Id, body : Body]
  BY <1>1, ConfigAssumption DEF DataFrame, TxType, Id
<1>3. Encoded(m, t) \in MemType
  BY <1>2, Zenon DEF Encoded, MemType
<1>4. Body \subseteq Int
  BY DEF Body, Scrap
<1> QED BY <1>3, <1>4, Zenon DEF MemType, Frame

\* wl_invalidate_tx_image moves bytes between the context's own buffers.
LEMMA InvalidatedFacts ==
    ASSUME NEW m \in MemType, NEW h
    PROVE  Invalidated(m, h) \in MemType
BY Zenon DEF Invalidated, MemType

\* Whatever a sink answers, what it put on the line is at most the unit it was given.
LEMMA SentFacts ==
    /\ \A f \in Frame : <<f>> \in Seq(Frame)
    /\ <<>> \in Seq(Frame)
    /\ \A s1, s2 \in Seq(Frame) : s1 \o s2 \in Seq(Frame)
    /\ \A c \in CtlType : \A i : \A r \in SubmitControl(c, i) : r.sent \in Seq(Frame)
    /\ \A t, i, m : Encoded(m, t).unit \in Frame =>
          \A r \in SendTxPayload(t, i, m) : r.sent \in Seq(Frame)
    /\ \A f \in Frame : \A i : \A r \in SubmitUnreliable(i, f) : r.sent \in Seq(Frame)
<1>1. /\ \A f \in Frame : <<f>> \in Seq(Frame)
      /\ <<>> \in Seq(Frame)
      /\ \A s1, s2 \in Seq(Frame) : s1 \o s2 \in Seq(Frame)
  OBVIOUS
<1>2. ASSUME NEW c \in CtlType, NEW i, NEW r \in SubmitControl(c, i)
      PROVE  r.sent \in Seq(Frame)
  <2>1. r.sent = <<>> \/ r.sent = <<AckFrame(c.ack)>>
    <3>1. CASE r = [ctl |-> c, io |-> i, sent |-> <<>>]
      BY <3>1, Zenon
    <3>2. CASE \E res \in SinkResults : r = ControlAnswer(c, i, res)
      BY <3>2 DEF ControlAnswer
    <3> QED BY <3>1, <3>2, <1>2, Zenon DEF SubmitControl
  <2>2. AckFrame(c.ack) \in Frame
    BY DEF AckFrame, Frame, CtlType, Scrap
  <2> QED BY <1>1, <2>1, <2>2, Zenon
<1>3. ASSUME NEW t, NEW i, NEW m, Encoded(m, t).unit \in Frame, NEW r \in SendTxPayload(t, i, m)
      PROVE  r.sent \in Seq(Frame)
  <2>1. PICK res \in SinkResults : r = ReliableAnswer(t, i, Encoded(m, t).unit, res)
    BY <1>3, Zenon DEF SendTxPayload
  <2>2. r.sent = <<>> \/ r.sent = <<Encoded(m, t).unit>>
    BY <2>1, Zenon DEF ReliableAnswer
  <2> QED BY <1>1, <1>3, <2>2, Zenon
<1>4. ASSUME NEW i, NEW f \in Frame, NEW r \in SubmitUnreliable(i, f)
      PROVE  r.sent \in Seq(Frame)
  <2>1. PICK res \in SinkResults : r = UnreliableAnswer(i, f, res)
    BY <1>4, Zenon DEF SubmitUnreliable
  <2>2. r.sent = <<>> \/ r.sent = <<f>>
    BY <2>1, Zenon DEF UnreliableAnswer
  <2> QED BY <1>1, <1>4, <2>2, Zenon
<1> QED BY <1>1, <1>2, <1>3, <1>4, Zenon

-----------------------------------------------------------------------------
(* The owner's calls *)

\* NoEvent, BadFrame and the frames the context builds are well typed.
LEMMA Constants ==
    /\ NoEvent \in Event /\ BadFrame \in Frame /\ UnrelFrame \in Frame /\ NoId \in Id
    /\ BadFrame \in [kind : {"REL", "UNREL", "ACK", "BAD"}, id : Id, body : Body]
    /\ UnrelFrame \in [kind : {"REL", "UNREL", "ACK", "BAD"}, id : Id, body : Body]
    /\ Scrap \in Body
    /\ \A f \in Frame : RxEvent(f) \in Event
    /\ \A m \in MemType : m.unit \in Frame
BY ConfigAssumption DEF NoEvent, Event, BadFrame, UnrelFrame, Frame, NoId, Id, Scrap, Body, RxEvent, MemType

\* A context as wl_init leaves it, under any session: the initial state, and the state
\* after a restart.
Started ==
    /\ tx = FreshTx /\ io = FreshIo /\ ctl = FreshCtl /\ mem = FreshMem /\ rx = FreshRx
    /\ event = NoEvent /\ serial \in [session : Nat \ {0}, seq : {0}, gen : {0}]
    /\ pc = "idle" /\ out = NoEvent /\ wire = <<>> /\ hist = FreshHist

\* Init is such a state.
LEMMA InitStarted == Init => Started
BY ConfigAssumption DEF Init, Started

\* The state wl_init leaves satisfies the invariant.
LEMMA StartedInv == Started => IInv
<1> SUFFICES ASSUME Started PROVE IInv
  BY Zenon
<1>1. LineInv
  BY ConfigAssumption, Constants DEF Started, LineInv, FreshTx, FreshIo, FreshCtl, TxType, IoType, CtlType,
     TxStates, PhysicalExclusive, SendingIsCarried, Budget, CancelSettles, ReliableLease
<1>2. StoreInv
  BY ConfigAssumption, Constants, SentFacts DEF Started, StoreInv, FreshMem, MemType, FreshHist
<1>3. EventInv
  BY ConfigAssumption, Constants DEF Started, EventInv, FreshRx, RxType, RxHeld
<1> QED BY <1>1, <1>2, <1>3, Zenon DEF IInv

\* The invariant holds at the start.
LEMMA InitInv == Init => IInv
BY InitStarted, StartedInv, Zenon

\* wl_send_frame_internal starts a transaction on a free line.
LEMMA StartReliableInv ==
    ASSUME LineInv, StoreInv, NEW m \in MemType, NEW i \in IoType, NEW seq \in 0 .. SeqMax,
           seq # SeqMax, tx.handle = 0, ~i.inflight, ~i.queued, i.claim = "NONE", ~ctl.inflight,
           StartReliable(m, i, seq), UNCHANGED ctl
    PROVE  LineInv' /\ StoreInv'
<1> DEFINE gen == NextGeneration(serial.gen)
           t == [tx EXCEPT !.handle = gen, !.seq = seq, !.wait = "NONE", !.left = MaxRetries,
                           !.used = 0]
<1>1. /\ gen \in 0 .. GenMax /\ gen # 0 /\ seq + 1 \in 0 .. SeqMax
      /\ 0 \in 0 .. MaxRetries /\ MaxRetries \in 0 .. MaxRetries /\ 0 \in 0 .. SeqMax
      /\ 0 \in 0 .. GenMax /\ MaxRetries + 0 <= MaxRetries /\ 0 + MaxRetries <= MaxRetries
  BY ConfigAssumption DEF NextGeneration, StoreInv
<1>2. PICK r \in SendTxPayload(t, i, m) :
         /\ Put(r)
         /\ serial' = [serial EXCEPT !.seq = seq + 1, !.gen = gen]
         /\ hist' = [hist EXCEPT !.tries = r.taken]
         /\ IF r.ok
            THEN /\ tx' = [r.tx EXCEPT !.result = "BUSY"]
                 /\ mem' = Encoded(m, t)
            ELSE /\ tx' = [r.tx EXCEPT !.handle = 0, !.state = "IDLE", !.seq = 0, !.wait = "NONE",
                                       !.left = 0]
                 /\ mem' = [Encoded(m, t) EXCEPT !.at = "payload", !.encoded = FALSE]
  BY Zenon DEF StartReliable
<1> HIDE DEF gen
<1>3. t \in TxType /\ t.used = 0 /\ t.left = MaxRetries /\ t.handle = gen /\ ~t.cancel
  BY <1>1, Zenon DEF LineInv, TxType, CancelSettles
<1> HIDE DEF t
<1>4. Encoded(m, t) \in MemType /\ Encoded(m, t).unit \in Frame
  BY <1>3, EncodedFacts, Zenon DEF StoreInv
<1>5. r.sent \in Seq(Frame)
  BY <1>4, SentFacts, Zenon
<1>6. /\ r.tx \in TxType /\ r.io \in IoType /\ r.io.claim = "NONE" /\ r.taken \in {0, 1}
      /\ r.tx.left = MaxRetries /\ r.tx.used = 0 /\ r.tx.handle = gen /\ ~r.tx.cancel
      /\ ~(r.io.inflight /\ r.io.queued)
      /\ r.ok => \/ r.tx.state = "SENDING" /\ (ReliableLease(r.io) \/ (r.io.queued /\ r.io.reliable))
                 \/ r.tx.state = "WAITING_ACK" /\ ~r.io.queued
      /\ ~r.ok => ~r.io.inflight /\ ~r.io.queued
  BY <1>2, <1>3, ReliableFacts DEF ReliableLease
<1>7. StoreInv'
  <2>1. mem' \in MemType
    BY <1>2, <1>4, ZenonT(60) DEF MemType
  <2>2. serial' \in [session : Nat \ {0}, seq : 0 .. SeqMax, gen : 0 .. GenMax]
    BY <1>1, <1>2, Zenon DEF StoreInv
  <2>3. hist' \in [told : [1 .. GenMax -> Nat], tries : Nat]
    BY <1>2, <1>6 DEF StoreInv
  <2> QED BY <1>2, <1>5, <2>1, <2>2, <2>3, Zenon DEF StoreInv, Put
<1>8. tx' \in TxType /\ tx'.used + tx'.left <= MaxRetries
  <2>1. CASE r.ok
    BY <1>1, <1>2, <1>6, <2>1 DEF TxType
  <2>2. CASE ~r.ok
    <3>1. "IDLE" \in TxStates
      BY Zenon DEF TxStates
    <3>2. tx' = [r.tx EXCEPT !.handle = 0, !.state = "IDLE", !.seq = 0, !.wait = "NONE", !.left = 0]
      BY <1>2, <2>2, Zenon
    <3>3. r.tx \in TxType /\ r.tx.used = 0 /\ 0 \in 0 .. MaxRetries /\ 0 \in 0 .. SeqMax
          /\ 0 \in 0 .. GenMax
      BY <1>1, <1>6, Zenon
    <3>4. tx' \in TxType /\ tx'.used = 0 /\ tx'.left = 0
      BY <3>1, <3>2, <3>3, Zenon DEF TxType
    <3> QED BY <3>4, ConfigAssumption
  <2> QED BY <2>1, <2>2, Zenon
<1>9. SendingIsCarried' /\ CancelSettles'
  <2>1. r.ok => tx'.state = r.tx.state /\ tx'.handle = r.tx.handle /\ tx'.cancel = r.tx.cancel
    BY <1>2, <1>6, Zenon DEF TxType
  <2>2. ~r.ok => tx'.state = "IDLE" /\ tx'.cancel = r.tx.cancel
    BY <1>2, <1>6, Zenon DEF TxType
  <2> QED BY <1>1, <1>2, <1>6, <2>1, <2>2, Zenon DEF SendingIsCarried, CancelSettles, Put, ReliableLease
<1>10. PhysicalExclusive'
  BY <1>2, <1>6, Zenon DEF PhysicalExclusive, Put, LineInv
<1> QED BY <1>2, <1>6, <1>7, <1>8, <1>9, <1>10, Zenon DEF LineInv, Budget, Put

\* wl_send_frame_internal submits telemetry on a free line; the transaction, if there
\* is one, is waiting for its ACK or settled.
LEMMA StartUnreliableInv ==
    ASSUME LineInv, StoreInv, NEW m \in MemType, NEW i \in IoType, tx.state # "SENDING",
           i.claim = "NONE", ~ctl.inflight, StartUnreliable(m, i), UNCHANGED <<ctl, serial, hist>>
    PROVE  LineInv' /\ StoreInv'
<1>1. PICK r \in SubmitUnreliable(i, UnrelFrame) : Put(r)
  BY Zenon DEF StartUnreliable
<1>2. /\ r.io \in IoType /\ r.io.claim = "NONE" /\ ~r.io.reliable
      /\ ~(r.io.inflight /\ r.io.queued)
  BY <1>1, UnreliableFacts, Zenon
<1>3. r.sent \in Seq(Frame)
  BY <1>1, SentFacts, Constants, Zenon
<1>4. mem' \in MemType
  <2>1. Invalidated(m, tx.handle) \in MemType
    BY InvalidatedFacts, Zenon
  <2> QED BY <2>1, Constants, Zenon DEF StartUnreliable, MemType
<1>5. StoreInv'
  BY <1>1, <1>3, <1>4, Zenon DEF StoreInv, Put
<1>6. tx' = tx
  BY Zenon DEF StartUnreliable
<1> QED BY <1>1, <1>2, <1>5, <1>6, Zenon DEF LineInv, Put, PhysicalExclusive, SendingIsCarried, Budget, CancelSettles, ReliableLease

\* A call that leaves the received units and the event slot alone keeps EventInv.
LEMMA CallEventInv ==
    ASSUME EventInv, Calling, UNCHANGED <<rx, event>>
    PROVE  EventInv'
BY Constants, Zenon DEF EventInv, Calling, RxHeld

\* wl_send_reliable
LEMMA SendReliableInv == IInv /\ SendReliable => IInv'
<1> SUFFICES ASSUME IInv, SendReliable PROVE IInv'
  BY Zenon
<1>1. EventInv'
  BY CallEventInv, Zenon DEF IInv, SendReliable
<1>2. CASE io.claim # "NONE" \/ DataBusy(TRUE)
  <2>1. serial' = [serial EXCEPT !.seq = @ + 1] /\ wire' = <<>> /\ UNCHANGED <<tx, io, mem, hist, ctl>>
    BY <1>2, Zenon DEF SendReliable
  <2>2. serial.seq + 1 \in 0 .. SeqMax
    BY ConfigAssumption DEF SendReliable, IInv, StoreInv
  <2>3. StoreInv'
    BY <2>1, <2>2, SentFacts, Zenon DEF StoreInv, IInv
  <2> QED BY <1>1, <2>1, <2>3, Zenon DEF IInv, LineInv, PhysicalExclusive, SendingIsCarried, Budget, CancelSettles
<1>3. CASE ~(io.claim # "NONE" \/ DataBusy(TRUE))
  <2> DEFINE m == [mem EXCEPT !.payload = serial.seq, !.at = "payload", !.encoded = FALSE]
  <2>1. StartReliable(m, io, serial.seq) /\ UNCHANGED ctl
    BY <1>3, Zenon DEF SendReliable
  <2>2. serial.seq \in Body /\ serial.seq \in 0 .. SeqMax /\ serial.seq # SeqMax
    BY ConfigAssumption DEF Body, IInv, StoreInv, SendReliable
  <2>3. m \in MemType
    BY <2>2, Zenon DEF IInv, StoreInv, MemType
  <2>4. ~io.inflight /\ ~io.queued /\ io.claim = "NONE" /\ ~ctl.inflight /\ io \in IoType
        /\ tx.handle = 0
    BY <1>3, Zenon DEF DataBusy, IInv, LineInv
  <2> HIDE DEF m
  <2>5. LineInv' /\ StoreInv'
    BY <2>1, <2>2, <2>3, <2>4, StartReliableInv, Zenon DEF IInv
  <2> QED BY <1>1, <2>5, Zenon DEF IInv
<1> QED BY <1>2, <1>3, Zenon

\* wl_send_unreliable
LEMMA SendUnreliableInv == IInv /\ SendUnreliable => IInv'
<1> SUFFICES ASSUME IInv, SendUnreliable PROVE IInv'
  BY Zenon
<1>1. EventInv'
  BY CallEventInv, Zenon DEF IInv, SendUnreliable
<1>2. ~io.inflight /\ ~io.queued /\ ~ctl.inflight /\ io.claim = "NONE"
  BY Zenon DEF SendUnreliable, DataBusy
<1>3. tx.state # "SENDING"
  BY <1>2, Zenon DEF IInv, LineInv, SendingIsCarried, ReliableLease
<1>4. LineInv' /\ StoreInv'
  BY <1>2, <1>3, StartUnreliableInv, Zenon DEF IInv, LineInv, StoreInv, SendUnreliable
<1> QED BY <1>1, <1>4, Zenon DEF IInv

\* wl_tx_payload_claim
LEMMA PayloadClaimInv ==
    ASSUME IInv, NEW delivery \in {"RELIABLE", "UNRELIABLE"}, PayloadClaim(delivery)
    PROVE  IInv'
<1>1. EventInv'
  BY CallEventInv, Zenon DEF IInv, PayloadClaim
<1>2. ~io.inflight /\ ~io.queued /\ io' = [io EXCEPT !.claim = delivery] /\ UNCHANGED <<tx, ctl>>
  BY Zenon DEF PayloadClaim, DataBusy
<1>3. LineInv'
  BY <1>2, Zenon DEF IInv, LineInv, IoType, PhysicalExclusive, SendingIsCarried, Budget, CancelSettles, ReliableLease
<1>4. mem' \in MemType
  <2> DEFINE m == IF delivery = "UNRELIABLE" THEN Invalidated(mem, tx.handle) ELSE mem
  <2>1. m \in MemType
    BY InvalidatedFacts, Zenon DEF IInv, StoreInv
  <2>2. mem' \in {[m EXCEPT !.unit = BadFrame, !.claim_at = "unit"],
                  [m EXCEPT !.payload = Scrap, !.claim_at = "payload"]}
    BY Zenon DEF PayloadClaim
  <2> HIDE DEF m
  <2> QED BY <2>1, <2>2, Constants, ZenonT(60) DEF MemType
<1>5. StoreInv'
  BY <1>4, SentFacts, Zenon DEF IInv, StoreInv, PayloadClaim
<1> QED BY <1>1, <1>3, <1>5, Zenon DEF IInv

\* wl_tx_payload_commit
LEMMA PayloadCommitInv == IInv /\ PayloadCommit => IInv'
<1> SUFFICES ASSUME IInv, PayloadCommit PROVE IInv'
  BY Zenon
<1> DEFINE i == [io EXCEPT !.claim = "NONE"]
<1>1. EventInv'
  BY CallEventInv, Zenon DEF IInv, PayloadCommit
<1>2. /\ i \in IoType /\ i.claim = "NONE" /\ i.inflight = io.inflight /\ i.queued = io.queued
      /\ i.reliable = io.reliable
  BY Zenon DEF IInv, LineInv, IoType
<1>3. ~io.inflight /\ ~io.queued /\ tx.state # "SENDING"
  BY Zenon DEF PayloadCommit, IInv, LineInv, PhysicalExclusive, SendingIsCarried, ReliableLease
<1>4. CASE io.claim = "RELIABLE" /\ serial.seq < SeqMax /\ ~DataBusy(TRUE)
  <2> DEFINE m == [mem EXCEPT !.at = mem.claim_at, !.encoded = FALSE,
                       !.unit.body = IF mem.claim_at = "unit" THEN serial.seq ELSE @,
                       !.payload = IF mem.claim_at = "unit" THEN @ ELSE serial.seq]
  <2>1. StartReliable(m, i, serial.seq) /\ UNCHANGED ctl
    BY <1>4, Zenon DEF PayloadCommit
  <2>2. serial.seq \in Body /\ serial.seq \in 0 .. SeqMax /\ serial.seq # SeqMax
    BY <1>4, ConfigAssumption DEF Body, IInv, StoreInv
  <2>3. m \in MemType
    <3>1. mem \in MemType
      BY Zenon DEF IInv, StoreInv
    <3> QED BY <2>2, <3>1, Zenon DEF MemType
  <2>4. ~ctl.inflight /\ tx.handle = 0
    BY <1>4, Zenon DEF DataBusy
  <2> HIDE DEF m, i
  <2>5. LineInv' /\ StoreInv'
    BY <1>2, <1>3, <2>1, <2>2, <2>3, <2>4, StartReliableInv, Zenon DEF IInv
  <2> QED BY <1>1, <2>5, Zenon DEF IInv
<1>5. CASE io.claim = "UNRELIABLE" /\ ~DataBusy(FALSE) /\ io.compl # ComplMax
  <2>1. StartUnreliable(mem, i) /\ UNCHANGED <<ctl, serial, hist>>
    BY <1>5, Zenon DEF PayloadCommit
  <2>2. ~ctl.inflight
    BY <1>5, Zenon DEF DataBusy
  <2> HIDE DEF i
  <2>3. LineInv' /\ StoreInv'
    BY <1>2, <1>3, <2>1, <2>2, StartUnreliableInv, Zenon DEF IInv, StoreInv
  <2> QED BY <1>1, <2>3, Zenon DEF IInv
<1>6. CASE /\ io' = i /\ wire' = <<>> /\ UNCHANGED <<tx, ctl, mem, hist>>
           /\ serial' = IF io.claim = "RELIABLE" /\ serial.seq < SeqMax
                        THEN [serial EXCEPT !.seq = @ + 1] ELSE serial
  <2>1. serial.seq < SeqMax => serial.seq + 1 \in 0 .. SeqMax
    BY ConfigAssumption DEF IInv, StoreInv
  <2>2. StoreInv'
    BY <1>6, <2>1, SentFacts, Zenon DEF IInv, StoreInv
  <2>3. LineInv'
    BY <1>2, <1>3, <1>6, Zenon DEF IInv, LineInv, PhysicalExclusive, SendingIsCarried, Budget, CancelSettles, ReliableLease
  <2> QED BY <1>1, <2>2, <2>3, Zenon DEF IInv
<1> QED BY <1>4, <1>5, <1>6, Zenon DEF PayloadCommit

\* wl_tx_payload_abort
LEMMA PayloadAbortInv == IInv /\ PayloadAbort => IInv'
<1> SUFFICES ASSUME IInv, PayloadAbort PROVE IInv'
  BY Zenon
<1>1. EventInv'
  BY CallEventInv, Zenon DEF IInv, PayloadAbort
<1>2. LineInv'
  BY Zenon DEF PayloadAbort, IInv, LineInv, IoType, PhysicalExclusive, SendingIsCarried, Budget, CancelSettles, ReliableLease
<1>3. StoreInv'
  BY SentFacts, Zenon DEF PayloadAbort, IInv, StoreInv
<1> QED BY <1>1, <1>2, <1>3, Zenon DEF IInv

\* wl_tx_cancel
LEMMA CancelInv == IInv /\ Cancel => IInv'
<1> SUFFICES ASSUME IInv, Cancel PROVE IInv'
  BY Zenon
<1> DEFINE u == Ended(tx, "CANCELLED", "CANCELLED")
<1>1. EventInv'
  BY CallEventInv, Zenon DEF IInv, Cancel
<1>2. StoreInv'
  BY SentFacts, Zenon DEF Cancel, IInv, StoreInv
<1>3. u \in TxType /\ u.state = "CANCELLED" /\ u.used = tx.used /\ 0 \in 0 .. MaxRetries
      /\ u.handle = tx.handle
  BY EndedFacts, ConfigAssumption DEF IInv, LineInv, Terminal
<1>4. \E c \in BOOLEAN : tx' = [u EXCEPT !.left = 0, !.cancel = c]
  BY <1>3, Zenon DEF Cancel, TxType
<1> HIDE DEF u
<1>5. tx' \in TxType /\ tx'.left = 0 /\ tx'.used = tx.used /\ tx'.state = "CANCELLED"
      /\ tx'.handle # 0
  BY <1>3, <1>4, ZenonT(60) DEF TxType, Cancel
<1>6. Budget'
  BY <1>5, ConfigAssumption DEF Budget, IInv, LineInv, TxType
<1>7. /\ io' \in IoType /\ UNCHANGED ctl
      /\ io'.inflight = io.inflight /\ io'.claim = io.claim /\ (io'.queued => io.queued /\ ~io'.reliable)
  <2>1. CASE ~ReliableLease(io) /\ io.queued /\ io.reliable
    BY <2>1, Zenon DEF Cancel, IInv, LineInv, IoType
  <2>2. CASE ~(~ReliableLease(io) /\ io.queued /\ io.reliable)
    BY <2>2, Zenon DEF Cancel, IInv, LineInv, IoType, PhysicalExclusive, ReliableLease
  <2> QED BY <2>1, <2>2, Zenon
<1> QED BY <1>1, <1>2, <1>5, <1>6, <1>7, Zenon DEF IInv, LineInv, PhysicalExclusive, SendingIsCarried, CancelSettles, ReliableLease

\* wl_tx_take
LEMMA TakeInv == IInv /\ Take => IInv'
<1> SUFFICES ASSUME IInv, Take PROVE IInv'
  BY Zenon
<1>1. EventInv'
  BY CallEventInv, Zenon DEF IInv, Take
<1>2. StoreInv'
  BY SentFacts, Zenon DEF Take, IInv, StoreInv, MemType
<1>3. 0 \in 0 .. GenMax /\ 0 \in 0 .. SeqMax /\ "IDLE" \in TxStates
  BY ConfigAssumption DEF TxStates
<1>4. /\ tx \in TxType
      /\ tx' = [tx EXCEPT !.handle = 0, !.pending = "NONE", !.state = "IDLE", !.cancel = FALSE,
                          !.wait = "NONE", !.seq = 0]
  BY Zenon DEF Take, IInv, LineInv
<1>5. tx' \in TxType /\ tx'.left = tx.left /\ tx'.used = tx.used /\ tx'.state = "IDLE"
      /\ ~tx'.cancel
  BY <1>3, <1>4, Zenon DEF TxType
<1>6. tx.state # "SENDING" /\ UNCHANGED <<io, ctl>>
  BY Zenon DEF Take, CanTake, Terminal
<1> QED BY <1>1, <1>2, <1>5, <1>6, Zenon DEF IInv, LineInv, PhysicalExclusive, SendingIsCarried, Budget, CancelSettles

\* wl_tx_writable
LEMMA WritableInv == IInv /\ Writable => IInv'
<1> SUFFICES ASSUME IInv, Writable PROVE IInv'
  BY Zenon
<1>1. EventInv'
  BY CallEventInv, Zenon DEF IInv, Writable
<1>2. LineInv'
  BY Zenon DEF Writable, IInv, LineInv, IoType, PhysicalExclusive, SendingIsCarried, Budget, CancelSettles, ReliableLease
<1>3. StoreInv'
  BY SentFacts, Zenon DEF Writable, IInv, StoreInv
<1> QED BY <1>1, <1>2, <1>3, Zenon DEF IInv

-----------------------------------------------------------------------------
(* The adapter's reports *)

\* wl_tx_consumed keeps what is in flight and what waits until the unit is given back.
LEMMA ReportedFacts ==
    ASSUME LineInv, NEW ok \in BOOLEAN
    PROVE  /\ Reported(ok) \in IoType /\ Freed(ok) \in IoType
           /\ Reported(ok).inflight = io.inflight /\ Reported(ok).reliable = io.reliable
           /\ Reported(ok).queued = io.queued /\ Reported(ok).claim = io.claim
           /\ ~Freed(ok).inflight /\ ~Freed(ok).reliable
           /\ Freed(ok).queued = io.queued /\ Freed(ok).claim = io.claim
<1>1. io \in IoType /\ ReliableLease(io) \in BOOLEAN /\ DrainRequired \in BOOLEAN
  BY ConfigAssumption, Zenon DEF LineInv, IoType, ReliableLease
<1>2. PICK d \in BOOLEAN, dr \in BOOLEAN :
        Reported(ok) = [io EXCEPT !.writable = TRUE, !.drain = d, !.drain_reliable = dr]
  BY <1>1, Zenon DEF Reported, IoType
<1> QED BY <1>1, <1>2, Zenon DEF Freed, IoType

\* A waiting ACK takes a free line, and nothing else does.
LEMMA ThenControlFacts ==
    ASSUME LineInv, NEW i \in IoType, ~i.inflight, NEW line \in Seq(Frame), ThenControl(i, line)
    PROVE  /\ ctl' \in CtlType /\ io' \in IoType /\ wire' \in Seq(Frame)
           /\ ~io'.inflight /\ io'.reliable = i.reliable /\ io'.queued = i.queued
           /\ io'.claim = i.claim /\ (ctl'.inflight => ctl'.pending)
<1>1. PICK r \in SubmitControl(ctl, i) : ctl' = r.ctl /\ io' = r.io /\ wire' = line \o r.sent
  BY Zenon DEF ThenControl
<1>2. ctl \in CtlType /\ (ctl.inflight => ctl.pending)
  BY Zenon DEF LineInv, PhysicalExclusive
<1>3. r.sent \in Seq(Frame)
  BY <1>2, SentFacts, Zenon
<1>4. wire' \in Seq(Frame)
  BY <1>1, <1>3, SentFacts, Zenon
<1> QED BY <1>1, <1>2, <1>4, SubmitControlFacts

\* What an error left of a unit on the line is nothing or the unit.
LEMMA OnLineFacts ==
    ASSUME NEW f \in Frame, NEW ok
    PROVE  OnLine(f, ok) \subseteq Seq(Frame)
BY SentFacts, Zenon DEF OnLine

\* An ACK was consumed, or its I/O failed.
LEMMA ConsumedControlInv ==
    ASSUME IInv, NEW ok \in BOOLEAN, ConsumedControl(ok), UNCHANGED serial
    PROVE  LineInv' /\ StoreInv'
<1>1. ctl' \in CtlType /\ ~ctl'.inflight /\ tx' = tx
  BY Zenon DEF ConsumedControl, IInv, LineInv, CtlType
<1>2. /\ io' \in IoType /\ io'.inflight = io.inflight /\ io'.reliable = io.reliable
      /\ io'.queued = io.queued /\ io'.claim = io.claim
  BY ReportedFacts, Zenon DEF ConsumedControl, IInv
<1>3. wire' \in Seq(Frame)
  <2>1. AckFrame(ctl.ack) \in Frame
    BY DEF AckFrame, Frame, CtlType, Scrap, IInv, LineInv
  <2> QED BY <2>1, OnLineFacts, Zenon DEF ConsumedControl
<1>4. StoreInv'
  BY <1>3, Zenon DEF ConsumedControl, IInv, StoreInv
<1> QED BY <1>1, <1>2, <1>4, Zenon DEF IInv, LineInv, PhysicalExclusive, SendingIsCarried, Budget, CancelSettles, ReliableLease

\* Telemetry was consumed, or its I/O failed.
LEMMA ConsumedUnreliableInv ==
    ASSUME IInv, NEW ok \in BOOLEAN, ConsumedUnreliable(ok), io.inflight, UNCHANGED serial
    PROVE  LineInv' /\ StoreInv'
<1> DEFINE i == IF ok THEN CompleteUnreliable(Freed(ok)) ELSE Freed(ok)
<1>1. /\ i \in IoType /\ ~i.inflight /\ ~i.reliable /\ i.queued = io.queued /\ i.claim = io.claim
  BY ReportedFacts, CompleteFacts, ZenonT(60) DEF IInv
<1>2. PICK line \in OnLine(mem.unit, ok) : ThenControl(i, line)
  BY Zenon DEF ConsumedUnreliable
<1> HIDE DEF i
<1>3. line \in Seq(Frame)
  BY OnLineFacts, Constants, Zenon DEF IInv, StoreInv
<1>4. /\ ctl' \in CtlType /\ io' \in IoType /\ wire' \in Seq(Frame)
      /\ ~io'.inflight /\ ~io'.reliable /\ io'.queued = io.queued
      /\ io'.claim = io.claim /\ (ctl'.inflight => ctl'.pending)
  BY <1>1, <1>2, <1>3, ThenControlFacts, Zenon DEF IInv
<1>5. tx.state # "SENDING" /\ ~io.queued /\ io.claim = "NONE" /\ UNCHANGED <<tx, mem, hist>>
  BY Zenon DEF ConsumedUnreliable, IInv, LineInv, SendingIsCarried, PhysicalExclusive, ReliableLease
<1>6. StoreInv'
  BY <1>4, <1>5, Zenon DEF IInv, StoreInv
<1> QED BY <1>4, <1>5, <1>6, Zenon DEF IInv, LineInv, PhysicalExclusive, SendingIsCarried, Budget, CancelSettles, ReliableLease

\* The unit of a transaction that was settled meanwhile comes back.
LEMMA ConsumedSettledInv ==
    ASSUME IInv, NEW ok \in BOOLEAN, ConsumedSettled(ok), io.inflight, UNCHANGED serial
    PROVE  LineInv' /\ StoreInv'
<1>1. PICK line \in OnLine(mem.unit, ok) : ThenControl(Freed(ok), line)
  BY Zenon DEF ConsumedSettled
<1>2. line \in Seq(Frame)
  BY OnLineFacts, Constants, Zenon DEF IInv, StoreInv
<1>3. /\ ctl' \in CtlType /\ io' \in IoType /\ wire' \in Seq(Frame)
      /\ ~io'.inflight /\ ~io'.reliable /\ io'.queued = io.queued
      /\ io'.claim = io.claim /\ (ctl'.inflight => ctl'.pending)
  BY <1>1, <1>2, ThenControlFacts, ReportedFacts, Zenon DEF IInv
<1>4. tx' \in TxType /\ tx'.state = tx.state /\ tx'.left = tx.left /\ tx'.used = tx.used
      /\ ~tx'.cancel /\ tx'.handle = tx.handle
  BY Zenon DEF ConsumedSettled, IInv, LineInv, TxType
<1>5. ~io.queued /\ io.claim = "NONE"
  BY Zenon DEF IInv, LineInv, PhysicalExclusive
<1>6. StoreInv'
  BY <1>3, Zenon DEF ConsumedSettled, IInv, StoreInv, MemType
<1> QED BY <1>3, <1>4, <1>5, <1>6, Zenon DEF IInv, LineInv, PhysicalExclusive, SendingIsCarried, Budget, CancelSettles, ReliableLease, ConsumedSettled

\* A call that leaves the received units alone and fills the slot with an event keeps
\* EventInv: between polls a borrowed unit is leased.
LEMMA CallSlotInv ==
    ASSUME EventInv, Calling, UNCHANGED rx, event' \in Event
    PROVE  EventInv'
BY Constants, Zenon DEF EventInv, Calling, RxHeld

\* A transaction that fails keeps its handle and its accounting, and its event is
\* pushed or remembered.
LEMMA FailIoFacts ==
    ASSUME NEW t \in TxType, NEW i, event \in Event
    PROVE  LET p == FailIo(t, i) IN
           /\ p.tx \in TxType /\ p.event \in Event
           /\ p.tx.state = "FAILED" /\ p.tx.left = t.left /\ p.tx.used = t.used
           /\ p.tx.handle = t.handle /\ p.tx.cancel = t.cancel
           /\ event # NoEvent => p.event = event
<1> DEFINE u == Ended(t, "FAILED", "IO")
<1>1. u \in TxType /\ u.state = "FAILED" /\ u.left = t.left /\ u.used = t.used
      /\ u.handle = t.handle /\ u.cancel = t.cancel
  BY EndedFacts, ZenonT(60) DEF Terminal
<1>2. FailIo(t, i) = PushTxEvent(u, i, event, "TX_FAILED")
  BY Zenon DEF FailIo
<1> HIDE DEF u
<1> QED BY <1>1, <1>2, PushFacts DEF TxEvents

\* The reliable unit was consumed: the transaction waits for its drain or its ACK.
LEMMA ConsumedSentInv ==
    ASSUME IInv, ConsumedSent, io.inflight, UNCHANGED serial
    PROVE  LineInv' /\ StoreInv' /\ event' = event
<1>1. <<mem.unit>> \in Seq(Frame)
  BY SentFacts, Constants, Zenon DEF IInv, StoreInv
<1>2. /\ ctl' \in CtlType /\ io' \in IoType /\ wire' \in Seq(Frame)
      /\ ~io'.inflight /\ ~io'.reliable /\ io'.queued = io.queued
      /\ io'.claim = io.claim /\ (ctl'.inflight => ctl'.pending)
  BY <1>1, ThenControlFacts, ReportedFacts, Zenon DEF IInv, ConsumedSent
<1>3. /\ tx' \in TxType /\ tx'.state = "WAITING_ACK" /\ tx'.left = tx.left /\ tx'.used = tx.used
      /\ tx'.handle = tx.handle /\ tx'.cancel = tx.cancel
  BY Zenon DEF ConsumedSent, IInv, LineInv, TxType, TxStates
<1>4. ~io.queued /\ io.claim = "NONE" /\ ~tx.cancel /\ tx.handle # 0
  BY Zenon DEF IInv, LineInv, PhysicalExclusive, CancelSettles, ConsumedSent, ReliableReport
<1>5. StoreInv' /\ event' = event
  BY <1>2, Zenon DEF ConsumedSent, IInv, StoreInv
<1> QED BY <1>2, <1>3, <1>4, <1>5, Zenon DEF IInv, LineInv, PhysicalExclusive, SendingIsCarried, Budget, CancelSettles, ReliableLease

\* After an I/O error a waiting ACK goes first and the unit is queued behind it.
LEMMA ConsumedErrorQueueInv ==
    ASSUME IInv, ConsumedErrorQueue, io.inflight, UNCHANGED serial
    PROVE  LineInv' /\ StoreInv' /\ event' = event
<1> DEFINE i == [Freed(FALSE) EXCEPT !.queued = TRUE, !.reliable = TRUE]
<1>1. i \in IoType /\ ~i.inflight /\ i.queued /\ i.reliable /\ i.claim = io.claim
  BY ReportedFacts, Zenon DEF IInv, IoType
<1>2. PICK line \in OnLine(mem.unit, FALSE) : ThenControl(i, line)
  BY Zenon DEF ConsumedErrorQueue
<1>3. line \in Seq(Frame)
  BY OnLineFacts, Constants, Zenon DEF IInv, StoreInv
<1> HIDE DEF i
<1>4. /\ ctl' \in CtlType /\ io' \in IoType /\ wire' \in Seq(Frame)
      /\ ~io'.inflight /\ io'.reliable /\ io'.queued
      /\ io'.claim = io.claim /\ (ctl'.inflight => ctl'.pending)
  BY <1>1, <1>2, <1>3, ThenControlFacts, Zenon DEF IInv
<1>5. tx' = Spent(tx) /\ tx.state = "SENDING" /\ tx.left # 0 /\ ~tx.cancel
  BY Zenon DEF ConsumedErrorQueue, ReliableReport
<1>6. /\ tx' \in TxType /\ tx'.used + tx'.left <= MaxRetries
      /\ tx'.state = "SENDING" /\ tx'.handle = tx.handle /\ ~tx'.cancel
  BY <1>5, SpentFacts, Zenon DEF IInv, LineInv, Budget
<1>7. io.claim = "NONE"
  BY Zenon DEF IInv, LineInv, PhysicalExclusive
<1>8. StoreInv' /\ event' = event
  BY <1>4, Zenon DEF ConsumedErrorQueue, IInv, StoreInv
<1> QED BY <1>4, <1>5, <1>6, <1>7, <1>8, Zenon DEF IInv, LineInv, PhysicalExclusive, SendingIsCarried, Budget, CancelSettles, ReliableLease

\* After an I/O error with no retries left the transaction fails.
LEMMA ConsumedErrorFailInv ==
    ASSUME IInv, ConsumedErrorFail, io.inflight, UNCHANGED serial
    PROVE  LineInv' /\ StoreInv' /\ event' \in Event
<1>1. PICK line \in OnLine(mem.unit, FALSE) : ThenControl(Freed(FALSE), line)
  BY Zenon DEF ConsumedErrorFail
<1>2. line \in Seq(Frame)
  BY OnLineFacts, Constants, Zenon DEF IInv, StoreInv
<1>3. /\ ctl' \in CtlType /\ io' \in IoType /\ wire' \in Seq(Frame)
      /\ ~io'.inflight /\ ~io'.reliable /\ io'.queued = io.queued
      /\ io'.claim = io.claim /\ (ctl'.inflight => ctl'.pending)
  BY <1>1, <1>2, ThenControlFacts, ReportedFacts, Zenon DEF IInv
<1> DEFINE p == FailIo(tx, Freed(FALSE))
<1>4. tx' = p.tx /\ event' = p.event /\ ~tx.cancel /\ tx.state = "SENDING"
  BY Zenon DEF ConsumedErrorFail, ReliableReport
<1>5. /\ p.tx \in TxType /\ p.event \in Event
      /\ p.tx.state = "FAILED" /\ p.tx.left = tx.left /\ p.tx.used = tx.used
      /\ p.tx.handle = tx.handle /\ p.tx.cancel = tx.cancel
  BY FailIoFacts, Zenon DEF IInv, LineInv, EventInv
<1> HIDE DEF p
<1>6. ~io.queued /\ io.claim = "NONE"
  BY Zenon DEF IInv, LineInv, PhysicalExclusive
<1>7. StoreInv'
  BY <1>3, Zenon DEF ConsumedErrorFail, IInv, StoreInv
<1> QED BY <1>3, <1>4, <1>5, <1>6, <1>7, Zenon DEF IInv, LineInv, PhysicalExclusive, SendingIsCarried, Budget, CancelSettles, ReliableLease

\* Submitting the open transaction's unit again: what each answer means for the
\* transaction, the line, the bytes and the event slot.
LEMMA ResubmitInv ==
    ASSUME LineInv, StoreInv, event \in Event, tx.state \in {"SENDING", "WAITING_ACK"},
           NEW i \in IoType, i.claim = "NONE", ~ctl.inflight,
           NEW r \in SendTxPayload(tx, i, mem), NEW line \in Seq(Frame),
           io' = r.io, wire' = line \o r.sent, Tried(r), mem' = Encoded(mem, tx),
           UNCHANGED <<ctl, serial>>,
           r.ok => (tx' = r.tx \/ (tx' = Spent(r.tx) /\ tx.left # 0)) /\ event' = event,
           ~r.ok => tx' = FailIo(r.tx, r.io).tx /\ event' = FailIo(r.tx, r.io).event
    PROVE  LineInv' /\ StoreInv' /\ event' \in Event /\ (event # NoEvent => event' = event)
<1>1. tx \in TxType /\ ~tx.cancel /\ tx.handle # 0 /\ Budget
  BY Zenon DEF LineInv, CancelSettles
<1>2. Encoded(mem, tx) \in MemType /\ Encoded(mem, tx).unit \in Frame
  BY <1>1, EncodedFacts, Zenon DEF StoreInv
<1>3. r.sent \in Seq(Frame)
  BY <1>2, SentFacts, Zenon
<1>4. /\ r.tx \in TxType /\ r.io \in IoType /\ r.io.claim = "NONE" /\ r.taken \in {0, 1}
      /\ r.tx.left = tx.left /\ r.tx.used = tx.used /\ r.tx.handle = tx.handle /\ ~r.tx.cancel
      /\ ~(r.io.inflight /\ r.io.queued)
      /\ r.ok => \/ r.tx.state = "SENDING" /\ (ReliableLease(r.io) \/ (r.io.queued /\ r.io.reliable))
                 \/ r.tx.state = "WAITING_ACK" /\ ~r.io.queued
      /\ ~r.ok => ~r.io.inflight /\ ~r.io.queued
  BY <1>1, ReliableFacts DEF ReliableLease
<1>5. StoreInv'
  <2>1. wire' \in Seq(Frame)
    BY <1>3, SentFacts, Zenon
  <2>2. hist' \in [told : [1 .. GenMax -> Nat], tries : Nat]
    <3>1. hist \in [told : [1 .. GenMax -> Nat], tries : Nat]
      BY Zenon DEF StoreInv
    <3>2. hist.tries + r.taken \in Nat
      BY <1>4, <3>1
    <3> QED BY <3>1, <3>2, Zenon DEF Tried
  <2> QED BY <1>2, <2>1, <2>2, Zenon DEF StoreInv
<1>6. /\ tx' \in TxType /\ tx'.used + tx'.left <= MaxRetries /\ tx'.handle # 0 /\ ~tx'.cancel
      /\ r.ok => tx'.state = r.tx.state /\ event' = event
      /\ ~r.ok => tx'.state = "FAILED" /\ event' \in Event /\ (event # NoEvent => event' = event)
  <2>1. r.tx.used + r.tx.left <= MaxRetries
    BY <1>1, <1>4, Zenon DEF Budget
  <2>2. CASE r.ok /\ tx' = r.tx
    BY <1>1, <1>4, <2>1, <2>2, Zenon
  <2>3. CASE r.ok /\ tx' = Spent(r.tx) /\ tx.left # 0
    <3>1. r.tx.left # 0
      BY <1>4, <2>3, Zenon
    <3> QED BY <1>1, <1>4, <2>1, <2>3, <3>1, SpentFacts, Zenon
  <2>4. CASE ~r.ok
    BY <1>1, <1>4, <2>1, <2>4, FailIoFacts
  <2> QED BY <2>2, <2>3, <2>4, Zenon
<1>7. PhysicalExclusive'
  BY <1>4, Zenon DEF PhysicalExclusive
<1>8. SendingIsCarried' /\ CancelSettles'
  BY <1>4, <1>6, Zenon DEF SendingIsCarried, CancelSettles, ReliableLease
<1>9. event' \in Event /\ (event # NoEvent => event' = event)
  BY <1>6, Zenon
<1> QED BY <1>4, <1>5, <1>6, <1>7, <1>8, <1>9, Zenon DEF LineInv, Budget

\* After an I/O error the unit is submitted again at once.
LEMMA ConsumedErrorRetryInv ==
    ASSUME IInv, ConsumedErrorRetry, io.inflight, UNCHANGED serial
    PROVE  LineInv' /\ StoreInv' /\ event' \in Event
<1>1. PICK line \in OnLine(mem.unit, FALSE), r \in SendTxPayload(tx, Freed(FALSE), mem) :
          /\ io' = r.io /\ wire' = line \o r.sent /\ Tried(r)
          /\ r.ok => tx' = Spent(r.tx) /\ UNCHANGED event
          /\ ~r.ok => tx' = FailIo(r.tx, r.io).tx /\ event' = FailIo(r.tx, r.io).event
  BY Zenon DEF ConsumedErrorRetry
<1>2. line \in Seq(Frame)
  BY OnLineFacts, Constants, Zenon DEF IInv, StoreInv
<1>3. Freed(FALSE) \in IoType /\ Freed(FALSE).claim = io.claim /\ io.claim = "NONE" /\ ~ctl.inflight
  BY ReportedFacts, Zenon DEF IInv, LineInv, PhysicalExclusive
<1>4. mem' = Encoded(mem, tx) /\ UNCHANGED ctl /\ tx.state = "SENDING" /\ tx.left # 0
  BY Zenon DEF ConsumedErrorRetry, ReliableReport
<1> QED BY <1>1, <1>2, <1>3, <1>4, ResubmitInv, Zenon DEF IInv, EventInv

\* wl_tx_consumed
LEMMA TxConsumedInv == IInv /\ TxConsumed => IInv'
<1> SUFFICES ASSUME IInv, TxConsumed PROVE IInv'
  BY Zenon
<1>1. Calling /\ UNCHANGED <<rx, serial>> /\ (io.inflight \/ ctl.inflight) /\ event \in Event
  BY Zenon DEF TxConsumed, IInv, EventInv
<1>2. ASSUME LineInv' /\ StoreInv' /\ event' \in Event PROVE IInv'
  BY <1>1, <1>2, CallSlotInv, Zenon DEF IInv
<1>3. CASE \E ok \in BOOLEAN : ConsumedControl(ok)
  <2>1. PICK ok \in BOOLEAN : ConsumedControl(ok)
    BY <1>3, Zenon
  <2>2. LineInv' /\ StoreInv'
    BY <1>1, <2>1, ConsumedControlInv, Zenon
  <2>3. event' = event
    BY <2>1, Zenon DEF ConsumedControl
  <2> QED BY <1>1, <1>2, <2>2, <2>3, Zenon
<1>4. CASE \E ok \in BOOLEAN : ConsumedUnreliable(ok)
  <2>1. PICK ok \in BOOLEAN : ConsumedUnreliable(ok)
    BY <1>4, Zenon
  <2>2. io.inflight /\ event' = event
    BY <1>1, <2>1, Zenon DEF ConsumedUnreliable
  <2>3. LineInv' /\ StoreInv'
    BY <1>1, <2>1, <2>2, ConsumedUnreliableInv, Zenon
  <2> QED BY <1>1, <1>2, <2>2, <2>3, Zenon
<1>5. CASE \E ok \in BOOLEAN : ConsumedSettled(ok)
  <2>1. PICK ok \in BOOLEAN : ConsumedSettled(ok)
    BY <1>5, Zenon
  <2>2. io.inflight /\ event' = event
    BY <1>1, <2>1, Zenon DEF ConsumedSettled
  <2>3. LineInv' /\ StoreInv'
    BY <1>1, <2>1, <2>2, ConsumedSettledInv, Zenon
  <2> QED BY <1>1, <1>2, <2>2, <2>3, Zenon
<1>6. ReliableReport => io.inflight
  BY <1>1, Zenon DEF ReliableReport
<1>7. CASE ConsumedSent
  BY <1>1, <1>2, <1>6, <1>7, ConsumedSentInv, Zenon DEF ConsumedSent
<1>8. CASE ConsumedErrorQueue
  BY <1>1, <1>2, <1>6, <1>8, ConsumedErrorQueueInv, Zenon DEF ConsumedErrorQueue
<1>9. CASE ConsumedErrorRetry
  BY <1>1, <1>2, <1>6, <1>9, ConsumedErrorRetryInv, Zenon DEF ConsumedErrorRetry
<1>10. CASE ConsumedErrorFail
  BY <1>1, <1>2, <1>6, <1>10, ConsumedErrorFailInv, Zenon DEF ConsumedErrorFail
<1> QED BY <1>3, <1>4, <1>5, <1>7, <1>8, <1>9, <1>10, Zenon DEF TxConsumed

\* wl_tx_drained
LEMMA TxDrainedInv == IInv /\ TxDrained => IInv'
<1> SUFFICES ASSUME IInv, TxDrained PROVE IInv'
  BY Zenon
<1>1. /\ io' \in IoType /\ io'.inflight = io.inflight /\ io'.reliable = io.reliable
      /\ io'.queued = io.queued /\ io'.claim = io.claim /\ UNCHANGED ctl
  BY Zenon DEF TxDrained, IInv, LineInv, IoType
<1>2. StoreInv'
  BY SentFacts, Zenon DEF TxDrained, IInv, StoreInv
<1>3. \/ UNCHANGED <<tx, event>>
      \/ /\ tx.state = "WAITING_ACK" /\ tx' \in TxType /\ event' \in Event
         /\ tx'.state \in {"WAITING_ACK", "FAILED"} /\ tx'.left = tx.left /\ tx'.used = tx.used
         /\ tx'.handle = tx.handle /\ tx'.cancel = tx.cancel
  <2>1. CASE tx.state = "WAITING_ACK" /\ tx' = [tx EXCEPT !.wait = "ACK", !.due = FALSE] /\ UNCHANGED event
    BY <2>1, Zenon DEF IInv, LineInv, EventInv, TxType
  <2>2. CASE LET p == PushTxEvent([tx EXCEPT !.state = "FAILED", !.wait = "NONE", !.result = "IO",
                                            !.due = FALSE], io, event, "TX_FAILED")
             IN tx.state = "WAITING_ACK" /\ tx' = p.tx /\ event' = p.event
    <3> DEFINE t == [tx EXCEPT !.state = "FAILED", !.wait = "NONE", !.result = "IO", !.due = FALSE]
    <3>1. t \in TxType /\ t.state = "FAILED" /\ t.left = tx.left /\ t.used = tx.used
          /\ t.handle = tx.handle /\ t.cancel = tx.cancel
      BY Zenon DEF IInv, LineInv, TxType, TxStates
    <3>2. tx' = PushTxEvent(t, io, event, "TX_FAILED").tx /\ event' = PushTxEvent(t, io, event, "TX_FAILED").event
          /\ tx.state = "WAITING_ACK" /\ event \in Event /\ "TX_FAILED" \in TxEvents
      BY <2>2, Zenon DEF IInv, EventInv, TxEvents
    <3> HIDE DEF t
    <3> QED BY <3>1, <3>2, PushFacts
  <2> QED BY <2>1, <2>2, Zenon DEF TxDrained
<1>4. EventInv'
  BY <1>3, CallSlotInv, Zenon DEF TxDrained, IInv, EventInv
<1>5. LineInv'
  BY <1>1, <1>3 DEF IInv, LineInv, PhysicalExclusive, SendingIsCarried, Budget, CancelSettles, ReliableLease
<1> QED BY <1>2, <1>4, <1>5, Zenon DEF IInv

-----------------------------------------------------------------------------
(* Receiving *)

\* The queue of received units.
LEMMA QueueFacts ==
    ASSUME NEW q \in Seq(Frame)
    PROVE  /\ q # <<>> => /\ Head(q) \in Frame /\ Tail(q) \in Seq(Frame)
                          /\ Len(Tail(q)) = Len(q) - 1 /\ Len(q) \in Nat
           /\ \A f \in Frame : /\ Append(q, f) \in Seq(Frame) /\ Append(q, f) # <<>>
                               /\ Len(Append(q, f)) = Len(q) + 1
           /\ <<>> \in Seq(Frame) /\ Len(<<>>) = 0
OBVIOUS

\* wl_send_ack
LEMMA SendAckFacts ==
    ASSUME LineInv, NEW id \in Id, NEW r \in SendAck(id)
    PROVE  /\ r.ctl \in CtlType /\ r.io \in IoType /\ r.sent \in Seq(Frame)
           /\ r.io.inflight = io.inflight /\ r.io.reliable = io.reliable
           /\ r.io.queued = io.queued /\ r.io.claim = io.claim
           /\ r.ctl.inflight => r.ctl.pending /\ ~io.inflight
<1>1. ctl \in CtlType /\ io \in IoType /\ (ctl.inflight => ctl.pending /\ ~io.inflight)
  BY Zenon DEF LineInv, PhysicalExclusive
<1>2. CASE ctl.pending
  <2>1. r = [ctl |-> ctl, io |-> io, sent |-> <<>>]
    BY <1>2, Zenon DEF SendAck
  <2>2. r.ctl = ctl /\ r.io = io /\ r.sent = <<>>
    BY <2>1, Zenon
  <2>3. r.sent \in Seq(Frame)
    BY <2>2, SentFacts, Zenon
  <2> QED BY <1>1, <2>2, <2>3, Zenon
<1>3. CASE ~ctl.pending
  <2> DEFINE c == [ctl EXCEPT !.pending = TRUE, !.ack = id]
  <2>1. c \in CtlType /\ ~c.inflight
    BY <1>1, <1>3, Zenon DEF CtlType
  <2>2. r \in SubmitControl(c, io)
    BY <1>3, Zenon DEF SendAck
  <2> HIDE DEF c
  <2>3. r.sent \in Seq(Frame)
    BY <2>1, <2>2, SentFacts, Zenon
  <2> QED BY <1>1, <2>1, <2>2, <2>3, SubmitControlFacts, ZenonT(60)
<1> QED BY <1>2, <1>3, Zenon

\* wl_handle_ack settles the open transaction it matches, and takes its unit off the queue.
LEMMA HandleAckInv ==
    ASSUME LineInv, event \in Event, NEW id \in Id, HandleAck(id), UNCHANGED ctl
    PROVE  LineInv' /\ event' \in Event /\ (event # NoEvent => event' = event)
<1>1. CASE ~AckMatches(id)
  BY <1>1, Zenon DEF HandleAck, LineInv, PhysicalExclusive, SendingIsCarried, Budget, CancelSettles
<1>2. CASE AckMatches(id)
  <2> DEFINE i == IF io.queued /\ io.reliable
                  THEN [io EXCEPT !.queued = FALSE, !.reliable = FALSE] ELSE io
             u == Ended(tx, "SUCCESS", "OK")
             t == [u EXCEPT !.left = 0]
             p == PushTxEvent(t, i, event, "TX_SUCCESS")
  <2>1. tx' = p.tx /\ event' = p.event /\ io' = i
    BY <1>2, Zenon DEF HandleAck
  <2>2. tx \in TxType /\ ~tx.cancel /\ tx.handle # 0 /\ tx.used + tx.left <= MaxRetries
    BY <1>2, Zenon DEF AckMatches, LineInv, CancelSettles, Budget
  <2>3. /\ i \in IoType /\ i.inflight = io.inflight /\ i.claim = io.claim
        /\ ~(i.queued /\ i.reliable) /\ (i.queued => io.queued)
    BY Zenon DEF LineInv, IoType
  <2>4. u \in TxType /\ u.state = "SUCCESS" /\ u.used = tx.used /\ u.handle = tx.handle
        /\ u.cancel = tx.cancel
    BY <2>2, EndedFacts DEF Terminal
  <2> HIDE DEF i, u
  <2>5. 0 \in 0 .. MaxRetries
    BY ConfigAssumption
  <2>6. t \in TxType /\ t.state = "SUCCESS" /\ t.used = tx.used /\ t.left = 0 /\ t.handle = tx.handle
        /\ t.cancel = tx.cancel
    BY <2>4, <2>5, Zenon DEF TxType
  <2> HIDE DEF t
  <2>7. /\ p.tx \in TxType /\ p.event \in Event /\ p.tx.state = "SUCCESS" /\ p.tx.used = tx.used
        /\ p.tx.left = 0 /\ p.tx.handle = tx.handle /\ p.tx.cancel = tx.cancel
        /\ event # NoEvent => p.event = event
    BY <2>6, PushFacts DEF TxEvents
  <2> HIDE DEF p
  <2>8. tx.used + 0 <= MaxRetries
    BY <2>2, ConfigAssumption DEF TxType
  <2>9. Budget' /\ CancelSettles' /\ SendingIsCarried'
    BY <2>1, <2>2, <2>3, <2>7, <2>8, Zenon DEF Budget, CancelSettles, SendingIsCarried
  <2>10. PhysicalExclusive'
    BY <2>1, <2>3, Zenon DEF PhysicalExclusive, LineInv
  <2> QED BY <2>1, <2>3, <2>7, <2>9, <2>10, Zenon DEF LineInv
<1> QED BY <1>1, <1>2, Zenon

\* wl_frame_route_view
LEMMA RouteInv ==
    ASSUME LineInv, StoreInv, event \in Event, NEW frame \in Frame, Route(frame),
           UNCHANGED <<mem, serial, hist>>
    PROVE  LineInv' /\ StoreInv' /\ event' \in Event
<1>0. frame.id \in Id /\ RxEvent(frame) \in Event
  BY Constants, Zenon DEF Frame
<1>1. CASE frame.kind = "REL"
  <2>1. PICK r \in SendAck(frame.id) : ctl' = r.ctl /\ Put(r)
    BY <1>1, Zenon DEF Route
  <2>2. tx' = tx /\ event' \in Event
    BY <1>0, <1>1, Zenon DEF Route
  <2>3. /\ ctl' \in CtlType /\ io' \in IoType /\ wire' \in Seq(Frame)
        /\ io'.inflight = io.inflight /\ io'.reliable = io.reliable
        /\ io'.queued = io.queued /\ io'.claim = io.claim
        /\ ctl'.inflight => ctl'.pending /\ ~io.inflight
    BY <1>0, <2>1, SendAckFacts, Zenon DEF Put
  <2> QED BY <2>2, <2>3, Zenon DEF LineInv, StoreInv, PhysicalExclusive, SendingIsCarried, Budget, CancelSettles, ReliableLease
<1>2. CASE frame.kind = "ACK"
  <2>1. HandleAck(frame.id) /\ wire' = <<>> /\ UNCHANGED ctl
    BY <1>2, Zenon DEF Route
  <2> QED BY <1>0, <2>1, HandleAckInv, SentFacts, Zenon DEF StoreInv
<1>3. CASE frame.kind \notin {"REL", "ACK"}
  <2>1. wire' = <<>> /\ UNCHANGED <<tx, io, ctl>> /\ event' \in {event, RxEvent(frame)}
    BY <1>3, Zenon DEF Route
  <2> QED BY <1>0, <2>1, SentFacts, Zenon DEF LineInv, StoreInv, PhysicalExclusive, SendingIsCarried, Budget, CancelSettles, ReliableLease
<1> QED BY <1>1, <1>2, <1>3, Zenon

\* The duplicate record after a unit is routed.
LEMMA RememberFacts ==
    ASSUME rx \in RxType, NEW frame \in Frame
    PROVE  /\ Remember(frame) \in RxType /\ Remember(frame).queue = rx.queue
           /\ Remember(frame).hold = rx.hold /\ Remember(frame).leased = rx.leased
BY Zenon DEF Remember, RxType, Frame

\* wl_feed_unit
LEMMA FeedUnitInv ==
    ASSUME IInv, NEW frame \in Frame, FeedUnit(frame)
    PROVE  IInv'
<1>1. LineInv' /\ StoreInv' /\ event' \in Event
  BY RouteInv, Zenon DEF IInv, EventInv, FeedUnit
<1>2. EventInv'
  BY <1>1, RememberFacts, Constants, Zenon DEF FeedUnit, Calling, IInv, EventInv, RxHeld
<1> QED BY <1>1, <1>2, Zenon DEF IInv

\* A producer publishes a unit, or finds no room.
LEMMA ArriveInv ==
    ASSUME IInv, NEW frame \in Frame, Arrive(frame)
    PROVE  IInv'
<1>1. LineInv' /\ StoreInv'
  BY Zenon DEF Arrive, IInv, LineInv, StoreInv, PhysicalExclusive, SendingIsCarried, Budget, CancelSettles
<1>2. rx \in RxType /\ rx.queue \in Seq(Frame) /\ RxMax \in Nat /\ Len(rx.queue) \in Nat
  BY ConfigAssumption DEF IInv, EventInv, RxType
<1>3. rx' \in RxType /\ Len(rx'.queue) <= RxMax /\ rx'.hold = rx.hold /\ rx'.leased = rx.leased
      /\ (rx.queue # <<>> => rx'.queue # <<>>)
  <2>1. CASE Len(rx.queue) < RxMax
    <3> DEFINE q == Append(rx.queue, frame)
    <3>1. rx' = [rx EXCEPT !.queue = q]
      BY <1>2, <2>1, Zenon DEF Arrive, RxType
    <3>2. q \in Seq(Frame) /\ q # <<>> /\ Len(q) <= RxMax
      BY <1>2, <2>1, QueueFacts
    <3> HIDE DEF q
    <3> QED BY <1>2, <3>1, <3>2, Zenon DEF RxType
  <2>2. CASE ~(Len(rx.queue) < RxMax)
    BY <1>2, <2>2, Zenon DEF Arrive, IInv, EventInv, RxType
  <2> QED BY <2>1, <2>2, Zenon
<1>4. EventInv'
  BY <1>3, Zenon DEF Arrive, IInv, EventInv, RxHeld
<1> QED BY <1>1, <1>4, Zenon DEF IInv

\* wl_feed_recover_reset
LEMMA RecoverResetInv == IInv /\ RecoverReset => IInv'
<1> SUFFICES ASSUME IInv, RecoverReset PROVE IInv'
  BY Zenon
<1>1. LineInv' /\ StoreInv'
  BY SentFacts, Zenon DEF RecoverReset, IInv, LineInv, StoreInv, PhysicalExclusive, SendingIsCarried, Budget, CancelSettles
<1>2. rx' = [rx EXCEPT !.queue = <<>>] /\ rx \in RxType /\ ~rx.hold /\ pc = "idle" /\ <<>> \in Seq(Frame)
      /\ Len(<<>>) <= RxMax
  BY QueueFacts, SentFacts, ConfigAssumption DEF RecoverReset, Calling, IInv, EventInv, RxHeld
<1>3. EventInv'
  BY <1>2, Constants, Zenon DEF RecoverReset, Calling, IInv, EventInv, RxHeld, RxType
<1> QED BY <1>1, <1>3, Zenon DEF IInv

\* wl_event_release
LEMMA EventReleaseInv == IInv /\ EventRelease => IInv'
<1> SUFFICES ASSUME IInv, EventRelease PROVE IInv'
  BY Zenon
<1>1. LineInv' /\ StoreInv'
  BY SentFacts, Zenon DEF EventRelease, IInv, LineInv, StoreInv, PhysicalExclusive, SendingIsCarried, Budget, CancelSettles
<1> DEFINE q == IF rx.hold THEN Tail(rx.queue) ELSE rx.queue
<1>2. rx \in RxType /\ rx.queue \in Seq(Frame) /\ Len(rx.queue) <= RxMax /\ (rx.hold => rx.queue # <<>>)
  BY Zenon DEF IInv, EventInv, RxHeld, RxType
<1>3. q \in Seq(Frame) /\ Len(q) <= RxMax
  BY <1>2, QueueFacts, ConfigAssumption
<1>4. rx' = [rx EXCEPT !.leased = FALSE, !.hold = FALSE, !.queue = q]
  BY <1>2, Zenon DEF EventRelease, RxType
<1> HIDE DEF q
<1>5. rx' \in RxType /\ Len(rx'.queue) <= RxMax /\ ~rx'.hold
  BY <1>2, <1>3, <1>4, Zenon DEF RxType
<1>6. EventInv'
  BY <1>5, Constants, Zenon DEF EventRelease, Calling, IInv, EventInv, RxHeld
<1> QED BY <1>1, <1>6, Zenon DEF IInv

-----------------------------------------------------------------------------
(* The clock and wl_poll *)

\* The ACK deadline passes.
LEMMA TickInv == IInv /\ Tick => IInv'
<1> SUFFICES ASSUME IInv, Tick PROVE IInv'
  BY Zenon
<1>1. /\ tx' \in TxType /\ tx'.state = tx.state /\ tx'.left = tx.left /\ tx'.used = tx.used
      /\ tx'.handle = tx.handle /\ tx'.cancel = tx.cancel
  BY Zenon DEF Tick, IInv, LineInv, TxType
<1>2. LineInv'
  BY <1>1, Zenon DEF Tick, IInv, LineInv, PhysicalExclusive, SendingIsCarried, Budget, CancelSettles
<1>3. StoreInv' /\ EventInv'
  BY Zenon DEF Tick, IInv, StoreInv, EventInv, RxHeld
<1> QED BY <1>2, <1>3, Zenon DEF IInv

\* The start of wl_poll: the waiting ACK, the pending terminal event, the overflow.
LEMMA PollBeginInv == IInv /\ PollBegin => IInv'
<1> SUFFICES ASSUME IInv, PollBegin PROVE IInv'
  BY Zenon
<1>1. CASE ~NeedsProgress
  <2>1. wire' = <<>> /\ pc' = "finish" /\ out' = NoEvent /\ UNCHANGED <<tx, io, ctl, event, rx, mem, serial, hist>>
    BY <1>1, Zenon DEF PollBegin
  <2>2. pc = "idle"
    BY Zenon DEF PollBegin
  <2> QED BY <2>1, <2>2, SentFacts, Constants, Zenon DEF IInv, LineInv, StoreInv, EventInv, RxHeld, PhysicalExclusive,
          SendingIsCarried, Budget, CancelSettles
<1>2. CASE NeedsProgress
  <2> DEFINE Push(r) == tx.pending # "NONE" /\ event = NoEvent /\ ~ReliableLease(r.io)
             Receive(r) == ~r.ctl.pending /\ event = NoEvent /\ ~Push(r) /\ ~rx.leased
  <2>1. PICK r \in SubmitControl(ctl, io) :
          /\ ctl' = r.ctl /\ Put(r)
          /\ event' = IF Push(r) THEN TxEvent(tx.pending, tx.handle) ELSE event
          /\ tx' = IF Push(r) THEN [tx EXCEPT !.pending = "NONE"] ELSE tx
          /\ rx' = IF Receive(r) /\ rx.overflow
                   THEN [rx EXCEPT !.overflow = FALSE, !.queue = <<>>] ELSE rx
          /\ pc' = IF Receive(r) THEN "rx" ELSE "queued"
    BY <1>2, Zenon DEF PollBegin
  <2>2. out' = NoEvent /\ pc = "idle" /\ UNCHANGED <<mem, serial, hist>>
    BY Zenon DEF PollBegin
  <2>3. ctl \in CtlType /\ io \in IoType /\ (ctl.inflight => ctl.pending /\ ~io.inflight)
    BY Zenon DEF IInv, LineInv, PhysicalExclusive
  <2>4. r.sent \in Seq(Frame)
    BY <2>3, SentFacts, Zenon
  <2>5. /\ ctl' \in CtlType /\ io' \in IoType
        /\ io'.inflight = io.inflight /\ io'.reliable = io.reliable
        /\ io'.queued = io.queued /\ io'.claim = io.claim
        /\ ctl'.inflight => ctl'.pending /\ ~io.inflight
    BY <2>1, <2>3, SubmitControlFacts DEF Put
  <2>6. /\ tx' \in TxType /\ tx'.state = tx.state /\ tx'.left = tx.left /\ tx'.used = tx.used
        /\ tx'.handle = tx.handle /\ tx'.cancel = tx.cancel
    BY <2>1, Zenon DEF IInv, LineInv, TxType
  <2>7. event' \in Event
    <3>1. tx.pending # "NONE" => TxEvent(tx.pending, tx.handle) \in Event
      BY Constants, Zenon DEF TxEvent, Event, IInv, LineInv, TxType, NoEvent, BadFrame, Frame, NoId, Id, Scrap
    <3> QED BY <2>1, <3>1, Zenon DEF IInv, EventInv
  <2>8. /\ rx' \in RxType /\ Len(rx'.queue) <= RxMax /\ rx'.hold = rx.hold /\ rx'.leased = rx.leased
        /\ rx.hold => rx' = rx
    <3>1. rx \in RxType /\ Len(rx.queue) <= RxMax /\ (rx.hold => rx.leased)
          /\ <<>> \in Seq(Frame) /\ Len(<<>>) <= RxMax
      BY <2>2, QueueFacts, SentFacts, ConfigAssumption DEF IInv, EventInv, RxHeld
    <3> QED BY <2>1, <3>1, Zenon DEF RxType
  <2>9. EventInv'
    <3>1. pc' = "rx" => ~rx'.leased /\ event' = NoEvent
      BY <2>1, <2>8, Zenon
    <3>2. rx'.hold => rx'.queue # <<>> /\ rx'.leased
      BY <2>2, <2>8, Zenon DEF IInv, EventInv, RxHeld
    <3> QED BY <2>1, <2>2, <2>7, <2>8, <3>1, <3>2, Constants, Zenon DEF EventInv, RxHeld
  <2>10. StoreInv'
    BY <2>1, <2>2, <2>4, Zenon DEF IInv, StoreInv, Put
  <2>11. LineInv'
    BY <2>5, <2>6, Zenon DEF IInv, LineInv, PhysicalExclusive, SendingIsCarried, Budget, CancelSettles, ReliableLease
  <2> QED BY <2>9, <2>10, <2>11, Zenon DEF IInv
<1> QED BY <1>1, <1>2, Zenon

\* wl_poll routes one received unit, and borrows its payload or consumes it.
LEMMA PollReceiveInv == IInv /\ PollReceive => IInv'
<1> SUFFICES ASSUME IInv, PollReceive PROVE IInv'
  BY Zenon
<1> DEFINE frame == Head(rx.queue)
           kept == Remember(frame)
           rest == [kept EXCEPT !.queue = Tail(@)]
<1>1. rx \in RxType /\ rx.queue \in Seq(Frame) /\ rx.queue # <<>> /\ Len(rx.queue) <= RxMax /\ pc = "rx"
      /\ ~rx.leased /\ ~rx.hold
  BY Zenon DEF PollReceive, IInv, EventInv, RxType, RxHeld
<1>2. frame \in Frame /\ Tail(rx.queue) \in Seq(Frame) /\ Len(Tail(rx.queue)) <= RxMax
  BY <1>1, QueueFacts, ConfigAssumption
<1>3. Route(frame) /\ UNCHANGED <<mem, serial, out, hist>>
  BY Zenon DEF PollReceive
<1>4. \/ IsRx(event') /\ pc' = "queued" /\ rx' = [kept EXCEPT !.hold = TRUE]
      \/ pc' = "queued" /\ rx' = rest
      \/ pc' = "rx" /\ event' = NoEvent /\ rx' = rest
  BY Zenon DEF PollReceive
<1>5. /\ kept \in RxType /\ kept.queue = rx.queue /\ ~kept.hold /\ ~kept.leased
  BY <1>1, <1>2, RememberFacts, Zenon
<1> HIDE DEF kept, frame
<1>6. LineInv' /\ StoreInv' /\ event' \in Event
  BY <1>2, <1>3, RouteInv, Zenon DEF IInv, EventInv
<1>7. rest \in RxType /\ Len(rest.queue) <= RxMax /\ ~rest.hold /\ ~rest.leased
  BY <1>2, <1>5, Zenon DEF RxType
<1> HIDE DEF rest
<1>8. EventInv'
  <2>1. CASE IsRx(event') /\ pc' = "queued" /\ rx' = [kept EXCEPT !.hold = TRUE]
    <3>1. rx' \in RxType /\ rx'.queue = rx.queue
      BY <1>5, <2>1, Zenon DEF RxType
    <3> QED BY <1>1, <1>3, <1>6, <2>1, <3>1, Zenon DEF IInv, EventInv, RxHeld
  <2>2. CASE rx' = rest /\ (pc' = "queued" \/ (pc' = "rx" /\ event' = NoEvent))
    BY <1>3, <1>6, <1>7, <2>2, Zenon DEF IInv, EventInv, RxHeld
  <2> QED BY <1>4, <2>1, <2>2, Zenon
<1> QED BY <1>6, <1>8, Zenon DEF IInv

\* wl_poll has no received unit left.
LEMMA PollReceivedInv == IInv /\ PollReceived => IInv'
BY SentFacts, Zenon DEF PollReceived, IInv, LineInv, StoreInv, EventInv, RxHeld, PhysicalExclusive,
   SendingIsCarried, Budget, CancelSettles

\* A step of wl_poll after receiving keeps EventInv when it only fills a free slot.
LEMMA PollSlotInv ==
    ASSUME EventInv, pc \in {"queued", "timer"}, pc' \in {"timer", "finish"}, UNCHANGED <<rx, out>>,
           event' \in Event, event # NoEvent => event' = event
    PROVE  EventInv'
BY DEF EventInv, RxHeld, IsRx, NoEvent

\* wl_poll offers the queued DATA unit to the sink again.
LEMMA PollQueuedInv == IInv /\ PollQueued => IInv'
<1> SUFFICES ASSUME IInv, PollQueued PROVE IInv'
  BY Zenon
<1>1. pc = "queued" /\ pc' = "timer" /\ UNCHANGED <<ctl, rx, serial, out>> /\ event \in Event
  BY Zenon DEF PollQueued, IInv, EventInv
<1>2. CASE ~QueuedReady
  <2>1. wire' = <<>> /\ UNCHANGED <<tx, io, mem, event, hist>>
    BY <1>2, Zenon DEF PollQueued
  <2>2. LineInv' /\ StoreInv'
    BY <1>1, <2>1, SentFacts, Zenon DEF IInv, LineInv, StoreInv, PhysicalExclusive, SendingIsCarried, Budget, CancelSettles
  <2>3. EventInv'
    BY <1>1, <2>1, PollSlotInv, Zenon DEF IInv
  <2> QED BY <2>2, <2>3, Zenon DEF IInv
<1>3. CASE QueuedReady /\ io.reliable
  <2>1. PICK r \in SendTxPayload(tx, io, mem) :
          /\ Put(r) /\ Tried(r) /\ mem' = Encoded(mem, tx)
          /\ r.ok => tx' = r.tx /\ UNCHANGED event
          /\ ~r.ok => tx' = FailIo(r.tx, r.io).tx /\ event' = FailIo(r.tx, r.io).event
    BY <1>3, Zenon DEF PollQueued
  <2>2. tx.state = "SENDING" /\ io.claim = "NONE" /\ ~ctl.inflight /\ io \in IoType
    BY <1>3, Zenon DEF QueuedReady, IInv, LineInv, SendingIsCarried, PhysicalExclusive
  <2>3. io' = r.io /\ wire' = <<>> \o r.sent /\ <<>> \in Seq(Frame)
    <3>1. Encoded(mem, tx).unit \in Frame
      BY EncodedFacts, Zenon DEF IInv, StoreInv, LineInv
    <3>2. r.sent \in Seq(Frame)
      BY <3>1, SentFacts, Zenon
    <3> QED BY <2>1, <3>2, SentFacts DEF Put
  <2>5. LineInv' /\ StoreInv' /\ event' \in Event /\ (event # NoEvent => event' = event)
    BY <1>1, <2>1, <2>2, <2>3, ResubmitInv, Zenon DEF IInv
  <2>6. EventInv'
    BY <1>1, <2>5, PollSlotInv, Zenon DEF IInv
  <2> QED BY <2>5, <2>6, Zenon DEF IInv
<1>4. CASE QueuedReady /\ ~io.reliable
  <2>1. PICK r \in SubmitUnreliable(io, mem.unit) : Put(r)
    BY <1>4, Zenon DEF PollQueued
  <2>2. UNCHANGED <<tx, mem, event, hist>>
    BY <1>4, Zenon DEF PollQueued
  <2>3. r.sent \in Seq(Frame)
    BY <2>1, SentFacts, Constants, Zenon DEF IInv, StoreInv
  <2>4. r.io \in IoType /\ r.io.claim = io.claim /\ ~r.io.reliable /\ ~(r.io.inflight /\ r.io.queued)
    BY <2>1, UnreliableFacts, Zenon DEF IInv, LineInv
  <2>5. tx.state # "SENDING" /\ io.claim = "NONE" /\ ~ctl.inflight
    BY <1>4, Zenon DEF QueuedReady, IInv, LineInv, SendingIsCarried, PhysicalExclusive, ReliableLease
  <2>6. LineInv'
    BY <1>1, <2>1, <2>2, <2>4, <2>5, Zenon DEF IInv, LineInv, PhysicalExclusive, SendingIsCarried, Budget, CancelSettles,
       ReliableLease, Put
  <2>7. StoreInv'
    BY <1>1, <2>1, <2>2, <2>3, Zenon DEF IInv, StoreInv, Put
  <2>8. EventInv'
    BY <1>1, <2>2, PollSlotInv, Zenon DEF IInv
  <2> QED BY <2>6, <2>7, <2>8, Zenon DEF IInv
<1> QED BY <1>2, <1>3, <1>4, Zenon

\* wl_poll acts on an expired ACK timer.
LEMMA PollTimerInv == IInv /\ PollTimer => IInv'
<1> SUFFICES ASSUME IInv, PollTimer PROVE IInv'
  BY Zenon
<1>1. pc = "timer" /\ pc' = "finish" /\ UNCHANGED <<ctl, rx, serial, out>> /\ event \in Event
  BY Zenon DEF PollTimer, IInv, EventInv
<1>2. CASE ~TimerReady
  <2>1. wire' = <<>> /\ UNCHANGED <<tx, io, mem, event, hist>>
    BY <1>2, Zenon DEF PollTimer
  <2>2. LineInv' /\ StoreInv'
    BY <1>1, <2>1, SentFacts, Zenon DEF IInv, LineInv, StoreInv, PhysicalExclusive, SendingIsCarried, Budget, CancelSettles
  <2>3. EventInv'
    BY <1>1, <2>1, PollSlotInv, Zenon DEF IInv
  <2> QED BY <2>2, <2>3, Zenon DEF IInv
<1>3. CASE TimerReady /\ tx.left = 0
  <2> DEFINE u == Ended(tx, "FAILED", "TIMEOUT")
             p == PushTxEvent(u, io, event, "TX_TIMEOUT")
  <2>1. tx' = p.tx /\ event' = p.event /\ wire' = <<>> /\ UNCHANGED <<io, mem, hist>>
    BY <1>3, Zenon DEF PollTimer
  <2>2. tx \in TxType /\ tx.state = "WAITING_ACK" /\ tx.handle # 0 /\ ~tx.cancel /\ ~(io.queued)
    BY <1>3, Zenon DEF TimerReady, RetryDue, IInv, LineInv, CancelSettles
  <2>3. u \in TxType /\ u.state = "FAILED" /\ u.left = tx.left /\ u.used = tx.used
        /\ u.handle = tx.handle /\ u.cancel = tx.cancel
    BY <2>2, EndedFacts DEF Terminal
  <2> HIDE DEF u
  <2>4. /\ p.tx \in TxType /\ p.event \in Event /\ p.tx.state = "FAILED" /\ p.tx.left = tx.left
        /\ p.tx.used = tx.used /\ p.tx.handle = tx.handle /\ p.tx.cancel = tx.cancel
        /\ event # NoEvent => p.event = event
    BY <1>1, <2>3, PushFacts DEF TxEvents
  <2> HIDE DEF p
  <2>5. LineInv'
    BY <1>1, <2>1, <2>2, <2>4, Zenon DEF IInv, LineInv, PhysicalExclusive, SendingIsCarried, Budget, CancelSettles
  <2>6. StoreInv'
    BY <1>1, <2>1, SentFacts, Zenon DEF IInv, StoreInv
  <2>7. EventInv'
    BY <1>1, <2>1, <2>4, PollSlotInv, Zenon DEF IInv
  <2> QED BY <2>5, <2>6, <2>7, Zenon DEF IInv
<1>4. CASE TimerReady /\ tx.left # 0
  <2>1. PICK r \in SendTxPayload(tx, io, mem) :
          /\ Put(r) /\ Tried(r) /\ mem' = Encoded(mem, tx)
          /\ r.ok => tx' = Spent(r.tx) /\ UNCHANGED event
          /\ ~r.ok => tx' = FailIo(r.tx, r.io).tx /\ event' = FailIo(r.tx, r.io).event
    BY <1>4, Zenon DEF PollTimer
  <2>2. tx.state = "WAITING_ACK" /\ io.claim = "NONE" /\ ~ctl.inflight /\ io \in IoType
    BY <1>4, Zenon DEF TimerReady, RetryDue, IInv, LineInv, PhysicalExclusive
  <2>3. io' = r.io /\ wire' = <<>> \o r.sent /\ <<>> \in Seq(Frame)
    <3>1. Encoded(mem, tx).unit \in Frame
      BY EncodedFacts, Zenon DEF IInv, StoreInv, LineInv
    <3>2. r.sent \in Seq(Frame)
      BY <3>1, SentFacts, Zenon
    <3> QED BY <2>1, <3>2, SentFacts DEF Put
  <2>4. LineInv' /\ StoreInv' /\ event' \in Event /\ (event # NoEvent => event' = event)
    BY <1>1, <1>4, <2>1, <2>2, <2>3, ResubmitInv, Zenon DEF IInv
  <2>5. EventInv'
    BY <1>1, <2>4, PollSlotInv, Zenon DEF IInv
  <2> QED BY <2>4, <2>5, Zenon DEF IInv
<1> QED BY <1>2, <1>3, <1>4, Zenon

\* wl_poll returns one event, and an RX event leases its payload.
LEMMA PollReturnInv == IInv /\ PollReturn => IInv'
<1> SUFFICES ASSUME IInv, PollReturn PROVE IInv'
  BY Zenon
<1> DEFINE done == event = NoEvent /\ io.compl # 0
           e == IF done THEN TxEvent("TX_SUCCESS", 0) ELSE event
<1>1. /\ pc = "finish" /\ pc' = "idle"
      /\ io' = IF done THEN [io EXCEPT !.compl = @ - 1] ELSE io
      /\ event' = NoEvent /\ out' = e
      /\ rx' = IF IsRx(e) THEN [rx EXCEPT !.leased = TRUE] ELSE rx
      /\ hist' = IF e.handle # 0 THEN [hist EXCEPT !.told[e.handle] = @ + 1] ELSE hist
      /\ wire' = <<>> /\ UNCHANGED <<tx, ctl, mem, serial>>
  BY Zenon DEF PollReturn
<1>2. e \in Event /\ (IsRx(event) => e = event)
  BY ConfigAssumption DEF TxEvent, Event, IInv, EventInv, NoEvent, BadFrame, Frame, NoId, Id, Scrap, TxEvents, IsRx
<1>3. /\ io' \in IoType /\ io'.inflight = io.inflight /\ io'.reliable = io.reliable
      /\ io'.queued = io.queued /\ io'.claim = io.claim
  <2>1. io \in IoType /\ (io.compl # 0 => io.compl - 1 \in 0 .. ComplMax)
    BY ConfigAssumption DEF IInv, LineInv, IoType
  <2> HIDE DEF e
  <2> QED BY <1>1, <2>1, Zenon DEF IoType
<1>4. LineInv'
  BY <1>1, <1>3, Zenon DEF IInv, LineInv, PhysicalExclusive, SendingIsCarried, Budget, CancelSettles, ReliableLease
<1> HIDE DEF e, done
<1>5. hist' \in [told : [1 .. GenMax -> Nat], tries : Nat]
  <2>1. hist \in [told : [1 .. GenMax -> Nat], tries : Nat]
    BY Zenon DEF IInv, StoreInv
  <2>2. e.handle # 0 => e.handle \in 1 .. GenMax
    BY <1>2, ConfigAssumption DEF Event
  <2>3. e.handle # 0 => hist' = [hist EXCEPT !.told = [hist.told EXCEPT ![e.handle] = hist.told[e.handle] + 1]]
    BY <1>1, <2>1, Zenon
  <2>4. e.handle # 0 => [hist.told EXCEPT ![e.handle] = hist.told[e.handle] + 1] \in [1 .. GenMax -> Nat]
    <3> DEFINE t == hist.told
    <3>1. t \in [1 .. GenMax -> Nat]
      BY <2>1, Zenon
    <3> HIDE DEF t
    <3>2. ASSUME NEW h \in 1 .. GenMax PROVE [t EXCEPT ![h] = t[h] + 1] \in [1 .. GenMax -> Nat]
      BY <3>1
    <3> QED BY <2>2, <3>2, Zenon DEF t
  <2> QED BY <1>1, <2>1, <2>3, <2>4, Zenon
<1>6. StoreInv'
  BY <1>1, <1>5, SentFacts, Zenon DEF IInv, StoreInv
<1>7. rx' \in RxType /\ rx'.queue = rx.queue /\ rx'.hold = rx.hold /\ (rx.leased => rx'.leased)
      /\ (IsRx(e) => rx'.leased)
  BY <1>1, Zenon DEF IInv, EventInv, RxType
<1>8. EventInv'
  BY <1>1, <1>2, <1>7, Constants, Zenon DEF IInv, EventInv, RxHeld
<1> QED BY <1>4, <1>6, <1>8, Zenon DEF IInv

-----------------------------------------------------------------------------
(* Every step *)

\* Every step of a context keeps the invariant.
LEMMA NextInv == IInv /\ [Next]_vars => IInv'
<1> SUFFICES ASSUME IInv, [Next]_vars PROVE IInv'
  BY Zenon
<1>1. RxFrames \subseteq Frame
  BY ConfigAssumption, Zenon DEF Frame, Id
<1>2. CASE Owner
  BY <1>1, <1>2, SendReliableInv, SendUnreliableInv, PayloadCommitInv, PayloadAbortInv, PayloadClaimInv,
     CancelInv, TakeInv, EventReleaseInv, RecoverResetInv, FeedUnitInv, Zenon DEF Owner
<1>3. CASE Adapter
  BY <1>3, WritableInv, TxConsumedInv, TxDrainedInv, Zenon DEF Adapter
<1>4. CASE Poll
  BY <1>4, PollBeginInv, PollReceiveInv, PollReceivedInv, PollQueuedInv, PollTimerInv, PollReturnInv, Zenon DEF Poll
<1>5. CASE Produce
  BY <1>1, <1>5, ArriveInv, Zenon DEF Produce
<1>6. CASE Tick
  BY <1>6, TickInv, Zenon
<1>7. CASE UNCHANGED vars
  BY <1>7, ZenonT(60) DEF vars, IInv, LineInv, StoreInv, EventInv, RxHeld, PhysicalExclusive, SendingIsCarried, Budget,
     CancelSettles
<1> QED BY <1>2, <1>3, <1>4, <1>5, <1>6, <1>7, Zenon DEF Next

-----------------------------------------------------------------------------
(***************************************************************************)
(* The bytes of a unit and the end of a transaction.  An open transaction  *)
(* finds its bytes where tx_payload.data points, and in tx_unit whenever   *)
(* the cached image is marked valid; a unit the adapter holds or that      *)
(* waits keeps the kind it was built with.  Before handles wrap, the       *)
(* terminal event of a handle is in one of three places at most: returned, *)
(* in the slot, or remembered in the transaction.                          *)
(***************************************************************************)

Open(t) == t.state \in {"SENDING", "WAITING_ACK"}
Own(f) == f.kind = "REL" => f.body = f.id.seq
OwnFrames == {f \in Frame : Own(f)}
Image(session, t) == DataFrame([sid |-> session, seq |-> t.seq], t.seq)

\* The bytes of t are where its retry looks for them.
Holds(m, t, session) ==
    /\ Retained(m) = t.seq
    /\ m.encoded => m.unit = Image(session, t)

BytesInv ==
    /\ Open(tx) => Holds(mem, tx, serial.session)
    /\ ReliableLease(io) => mem.unit.kind = "REL" /\ Own(mem.unit)
    /\ ReliableLease(io) /\ tx.state = "SENDING" => mem.encoded
    /\ (io.inflight \/ io.queued) /\ ~io.reliable => mem.unit.kind # "REL"
    /\ wire \in Seq(OwnFrames)

ToldInv ==
    serial.seq <= GenMax =>
      /\ serial.gen <= serial.seq /\ event.handle <= serial.gen
      /\ tx.handle \in {0, serial.gen}
      /\ tx.handle = 0 => tx.pending = "NONE"
      /\ Open(tx) => tx.pending = "NONE" /\ event.handle # tx.handle /\ hist.told[tx.handle] = 0
      /\ tx.pending # "NONE" => event.handle # tx.handle /\ hist.told[tx.handle] = 0
      /\ event.handle # 0 => hist.told[event.handle] = 0
      /\ \A h \in 1 .. GenMax : hist.told[h] <= 1 /\ (h > serial.gen => hist.told[h] = 0)

Good == IInv /\ BytesInv /\ ToldInv

\* What a step may not do to bytes the adapter reads and to a settled transaction.
Stable ==
    /\ io.inflight /\ io'.inflight => mem'.unit = mem.unit
    /\ ctl.inflight /\ ctl'.inflight => ctl'.ack = ctl.ack
Final ==
    tx.state \in Terminal /\ tx'.handle = tx.handle =>
        tx'.state = tx.state /\ tx'.result = tx.result /\ hist'.tries = hist.tries

StepGood == BytesInv' /\ ToldInv' /\ Stable /\ Final

\* What is put on the line is at most the unit that was given to the sink.
LEMMA OwnFacts ==
    /\ \A f \in OwnFrames : <<f>> \in Seq(OwnFrames)
    /\ <<>> \in Seq(OwnFrames)
    /\ \A s1, s2 \in Seq(OwnFrames) : s1 \o s2 \in Seq(OwnFrames)
    /\ \A c \in CtlType : AckFrame(c.ack) \in OwnFrames
    /\ \A c \in CtlType : \A i : \A r \in SubmitControl(c, i) : r.sent \in Seq(OwnFrames)
    /\ \A t, i, m : Encoded(m, t).unit \in OwnFrames =>
          \A r \in SendTxPayload(t, i, m) : r.sent \in Seq(OwnFrames)
    /\ \A f \in OwnFrames : \A i : \A r \in SubmitUnreliable(i, f) : r.sent \in Seq(OwnFrames)
    /\ \A f \in OwnFrames : \A ok : OnLine(f, ok) \subseteq Seq(OwnFrames)
<1>1. /\ \A f \in OwnFrames : <<f>> \in Seq(OwnFrames)
      /\ <<>> \in Seq(OwnFrames)
      /\ \A s1, s2 \in Seq(OwnFrames) : s1 \o s2 \in Seq(OwnFrames)
  OBVIOUS
<1>2. ASSUME NEW c \in CtlType PROVE AckFrame(c.ack) \in OwnFrames
  BY DEF AckFrame, Frame, CtlType, Scrap, OwnFrames, Own
<1>3. ASSUME NEW c \in CtlType, NEW i, NEW r \in SubmitControl(c, i)
      PROVE  r.sent \in Seq(OwnFrames)
  <2>1. r.sent = <<>> \/ r.sent = <<AckFrame(c.ack)>>
    <3>1. CASE r = [ctl |-> c, io |-> i, sent |-> <<>>]
      BY <3>1, Zenon
    <3>2. CASE \E res \in SinkResults : r = ControlAnswer(c, i, res)
      BY <3>2 DEF ControlAnswer
    <3> QED BY <3>1, <3>2, <1>3, Zenon DEF SubmitControl
  <2>2. AckFrame(c.ack) \in OwnFrames
    BY <1>2, Zenon
  <2> QED BY <1>1, <2>1, <2>2, Zenon
<1>4. ASSUME NEW t, NEW i, NEW m, Encoded(m, t).unit \in OwnFrames, NEW r \in SendTxPayload(t, i, m)
      PROVE  r.sent \in Seq(OwnFrames)
  <2>1. PICK res \in SinkResults : r = ReliableAnswer(t, i, Encoded(m, t).unit, res)
    BY <1>4, Zenon DEF SendTxPayload
  <2>2. r.sent = <<>> \/ r.sent = <<Encoded(m, t).unit>>
    BY <2>1, Zenon DEF ReliableAnswer
  <2> QED BY <1>1, <1>4, <2>2, Zenon
<1>5. ASSUME NEW i, NEW f \in OwnFrames, NEW r \in SubmitUnreliable(i, f)
      PROVE  r.sent \in Seq(OwnFrames)
  <2>1. PICK res \in SinkResults : r = UnreliableAnswer(i, f, res)
    BY <1>5, Zenon DEF SubmitUnreliable
  <2>2. r.sent = <<>> \/ r.sent = <<f>>
    BY <2>1, Zenon DEF UnreliableAnswer
  <2> QED BY <1>1, <1>5, <2>2, Zenon
<1>6. ASSUME NEW f \in OwnFrames, NEW ok PROVE OnLine(f, ok) \subseteq Seq(OwnFrames)
  BY <1>1, <1>6, Zenon DEF OnLine
<1> QED BY <1>1, <1>2, <1>3, <1>4, <1>5, <1>6, Zenon

\* wl_send_tx_payload puts the transaction's own bytes under its own number.
LEMMA EncodedHolds ==
    ASSUME NEW m \in MemType, NEW t \in TxType, serial.session \in Nat, Holds(m, t, serial.session)
    PROVE  /\ Encoded(m, t).unit = Image(serial.session, t) /\ Encoded(m, t).encoded
           /\ Holds(Encoded(m, t), t, serial.session)
           /\ Encoded(m, t).unit \in OwnFrames /\ Encoded(m, t).unit.kind = "REL"
           /\ Own(Encoded(m, t).unit)
           /\ m.encoded => Encoded(m, t) = m
<1>1. Image(serial.session, t) \in OwnFrames /\ Image(serial.session, t).kind = "REL"
      /\ Image(serial.session, t).body = t.seq
  BY ConfigAssumption DEF Image, DataFrame, OwnFrames, Own, Frame, Id, TxType
<1>2. CASE m.encoded
  BY <1>1, <1>2, Zenon DEF Encoded, Holds, OwnFrames
<1>3. CASE ~m.encoded
  <2>1. Encoded(m, t) = [m EXCEPT !.unit = Image(serial.session, t), !.encoded = TRUE]
    BY <1>3, Zenon DEF Encoded, Holds, Image
  <2>2. /\ Encoded(m, t).unit = Image(serial.session, t) /\ Encoded(m, t).encoded
        /\ Encoded(m, t).at = m.at /\ Encoded(m, t).payload = m.payload
    BY <2>1, Zenon DEF MemType
  <2>3. Retained(Encoded(m, t)) = t.seq
    BY <1>1, <2>2, Zenon DEF Retained, Holds
  <2> QED BY <1>1, <1>3, <2>2, <2>3, Zenon DEF Holds, OwnFrames
<1> QED BY <1>2, <1>3, Zenon

\* A unit with the adapter or waiting may go on the line.
LEMMA UnitOwn == IInv /\ BytesInv /\ (io.inflight \/ io.queued) /\ (io.reliable => io.inflight)
                   => mem.unit \in OwnFrames
<1> SUFFICES ASSUME IInv, BytesInv, io.inflight \/ io.queued, io.reliable => io.inflight
             PROVE  mem.unit \in OwnFrames
  BY Zenon
<1>1. mem.unit \in Frame
  BY Constants, Zenon DEF IInv, StoreInv
<1> QED BY <1>1, Zenon DEF BytesInv, ReliableLease, OwnFrames, Own

\* Nothing waits on the line that did not wait before.
SameLoad ==
    /\ ReliableLease(io') => ReliableLease(io)
    /\ (io'.inflight \/ io'.queued) /\ ~io'.reliable => (io.inflight \/ io.queued) /\ ~io.reliable

SameAck == ctl.inflight /\ ctl'.inflight => ctl'.ack = ctl.ack

\* A step that leaves the bytes and the history alone, and an open transaction open.
LEMMA KeptStep ==
    ASSUME Good, UNCHANGED <<mem, hist>>, SameLoad, SameAck, wire' \in Seq(OwnFrames),
           serial' = serial \/ (serial' = [serial EXCEPT !.seq = @ + 1]),
           \/ tx' = tx
           \/ /\ Open(tx) /\ Open(tx') /\ tx'.seq = tx.seq /\ tx'.handle = tx.handle
              /\ tx'.pending = tx.pending /\ (tx'.state = "SENDING" => tx.state = "SENDING"),
           event'.handle = event.handle
    PROVE  StepGood
<1>1. serial'.session = serial.session /\ serial'.gen = serial.gen /\ serial.seq <= serial'.seq
      /\ serial.gen \in Nat /\ serial.seq \in Nat /\ serial'.seq \in Nat
  <2>1. serial \in [session : Nat \ {0}, seq : 0 .. SeqMax, gen : 0 .. GenMax] /\ serial.seq \in Nat
        /\ serial.gen \in Nat
    BY ConfigAssumption DEF Good, IInv, StoreInv
  <2> QED BY <2>1
<1>2. BytesInv'
  <2>1. Open(tx') => Holds(mem, tx', serial.session)
    BY Zenon DEF Good, BytesInv, Holds, Image
  <2>2. ReliableLease(io') /\ tx'.state = "SENDING" => mem.encoded
    BY Zenon DEF Good, BytesInv, SameLoad
  <2> QED BY <1>1, <2>1, <2>2, Zenon DEF Good, BytesInv, SameLoad
<1>3. ToldInv'
  <2>1. serial'.seq <= GenMax => serial.seq <= GenMax /\ serial'.gen <= serial'.seq
    BY <1>1, ConfigAssumption DEF Good, ToldInv
  <2>2. tx'.handle = tx.handle /\ tx'.pending = tx.pending /\ (Open(tx') => Open(tx))
    BY Zenon
  <2>3. ToldInv /\ hist' = hist /\ serial'.gen = serial.gen
    BY <1>1, Zenon DEF Good
  <2> QED BY <2>1, <2>2, <2>3, Zenon DEF ToldInv
<1>4. Stable
  BY Zenon DEF Stable, SameAck
<1>5. Final
  BY Zenon DEF Final, Terminal, Open
<1> QED BY <1>2, <1>3, <1>4, <1>5, Zenon DEF StepGood

\* Where the end of a transaction is announced: in the slot if that was free,
\* remembered, or nowhere.
Announced ==
    \/ tx'.pending \in TxEvents /\ event' = event
    \/ tx'.pending = tx.pending /\ event = NoEvent /\ event'.handle = tx.handle
    \/ tx'.pending = tx.pending /\ event' = event

\* A step that ends an open transaction.
LEMMA SettleStep ==
    ASSUME Good, Open(tx), tx'.state \in Terminal, tx'.handle = tx.handle, Announced, serial' = serial,
           hist'.told = hist.told, io'.inflight \/ io'.queued => mem'.unit = mem.unit,
           SameLoad, SameAck, wire' \in Seq(OwnFrames)
    PROVE  StepGood
<1>1. ~Open(tx') /\ tx'.state # "SENDING" /\ tx.state \notin Terminal
  BY Zenon DEF Open, Terminal
<1>2. BytesInv'
  BY <1>1, Zenon DEF Good, BytesInv, SameLoad, ReliableLease
<1>3. tx.handle # 0 /\ tx.handle \in 0 .. GenMax
  BY Zenon DEF Good, IInv, LineInv, CancelSettles, TxType, Open
<1>4. ToldInv'
  <2> SUFFICES ASSUME serial.seq <= GenMax PROVE ToldInv'
    BY Zenon DEF ToldInv
  <2>1. /\ serial.gen <= serial.seq /\ event.handle <= serial.gen
        /\ tx.handle = serial.gen
        /\ tx.pending = "NONE" /\ event.handle # tx.handle /\ hist.told[tx.handle] = 0
        /\ event.handle # 0 => hist.told[event.handle] = 0
        /\ \A h \in 1 .. GenMax : hist.told[h] <= 1 /\ (h > serial.gen => hist.told[h] = 0)
    BY <1>3, Zenon DEF Good, ToldInv
  <2>2. serial.gen <= serial.gen
    BY ConfigAssumption DEF Good, IInv, StoreInv
  <2>3. CASE tx'.pending \in TxEvents /\ event' = event
    BY <1>1, <1>3, <2>1, <2>3, Zenon DEF ToldInv
  <2>4. CASE tx'.pending = tx.pending /\ event = NoEvent /\ event'.handle = tx.handle
    BY <1>1, <1>3, <2>1, <2>2, <2>4, Zenon DEF ToldInv
  <2>5. CASE tx'.pending = tx.pending /\ event' = event
    BY <1>1, <1>3, <2>1, <2>5, Zenon DEF ToldInv
  <2> QED BY <2>3, <2>4, <2>5, Zenon DEF Announced
<1>5. Stable
  BY Zenon DEF Stable, SameAck
<1>6. Final
  BY <1>1, Zenon DEF Final
<1> QED BY <1>2, <1>4, <1>5, <1>6, Zenon DEF StepGood

\* What wl_push_tx_event leaves of the end of a transaction.
LEMMA PushAnnounces ==
    ASSUME NEW t \in TxType, NEW i, NEW type \in TxEvents
    PROVE  LET p == PushTxEvent(t, i, event, type) IN
           /\ p.tx.handle = t.handle /\ p.tx.state = t.state
           /\ \/ p.tx.pending = type /\ p.event = event
              \/ p.tx.pending = t.pending /\ event = NoEvent /\ p.event.handle = t.handle
<1>1. CASE ReliableLease(i) \/ event # NoEvent
  BY <1>1, Zenon DEF PushTxEvent, TxType
<1>2. CASE ~(ReliableLease(i) \/ event # NoEvent)
  BY <1>2, Zenon DEF PushTxEvent, TxEvent
<1> QED BY <1>1, <1>2, Zenon

\* The same for a transaction that fails.
LEMMA FailAnnounces ==
    ASSUME NEW t \in TxType, NEW i
    PROVE  LET p == FailIo(t, i) IN
           /\ p.tx.handle = t.handle /\ p.tx.state = "FAILED"
           /\ \/ p.tx.pending = "TX_FAILED" /\ p.event = event
              \/ p.tx.pending = t.pending /\ event = NoEvent /\ p.event.handle = t.handle
<1> DEFINE u == Ended(t, "FAILED", "IO")
<1>1. u \in TxType /\ u.state = "FAILED" /\ u.handle = t.handle
  BY EndedFacts, Zenon DEF Terminal
<1>2. u.pending = t.pending
  BY Zenon DEF Ended, TxType
<1>3. FailIo(t, i) = PushTxEvent(u, i, event, "TX_FAILED")
  BY Zenon DEF FailIo
<1> HIDE DEF u
<1> QED BY <1>1, <1>2, <1>3, PushAnnounces DEF TxEvents

\* A transaction starts with the bytes the application committed.
LEMMA StartReliableStep ==
    ASSUME Good, NEW m \in MemType, NEW i \in IoType, NEW seq \in 0 .. SeqMax, seq = serial.seq,
           tx.handle = 0, ~io.inflight, UNCHANGED <<ctl, event>>,
           Retained(m) = seq, ~m.encoded, StartReliable(m, i, seq)
    PROVE  StepGood
<1> DEFINE gen == NextGeneration(serial.gen)
           t == [tx EXCEPT !.handle = gen, !.seq = seq, !.wait = "NONE", !.left = MaxRetries,
                           !.used = 0]
<1>1. PICK r \in SendTxPayload(t, i, m) :
         /\ Put(r)
         /\ serial' = [serial EXCEPT !.seq = seq + 1, !.gen = gen]
         /\ hist' = [hist EXCEPT !.tries = r.taken]
         /\ IF r.ok
            THEN /\ tx' = [r.tx EXCEPT !.result = "BUSY"]
                 /\ mem' = Encoded(m, t)
            ELSE /\ tx' = [r.tx EXCEPT !.handle = 0, !.state = "IDLE", !.seq = 0, !.wait = "NONE",
                                       !.left = 0]
                 /\ mem' = [Encoded(m, t) EXCEPT !.at = "payload", !.encoded = FALSE]
  BY Zenon DEF StartReliable
<1>2. /\ gen \in 0 .. GenMax /\ gen # 0 /\ MaxRetries \in 0 .. MaxRetries /\ 0 \in 0 .. MaxRetries
      /\ serial \in [session : Nat \ {0}, seq : 0 .. SeqMax, gen : 0 .. GenMax]
      /\ tx \in TxType /\ tx.state = "IDLE"
      /\ serial.seq + 1 <= GenMax => (serial.gen <= serial.seq => gen = serial.gen + 1)
  BY ConfigAssumption, SMTT(30) DEF NextGeneration, Good, IInv, StoreInv, LineInv, CancelSettles
<1> HIDE DEF gen
<1>3. t \in TxType /\ t.seq = seq /\ t.handle = gen /\ t.pending = tx.pending
  BY <1>2, Zenon DEF TxType
<1> HIDE DEF t
<1>4. Holds(m, t, serial.session) /\ serial.session \in Nat
  BY <1>2, <1>3, Zenon DEF Holds
<1>5. /\ Encoded(m, t).unit = Image(serial.session, t) /\ Encoded(m, t).encoded
      /\ Holds(Encoded(m, t), t, serial.session)
      /\ Encoded(m, t).unit \in OwnFrames /\ Encoded(m, t).unit.kind = "REL"
      /\ Own(Encoded(m, t).unit)
  BY <1>3, <1>4, EncodedHolds, Zenon
<1>6. /\ r.tx \in TxType /\ r.tx.handle = gen /\ r.tx.seq = seq /\ r.tx.pending = tx.pending
      /\ r.ok => Open(r.tx) /\ ((r.io.inflight \/ r.io.queued) => r.io.reliable)
      /\ ~r.ok => ~r.io.inflight /\ ~r.io.queued
  BY <1>1, <1>3, ReliableFacts DEF Open, ReliableLease
<1>7. wire' \in Seq(OwnFrames)
  BY <1>1, <1>5, OwnFacts, Zenon DEF Put
<1>8. /\ serial'.session = serial.session /\ serial'.seq = serial.seq + 1 /\ serial'.gen = gen
      /\ hist'.told = hist.told
  BY <1>1, <1>2, Zenon DEF Good, IInv, StoreInv
<1>9. CASE r.ok
  <2>1. tx'.seq = seq /\ tx'.handle = gen /\ tx'.pending = tx.pending /\ Open(tx') /\ mem' = Encoded(m, t)
        /\ io' = r.io
    BY <1>1, <1>6, <1>9, Zenon DEF TxType, Open, Put
  <2>2. Holds(mem', tx', serial'.session)
    BY <1>3, <1>5, <1>8, <2>1, Zenon DEF Holds, Image
  <2>3. BytesInv'
    BY <1>5, <1>6, <1>7, <1>9, <2>1, <2>2, Zenon DEF BytesInv
  <2>4. ToldInv'
    <3> SUFFICES ASSUME serial.seq + 1 <= GenMax PROVE ToldInv'
      BY <1>8, Zenon DEF ToldInv
    <3>1. serial.seq <= GenMax /\ serial.seq \in Nat /\ serial.gen \in Nat /\ GenMax \in Nat
          /\ event.handle \in Nat
      BY <1>2, ConfigAssumption DEF Good, IInv, EventInv, Event
    <3>2. /\ serial.gen <= serial.seq /\ event.handle <= serial.gen /\ tx.pending = "NONE"
          /\ event.handle # 0 => hist.told[event.handle] = 0
          /\ \A h \in 1 .. GenMax : hist.told[h] <= 1 /\ (h > serial.gen => hist.told[h] = 0)
      BY <3>1, Zenon DEF Good, ToldInv
    <3>3. gen = serial.gen + 1 /\ gen \in 1 .. GenMax
      BY <1>2, <3>1, <3>2
    <3>4. hist.told[gen] = 0 /\ event.handle # gen /\ gen <= serial.seq + 1 /\ event.handle <= gen
          /\ \A h \in 1 .. GenMax : h > gen => hist.told[h] = 0
      BY <3>1, <3>2, <3>3
    <3> QED BY <1>8, <2>1, <3>2, <3>4, Zenon DEF ToldInv
  <2> QED BY <1>2, <2>1, <2>3, <2>4, Zenon DEF StepGood, Stable, Final, Terminal
<1>10. CASE ~r.ok
  <2>1. tx'.handle = 0 /\ tx'.pending = tx.pending /\ ~Open(tx') /\ tx'.state = "IDLE" /\ io' = r.io
    BY <1>1, <1>6, <1>10, ZenonT(60) DEF TxType, Open, Put
  <2>2. BytesInv'
    BY <1>6, <1>7, <1>10, <2>1, Zenon DEF BytesInv, ReliableLease
  <2>3. ToldInv'
    <3> SUFFICES ASSUME serial.seq + 1 <= GenMax PROVE ToldInv'
      BY <1>8, Zenon DEF ToldInv
    <3>1. serial.seq <= GenMax /\ serial.seq \in Nat /\ serial.gen \in Nat /\ GenMax \in Nat
          /\ event.handle \in Nat
      BY <1>2, ConfigAssumption DEF Good, IInv, EventInv, Event
    <3>2. /\ serial.gen <= serial.seq /\ event.handle <= serial.gen /\ tx.pending = "NONE"
          /\ event.handle # 0 => hist.told[event.handle] = 0
          /\ \A h \in 1 .. GenMax : hist.told[h] <= 1 /\ (h > serial.gen => hist.told[h] = 0)
      BY <3>1, Zenon DEF Good, ToldInv
    <3>3. gen = serial.gen + 1 /\ gen \in 1 .. GenMax
      BY <1>2, <3>1, <3>2
    <3>4. gen <= serial.seq + 1 /\ event.handle <= gen
          /\ \A h \in 1 .. GenMax : h > gen => hist.told[h] = 0
      BY <3>1, <3>2, <3>3
    <3> QED BY <1>8, <2>1, <3>2, <3>4, Zenon DEF ToldInv
  <2> QED BY <1>2, <2>1, <2>2, <2>3, Zenon DEF StepGood, Stable, Final, Terminal
<1> QED BY <1>9, <1>10, Zenon

\* Telemetry takes tx_unit: the bytes of an open transaction move to tx_payload.
LEMMA InvalidatedHolds ==
    ASSUME NEW m \in MemType, NEW t \in TxType, NEW s, t.handle # 0, Holds(m, t, s)
    PROVE  /\ Invalidated(m, t.handle).at = "payload" /\ Invalidated(m, t.handle).payload = t.seq
           /\ ~Invalidated(m, t.handle).encoded
BY Zenon DEF Invalidated, MemType, Holds, Retained

LEMMA StartUnreliableStep ==
    ASSUME Good, NEW i \in IoType, ~io.inflight, UNCHANGED <<ctl, event, serial, hist>>,
           StartUnreliable(mem, i)
    PROVE  StepGood
<1>1. PICK r \in SubmitUnreliable(i, UnrelFrame) : Put(r)
  BY Zenon DEF StartUnreliable
<1>2. ~r.io.reliable
  BY <1>1, UnreliableFacts, Zenon
<1>3. UnrelFrame \in OwnFrames /\ UnrelFrame.kind # "REL"
  BY Constants, Zenon DEF OwnFrames, Own, UnrelFrame
<1>4. wire' \in Seq(OwnFrames)
  BY <1>1, <1>3, OwnFacts, Zenon DEF Put
<1>5. tx' = tx /\ mem' = [Invalidated(mem, tx.handle) EXCEPT !.unit = UnrelFrame]
      /\ mem \in MemType /\ tx \in TxType /\ (Open(tx) => tx.handle # 0)
  BY Zenon DEF StartUnreliable, Good, IInv, LineInv, StoreInv, CancelSettles, Open
<1>6. Invalidated(mem, tx.handle) \in MemType
  BY <1>5, InvalidatedFacts, Zenon
<1>7. Open(tx) => Holds(mem', tx, serial.session)
  <2> SUFFICES ASSUME Open(tx) PROVE Holds(mem', tx, serial.session)
    BY Zenon
  <2>1. /\ Invalidated(mem, tx.handle).at = "payload" /\ Invalidated(mem, tx.handle).payload = tx.seq
        /\ ~Invalidated(mem, tx.handle).encoded
    BY <1>5, InvalidatedHolds, Zenon DEF Good, BytesInv
  <2>2. mem'.at = "payload" /\ mem'.payload = tx.seq /\ ~mem'.encoded
    BY <1>5, <1>6, <2>1, Zenon DEF MemType
  <2> QED BY <2>2, Zenon DEF Holds, Retained
<1>8. mem'.unit = UnrelFrame
  BY <1>5, <1>6, Zenon DEF MemType
<1>9. BytesInv'
  BY <1>1, <1>2, <1>3, <1>4, <1>5, <1>7, <1>8, Zenon DEF BytesInv, Put, ReliableLease
<1>10. ToldInv'
  BY <1>5, Zenon DEF ToldInv, Good
<1> QED BY <1>5, <1>9, <1>10, Zenon DEF StepGood, Stable, Final

\* wl_send_reliable
LEMMA SendReliableStep == Good /\ SendReliable => StepGood
<1> SUFFICES ASSUME Good, SendReliable PROVE StepGood
  BY Zenon
<1>1. CASE io.claim # "NONE" \/ DataBusy(TRUE)
  <2>1. serial' = [serial EXCEPT !.seq = @ + 1] /\ wire' = <<>> /\ UNCHANGED <<tx, io, mem, hist, ctl, event>>
    BY <1>1, Zenon DEF SendReliable
  <2> QED BY <2>1, KeptStep, OwnFacts, Zenon DEF SameLoad, SameAck
<1>2. CASE ~(io.claim # "NONE" \/ DataBusy(TRUE))
  <2> DEFINE m == [mem EXCEPT !.payload = serial.seq, !.at = "payload", !.encoded = FALSE]
  <2>1. StartReliable(m, io, serial.seq) /\ UNCHANGED <<ctl, event>>
    BY <1>2, Zenon DEF SendReliable
  <2>2. serial.seq \in Body /\ serial.seq \in 0 .. SeqMax /\ mem \in MemType
    BY ConfigAssumption, Zenon DEF Body, Good, IInv, StoreInv
  <2>3. m \in MemType /\ Retained(m) = serial.seq /\ ~m.encoded
    BY <2>2, Zenon DEF MemType, Retained
  <2>4. ~io.inflight /\ io \in IoType /\ tx.handle = 0
    BY <1>2, Zenon DEF DataBusy, Good, IInv, LineInv
  <2> HIDE DEF m
  <2> QED BY <2>1, <2>2, <2>3, <2>4, StartReliableStep, Zenon
<1> QED BY <1>1, <1>2, Zenon

\* wl_send_unreliable
LEMMA SendUnreliableStep == Good /\ SendUnreliable => StepGood
<1> SUFFICES ASSUME Good, SendUnreliable PROVE StepGood
  BY Zenon
<1>1. ~io.inflight /\ io \in IoType
  BY Zenon DEF SendUnreliable, DataBusy, Good, IInv, LineInv
<1> QED BY <1>1, StartUnreliableStep, Zenon DEF SendUnreliable

\* wl_tx_payload_claim: an open transaction's bytes are not in the claimed buffer.
LEMMA PayloadClaimStep ==
    ASSUME Good, NEW delivery \in {"RELIABLE", "UNRELIABLE"}, PayloadClaim(delivery)
    PROVE  StepGood
<1> DEFINE m == IF delivery = "UNRELIABLE" THEN Invalidated(mem, tx.handle) ELSE mem
<1>1. /\ ~io.inflight /\ ~io.queued /\ io' = [io EXCEPT !.claim = delivery]
      /\ UNCHANGED <<tx, ctl, event, serial, hist>> /\ wire' = <<>>
      /\ delivery = "RELIABLE" => tx.handle = 0
  BY Zenon DEF PayloadClaim, DataBusy
<1>2. ~io'.inflight /\ ~io'.queued
  BY <1>1, Zenon DEF Good, IInv, LineInv, IoType
<1>3. m \in MemType /\ tx \in TxType /\ mem \in MemType
  BY InvalidatedFacts, Zenon DEF Good, IInv, LineInv, StoreInv
<1>4. Open(tx) => tx.handle # 0 /\ delivery = "UNRELIABLE"
  BY <1>1, Zenon DEF Good, IInv, LineInv, CancelSettles, Open
<1>5. Open(tx) => mem' = [m EXCEPT !.unit = BadFrame, !.claim_at = "unit"]
  BY <1>4, Zenon DEF PayloadClaim
<1>6. Open(tx) => m.at = "payload" /\ m.payload = tx.seq /\ ~m.encoded
  <2> SUFFICES ASSUME Open(tx) PROVE m.at = "payload" /\ m.payload = tx.seq /\ ~m.encoded
    BY Zenon
  <2>1. m = Invalidated(mem, tx.handle)
    BY <1>4, Zenon
  <2> HIDE DEF m
  <2> QED BY <1>3, <1>4, <2>1, InvalidatedHolds, Zenon DEF Good, BytesInv
<1> HIDE DEF m
<1>7. Open(tx) => Holds(mem', tx, serial.session)
  <2> SUFFICES ASSUME Open(tx) PROVE Holds(mem', tx, serial.session)
    BY Zenon
  <2>1. mem'.at = "payload" /\ mem'.payload = tx.seq /\ ~mem'.encoded
    BY <1>3, <1>5, <1>6, Zenon DEF MemType
  <2> QED BY <2>1, Zenon DEF Holds, Retained
<1>8. BytesInv'
  BY <1>1, <1>2, <1>7, OwnFacts, Zenon DEF BytesInv, ReliableLease
<1>9. ToldInv'
  BY <1>1, Zenon DEF Good, ToldInv
<1> QED BY <1>1, <1>8, <1>9, Zenon DEF StepGood, Stable, Final

\* wl_tx_payload_commit
LEMMA PayloadCommitStep == Good /\ PayloadCommit => StepGood
<1> SUFFICES ASSUME Good, PayloadCommit PROVE StepGood
  BY Zenon
<1> DEFINE i == [io EXCEPT !.claim = "NONE"]
<1>1. i \in IoType /\ i.inflight = io.inflight /\ i.queued = io.queued /\ i.reliable = io.reliable
  BY Zenon DEF Good, IInv, LineInv, IoType
<1>2. ~io.inflight /\ UNCHANGED <<ctl, event>>
  BY Zenon DEF PayloadCommit, Good, IInv, LineInv, PhysicalExclusive
<1>3. CASE io.claim = "RELIABLE" /\ serial.seq < SeqMax /\ ~DataBusy(TRUE)
  <2> DEFINE m == [mem EXCEPT !.at = mem.claim_at, !.encoded = FALSE,
                       !.unit.body = IF mem.claim_at = "unit" THEN serial.seq ELSE @,
                       !.payload = IF mem.claim_at = "unit" THEN @ ELSE serial.seq]
  <2>1. StartReliable(m, i, serial.seq)
    BY <1>3, Zenon DEF PayloadCommit
  <2>2. serial.seq \in Body /\ serial.seq \in 0 .. SeqMax /\ mem \in MemType
    BY ConfigAssumption, Zenon DEF Body, Good, IInv, StoreInv
  <2>3. m \in MemType /\ Retained(m) = serial.seq /\ ~m.encoded
    BY <2>2, Zenon DEF MemType, Retained
  <2>4. tx.handle = 0
    BY <1>3, Zenon DEF DataBusy
  <2> HIDE DEF m, i
  <2> QED BY <1>1, <1>2, <2>1, <2>2, <2>3, <2>4, StartReliableStep, Zenon
<1>4. CASE io.claim = "UNRELIABLE" /\ ~DataBusy(FALSE) /\ io.compl # ComplMax
  <2>1. StartUnreliable(mem, i) /\ UNCHANGED <<serial, hist>>
    BY <1>4, Zenon DEF PayloadCommit
  <2> HIDE DEF i
  <2> QED BY <1>1, <1>2, <2>1, StartUnreliableStep, Zenon
<1>5. CASE /\ io' = i /\ wire' = <<>> /\ UNCHANGED <<tx, ctl, mem, hist>>
           /\ serial' = IF io.claim = "RELIABLE" /\ serial.seq < SeqMax
                        THEN [serial EXCEPT !.seq = @ + 1] ELSE serial
  <2> HIDE DEF i
  <2>1. SameLoad /\ SameAck
    BY <1>1, <1>2, <1>5, Zenon DEF SameLoad, SameAck, ReliableLease
  <2>2. serial' = serial \/ serial' = [serial EXCEPT !.seq = @ + 1]
    BY <1>5, Zenon
  <2> QED BY <1>2, <1>5, <2>1, <2>2, KeptStep, OwnFacts, Zenon
<1> QED BY <1>2, <1>3, <1>4, <1>5, Zenon DEF PayloadCommit

\* wl_tx_payload_abort, wl_tx_writable, wl_event_release, wl_feed_recover_reset
LEMMA SmallCallStep ==
    ASSUME Good, PayloadAbort \/ Writable \/ EventRelease \/ RecoverReset
    PROVE  StepGood
<1>1. /\ io'.inflight = io.inflight /\ io'.reliable = io.reliable /\ io'.queued = io.queued
      /\ wire' = <<>> /\ UNCHANGED <<tx, ctl, mem, event, serial, hist>>
  BY Zenon DEF PayloadAbort, Writable, EventRelease, RecoverReset, Good, IInv, LineInv, IoType
<1>2. SameLoad /\ SameAck
  BY <1>1, Zenon DEF SameLoad, SameAck, ReliableLease
<1> QED BY <1>1, <1>2, KeptStep, OwnFacts, Zenon

\* wl_tx_cancel
LEMMA CancelStep == Good /\ Cancel => StepGood
<1> SUFFICES ASSUME Good, Cancel PROVE StepGood
  BY Zenon
<1>1. tx \in TxType /\ io \in IoType /\ Open(tx)
  BY Zenon DEF Good, IInv, LineInv, Cancel, Open
<1>2. tx'.state = "CANCELLED" /\ tx'.handle = tx.handle /\ tx'.pending = tx.pending
  BY <1>1, Zenon DEF Cancel, Ended, TxType
<1>3. /\ io'.inflight = io.inflight /\ (io'.inflight => io'.reliable = io.reliable)
      /\ (io'.queued => io' = io) /\ UNCHANGED <<mem, ctl, event, serial, hist>> /\ wire' = <<>>
  <2>1. CASE ~ReliableLease(io) /\ io.queued /\ io.reliable
    <3>1. io' = [io EXCEPT !.queued = FALSE, !.reliable = FALSE]
      BY <2>1, Zenon DEF Cancel
    <3>2. ~io.inflight
      BY <2>1, Zenon DEF ReliableLease
    <3> QED BY <1>1, <3>1, <3>2, Zenon DEF Cancel, IoType
  <2>2. CASE ~(~ReliableLease(io) /\ io.queued /\ io.reliable)
    BY <2>2, Zenon DEF Cancel
  <2> QED BY <2>1, <2>2, Zenon
<1>4. SameLoad /\ SameAck
  BY <1>3, Zenon DEF SameLoad, SameAck, ReliableLease
<1> QED BY <1>1, <1>2, <1>3, <1>4, SettleStep, OwnFacts, Zenon DEF Announced, Terminal

\* wl_tx_take
LEMMA TakeStep == Good /\ Take => StepGood
<1> SUFFICES ASSUME Good, Take PROVE StepGood
  BY Zenon
<1>1. /\ tx'.handle = 0 /\ tx'.pending = "NONE" /\ tx'.state = "IDLE"
      /\ mem'.unit = mem.unit /\ tx.handle # 0 /\ ~ReliableLease(io)
      /\ UNCHANGED <<io, ctl, event, serial, hist>> /\ wire' = <<>>
  BY Zenon DEF Take, CanTake, Good, IInv, LineInv, StoreInv, TxType, MemType
<1>2. BytesInv'
  BY <1>1, OwnFacts, Zenon DEF Good, BytesInv, Open
<1>3. ToldInv'
  BY <1>1, Zenon DEF Good, ToldInv, Open
<1> QED BY <1>1, <1>2, <1>3, Zenon DEF StepGood, Stable, Final

\* A waiting ACK that takes the line is the ACK that waited.
LEMMA ThenControlStep ==
    ASSUME LineInv, NEW i \in IoType, NEW line \in Seq(OwnFrames), ThenControl(i, line)
    PROVE  /\ ctl'.ack = ctl.ack /\ wire' \in Seq(OwnFrames)
           /\ io'.inflight = i.inflight /\ io'.reliable = i.reliable /\ io'.queued = i.queued
<1>1. PICK r \in SubmitControl(ctl, i) : ctl' = r.ctl /\ io' = r.io /\ wire' = line \o r.sent
  BY Zenon DEF ThenControl
<1>2. ctl \in CtlType
  BY Zenon DEF LineInv
<1>3. r.sent \in Seq(OwnFrames)
  BY <1>2, OwnFacts, Zenon
<1>4. wire' \in Seq(OwnFrames)
  BY <1>1, <1>3, OwnFacts, Zenon
<1> QED BY <1>1, <1>2, <1>4, SubmitControlFacts, Zenon

\* After the unit in flight came back, nothing that waits is new.
LEMMA FreedStep ==
    ASSUME Good, NEW ok \in BOOLEAN, NEW i \in IoType, ~i.inflight, ~i.reliable, i.queued = io.queued,
           io.inflight, NEW line \in OnLine(mem.unit, ok), ThenControl(i, line)
    PROVE  SameLoad /\ SameAck /\ wire' \in Seq(OwnFrames)
<1>1. mem.unit \in OwnFrames
  BY UnitOwn, Zenon DEF Good
<1>2. line \in Seq(OwnFrames)
  BY <1>1, OwnFacts, Zenon
<1>3. /\ ctl'.ack = ctl.ack /\ wire' \in Seq(OwnFrames)
      /\ ~io'.inflight /\ ~io'.reliable /\ io'.queued = io.queued
  BY <1>2, ThenControlStep, Zenon DEF Good, IInv
<1>4. ~io.queued
  BY Zenon DEF Good, IInv, LineInv, PhysicalExclusive
<1> QED BY <1>3, <1>4, Zenon DEF SameLoad, SameAck, ReliableLease

LEMMA ConsumedControlStep ==
    ASSUME Good, NEW ok \in BOOLEAN, ConsumedControl(ok), UNCHANGED serial
    PROVE  StepGood
<1>1. ~ctl'.inflight /\ UNCHANGED <<tx, mem, event, hist>>
  BY Zenon DEF ConsumedControl, Good, IInv, LineInv, CtlType
<1>2. io'.inflight = io.inflight /\ io'.reliable = io.reliable /\ io'.queued = io.queued
  BY ReportedFacts, Zenon DEF ConsumedControl, Good, IInv
<1>3. wire' \in Seq(OwnFrames)
  BY OwnFacts, Zenon DEF ConsumedControl, Good, IInv, LineInv
<1> QED BY <1>1, <1>2, <1>3, KeptStep, Zenon DEF SameLoad, SameAck, ReliableLease

LEMMA ConsumedUnreliableStep ==
    ASSUME Good, NEW ok \in BOOLEAN, ConsumedUnreliable(ok), io.inflight, UNCHANGED serial
    PROVE  StepGood
<1> DEFINE i == IF ok THEN CompleteUnreliable(Freed(ok)) ELSE Freed(ok)
<1>1. i \in IoType /\ ~i.inflight /\ ~i.reliable /\ i.queued = io.queued
  BY ReportedFacts, CompleteFacts, Zenon DEF Good, IInv
<1>2. PICK line \in OnLine(mem.unit, ok) : ThenControl(i, line)
  BY Zenon DEF ConsumedUnreliable
<1> HIDE DEF i
<1>3. SameLoad /\ SameAck /\ wire' \in Seq(OwnFrames)
  BY <1>1, <1>2, FreedStep, Zenon
<1> QED BY <1>3, KeptStep, Zenon DEF ConsumedUnreliable

LEMMA ConsumedSettledStep ==
    ASSUME Good, NEW ok \in BOOLEAN, ConsumedSettled(ok), io.inflight, UNCHANGED serial
    PROVE  StepGood
<1>1. PICK line \in OnLine(mem.unit, ok) : ThenControl(Freed(ok), line)
  BY Zenon DEF ConsumedSettled
<1>2. SameLoad /\ SameAck /\ wire' \in Seq(OwnFrames)
  BY <1>1, FreedStep, ReportedFacts, Zenon DEF Good, IInv
<1>3. /\ tx'.state = tx.state /\ tx'.handle = tx.handle /\ tx'.seq = tx.seq
      /\ tx'.pending = tx.pending /\ tx'.result = tx.result
      /\ UNCHANGED <<event, hist, serial>> /\ mem'.unit = mem.unit
  BY Zenon DEF ConsumedSettled, Good, IInv, LineInv, StoreInv, TxType, MemType
<1>4. Open(tx) => mem' = mem
  BY Zenon DEF ConsumedSettled, Open, Good, IInv, LineInv, CancelSettles
<1>5. BytesInv'
  <2>1. Open(tx') => Holds(mem', tx', serial'.session)
    BY <1>3, <1>4, Zenon DEF Good, BytesInv, Open, Holds, Image
  <2> QED BY <1>2, <1>3, <1>4, <2>1, Zenon DEF Good, BytesInv, SameLoad, Open
<1>6. ToldInv'
  BY <1>3, Zenon DEF Good, ToldInv, Open
<1> QED BY <1>2, <1>3, <1>5, <1>6, Zenon DEF StepGood, Stable, Final, SameAck

LEMMA ConsumedSentStep ==
    ASSUME Good, ConsumedSent, io.inflight, UNCHANGED serial
    PROVE  StepGood
<1>1. mem.unit \in OwnFrames
  BY UnitOwn, Zenon DEF Good
<1>2. <<mem.unit>> \in OnLine(mem.unit, TRUE) /\ ThenControl(Freed(TRUE), <<mem.unit>>)
  BY Zenon DEF OnLine, ConsumedSent
<1>3. SameLoad /\ SameAck /\ wire' \in Seq(OwnFrames)
  BY <1>2, FreedStep, ReportedFacts, Zenon DEF Good, IInv
<1>4. /\ Open(tx) /\ Open(tx') /\ tx'.seq = tx.seq /\ tx'.handle = tx.handle /\ tx'.pending = tx.pending
      /\ tx.state = "SENDING"
  BY Zenon DEF ConsumedSent, ReliableReport, Open, Good, IInv, LineInv, TxType
<1> QED BY <1>3, <1>4, KeptStep, Zenon DEF ConsumedSent

\* A retry keeps the request.
LEMMA SpentKeeps ==
    ASSUME NEW t \in TxType
    PROVE  /\ Spent(t).state = t.state /\ Spent(t).seq = t.seq /\ Spent(t).handle = t.handle
           /\ Spent(t).pending = t.pending
BY Zenon DEF Spent, TxType

LEMMA ConsumedErrorQueueStep ==
    ASSUME Good, ConsumedErrorQueue, io.inflight, UNCHANGED serial
    PROVE  StepGood
<1> DEFINE i == [Freed(FALSE) EXCEPT !.queued = TRUE, !.reliable = TRUE]
<1>1. i \in IoType /\ ~i.inflight /\ i.queued /\ i.reliable
  BY ReportedFacts, Zenon DEF Good, IInv, IoType
<1>2. PICK line \in OnLine(mem.unit, FALSE) : ThenControl(i, line)
  BY Zenon DEF ConsumedErrorQueue
<1> HIDE DEF i
<1>3. mem.unit \in OwnFrames
  BY UnitOwn, Zenon DEF Good
<1>4. line \in Seq(OwnFrames)
  BY <1>3, OwnFacts, Zenon
<1>5. ctl'.ack = ctl.ack /\ wire' \in Seq(OwnFrames) /\ ~io'.inflight /\ io'.reliable
  BY <1>1, <1>2, <1>4, ThenControlStep, Zenon DEF Good, IInv
<1>6. SameLoad /\ SameAck
  BY <1>5, Zenon DEF SameLoad, SameAck, ReliableLease
<1>7. /\ Open(tx) /\ Open(tx') /\ tx'.seq = tx.seq /\ tx'.handle = tx.handle /\ tx'.pending = tx.pending
      /\ tx.state = "SENDING"
  BY SpentKeeps, Zenon DEF ConsumedErrorQueue, ReliableReport, Open, Good, IInv, LineInv
<1> QED BY <1>5, <1>6, <1>7, KeptStep, Zenon DEF ConsumedErrorQueue

LEMMA ConsumedErrorFailStep ==
    ASSUME Good, ConsumedErrorFail, io.inflight, UNCHANGED serial
    PROVE  StepGood
<1>1. PICK line \in OnLine(mem.unit, FALSE) : ThenControl(Freed(FALSE), line)
  BY Zenon DEF ConsumedErrorFail
<1>2. SameLoad /\ SameAck /\ wire' \in Seq(OwnFrames)
  BY <1>1, FreedStep, ReportedFacts, Zenon DEF Good, IInv
<1> DEFINE p == FailIo(tx, Freed(FALSE))
<1>3. tx' = p.tx /\ event' = p.event /\ Open(tx) /\ UNCHANGED <<mem, hist>>
  BY Zenon DEF ConsumedErrorFail, ReliableReport, Open
<1>4. /\ p.tx.handle = tx.handle /\ p.tx.state = "FAILED"
      /\ \/ p.tx.pending = "TX_FAILED" /\ p.event = event
         \/ p.tx.pending = tx.pending /\ event = NoEvent /\ p.event.handle = tx.handle
  BY FailAnnounces, Zenon DEF Good, IInv, LineInv
<1> HIDE DEF p
<1>5. Announced
  BY <1>3, <1>4, Zenon DEF Announced, TxEvents
<1> QED BY <1>2, <1>3, <1>4, <1>5, SettleStep, Zenon DEF Terminal

\* Submitting the open transaction's unit again sends the bytes it was committed with.
LEMMA ResubmitStep ==
    ASSUME Good, Open(tx), NEW i \in IoType, NEW r \in SendTxPayload(tx, i, mem),
           NEW line \in Seq(OwnFrames), io' = r.io, wire' = line \o r.sent, Tried(r),
           mem' = Encoded(mem, tx), UNCHANGED <<ctl, serial>>, ReliableLease(io) \/ ~io.inflight,
           io.inflight => tx.state = "SENDING",
           r.ok => (tx' = r.tx \/ tx' = Spent(r.tx)) /\ event' = event,
           ~r.ok => tx' = FailIo(r.tx, r.io).tx /\ event' = FailIo(r.tx, r.io).event
    PROVE  StepGood
<1>1. tx \in TxType /\ mem \in MemType /\ serial.session \in Nat /\ Holds(mem, tx, serial.session)
  BY Zenon DEF Good, IInv, LineInv, StoreInv, BytesInv
<1>2. /\ Encoded(mem, tx).encoded /\ Holds(Encoded(mem, tx), tx, serial.session)
      /\ Encoded(mem, tx).unit \in OwnFrames /\ Encoded(mem, tx).unit.kind = "REL"
      /\ Own(Encoded(mem, tx).unit)
      /\ mem.encoded => Encoded(mem, tx) = mem
  BY <1>1, EncodedHolds, Zenon
<1>3. r.sent \in Seq(OwnFrames)
  BY <1>2, OwnFacts, Zenon
<1>4. wire' \in Seq(OwnFrames)
  BY <1>3, OwnFacts, Zenon
<1>5. hist'.told = hist.told
  BY Zenon DEF Tried, Good, IInv, StoreInv
<1>6. io.inflight => mem' = mem
  BY <1>2, Zenon DEF Good, BytesInv
<1>7. /\ r.tx \in TxType /\ r.tx.handle = tx.handle /\ r.tx.seq = tx.seq /\ r.tx.pending = tx.pending
      /\ r.ok => Open(r.tx) /\ ((r.io.inflight \/ r.io.queued) => r.io.reliable)
      /\ ~r.ok => ~r.io.inflight /\ ~r.io.queued
  BY <1>1, ReliableFacts DEF Open, ReliableLease
<1>8. CASE r.ok
  <2>1. tx'.handle = tx.handle /\ tx'.seq = tx.seq /\ tx'.pending = tx.pending /\ Open(tx')
        /\ event' = event
    BY <1>7, <1>8, SpentKeeps, Zenon DEF Open
  <2>2. Holds(mem', tx', serial'.session)
    BY <1>2, <2>1, Zenon DEF Holds, Image
  <2>3. BytesInv'
    BY <1>2, <1>4, <1>7, <1>8, <2>1, <2>2, Zenon DEF BytesInv
  <2>4. ToldInv'
    BY <1>5, <2>1, Zenon DEF Good, ToldInv
  <2>5. Final
    BY Zenon DEF Final, Open, Terminal
  <2> QED BY <1>6, <2>3, <2>4, <2>5, Zenon DEF StepGood, Stable
<1>9. CASE ~r.ok
  <2>1. /\ tx'.handle = tx.handle /\ tx'.state = "FAILED"
        /\ \/ tx'.pending = "TX_FAILED" /\ event' = event
           \/ tx'.pending = tx.pending /\ event = NoEvent /\ event'.handle = tx.handle
    BY <1>7, <1>9, FailAnnounces
  <2>2. Announced
    BY <2>1, Zenon DEF Announced, TxEvents
  <2>3. SameLoad /\ SameAck
    BY <1>7, <1>9, Zenon DEF SameLoad, SameAck, ReliableLease
  <2> QED BY <1>4, <1>5, <1>7, <1>9, <2>1, <2>2, <2>3, SettleStep, Zenon DEF Terminal
<1> QED BY <1>8, <1>9, Zenon

LEMMA ConsumedErrorRetryStep ==
    ASSUME Good, ConsumedErrorRetry, io.inflight, UNCHANGED serial
    PROVE  StepGood
<1>1. PICK line \in OnLine(mem.unit, FALSE), r \in SendTxPayload(tx, Freed(FALSE), mem) :
          /\ io' = r.io /\ wire' = line \o r.sent /\ Tried(r)
          /\ r.ok => tx' = Spent(r.tx) /\ UNCHANGED event
          /\ ~r.ok => tx' = FailIo(r.tx, r.io).tx /\ event' = FailIo(r.tx, r.io).event
  BY Zenon DEF ConsumedErrorRetry
<1>2. mem.unit \in OwnFrames
  BY UnitOwn, Zenon DEF Good
<1>3. line \in Seq(OwnFrames)
  BY <1>2, OwnFacts, Zenon
<1>4. /\ mem' = Encoded(mem, tx) /\ UNCHANGED ctl /\ tx.state = "SENDING" /\ Open(tx)
      /\ ReliableLease(io) /\ Freed(FALSE) \in IoType
  BY ReportedFacts, Zenon DEF ConsumedErrorRetry, ReliableReport, Open, ReliableLease, Good, IInv
<1> QED BY <1>1, <1>3, <1>4, ResubmitStep, Zenon

\* wl_tx_consumed
LEMMA TxConsumedStep == Good /\ TxConsumed => StepGood
<1> SUFFICES ASSUME Good, TxConsumed PROVE StepGood
  BY Zenon
<1>1. UNCHANGED serial /\ (io.inflight \/ ctl.inflight)
  BY Zenon DEF TxConsumed
<1>2. ASSUME NEW ok \in BOOLEAN, ConsumedControl(ok) PROVE StepGood
  BY <1>1, <1>2, ConsumedControlStep, Zenon
<1>3. ASSUME NEW ok \in BOOLEAN, ConsumedUnreliable(ok) PROVE StepGood
  BY <1>1, <1>3, ConsumedUnreliableStep, Zenon DEF ConsumedUnreliable
<1>4. ASSUME NEW ok \in BOOLEAN, ConsumedSettled(ok) PROVE StepGood
  BY <1>1, <1>4, ConsumedSettledStep, Zenon DEF ConsumedSettled
<1>5. ReliableReport => io.inflight
  BY <1>1, Zenon DEF ReliableReport
<1>6. CASE ConsumedSent
  BY <1>1, <1>5, <1>6, ConsumedSentStep, Zenon DEF ConsumedSent
<1>7. CASE ConsumedErrorQueue
  BY <1>1, <1>5, <1>7, ConsumedErrorQueueStep, Zenon DEF ConsumedErrorQueue
<1>8. CASE ConsumedErrorRetry
  BY <1>1, <1>5, <1>8, ConsumedErrorRetryStep, Zenon DEF ConsumedErrorRetry
<1>9. CASE ConsumedErrorFail
  BY <1>1, <1>5, <1>9, ConsumedErrorFailStep, Zenon DEF ConsumedErrorFail
<1> QED BY <1>2, <1>3, <1>4, <1>6, <1>7, <1>8, <1>9, Zenon DEF TxConsumed

\* wl_tx_drained
LEMMA TxDrainedStep == Good /\ TxDrained => StepGood
<1> SUFFICES ASSUME Good, TxDrained PROVE StepGood
  BY Zenon
<1>1. /\ io'.inflight = io.inflight /\ io'.reliable = io.reliable /\ io'.queued = io.queued
      /\ UNCHANGED <<ctl, mem, serial, hist>> /\ wire' = <<>>
  BY Zenon DEF TxDrained, Good, IInv, LineInv, IoType
<1>2. SameLoad /\ SameAck /\ wire' \in Seq(OwnFrames)
  BY <1>1, OwnFacts, Zenon DEF SameLoad, SameAck, ReliableLease
<1>3. CASE UNCHANGED <<tx, event>>
  BY <1>1, <1>2, <1>3, KeptStep, Zenon
<1>4. CASE tx.state = "WAITING_ACK" /\ tx' = [tx EXCEPT !.wait = "ACK", !.due = FALSE] /\ UNCHANGED event
  <2>1. /\ Open(tx) /\ Open(tx') /\ tx'.seq = tx.seq /\ tx'.handle = tx.handle /\ tx'.pending = tx.pending
        /\ tx'.state # "SENDING"
    BY <1>4, Zenon DEF Open, Good, IInv, LineInv, TxType
  <2> QED BY <1>1, <1>2, <1>4, <2>1, KeptStep, Zenon
<1>5. CASE LET p == PushTxEvent([tx EXCEPT !.state = "FAILED", !.wait = "NONE", !.result = "IO",
                                          !.due = FALSE], io, event, "TX_FAILED")
           IN tx.state = "WAITING_ACK" /\ tx' = p.tx /\ event' = p.event
  <2> DEFINE t == [tx EXCEPT !.state = "FAILED", !.wait = "NONE", !.result = "IO", !.due = FALSE]
  <2>1. t \in TxType /\ t.state = "FAILED" /\ t.handle = tx.handle /\ t.pending = tx.pending
    BY Zenon DEF Good, IInv, LineInv, TxType, TxStates
  <2>2. tx' = PushTxEvent(t, io, event, "TX_FAILED").tx /\ event' = PushTxEvent(t, io, event, "TX_FAILED").event
        /\ Open(tx) /\ "TX_FAILED" \in TxEvents
    BY <1>5, Zenon DEF TxEvents, Open
  <2> HIDE DEF t
  <2>3. /\ tx'.handle = tx.handle /\ tx'.state = "FAILED"
        /\ \/ tx'.pending = "TX_FAILED" /\ event' = event
           \/ tx'.pending = tx.pending /\ event = NoEvent /\ event'.handle = tx.handle
    BY <2>1, <2>2, PushAnnounces
  <2>4. Announced
    BY <2>2, <2>3, Zenon DEF Announced
  <2> QED BY <1>1, <1>2, <2>2, <2>3, <2>4, SettleStep, Zenon DEF Terminal
<1> QED BY <1>3, <1>4, <1>5, Zenon DEF TxDrained

\* wl_frame_route_view
LEMMA RouteStep ==
    ASSUME Good, event = NoEvent, NEW frame \in Frame, Route(frame), UNCHANGED <<mem, serial, hist>>
    PROVE  StepGood
<1>0. frame.id \in Id /\ ctl \in CtlType /\ io \in IoType /\ tx \in TxType
  BY Zenon DEF Frame, Good, IInv, LineInv
<1>1. CASE frame.kind = "REL"
  <2>1. PICK r \in SendAck(frame.id) : ctl' = r.ctl /\ Put(r)
    BY <1>1, Zenon DEF Route
  <2>2. tx' = tx /\ event'.handle = event.handle
    BY <1>1 DEF Route, RxEvent, NoEvent
  <2>3. /\ io'.inflight = io.inflight /\ io'.reliable = io.reliable /\ io'.queued = io.queued
        /\ (ctl.inflight => ctl' = ctl) /\ wire' \in Seq(OwnFrames)
    <3>1. CASE ctl.pending
      <4>1. r = [ctl |-> ctl, io |-> io, sent |-> <<>>]
        BY <2>1, <3>1, Zenon DEF SendAck
      <4>2. r.ctl = ctl /\ r.io = io /\ r.sent = <<>>
        BY <4>1, Zenon
      <4>3. r.sent \in Seq(OwnFrames)
        BY <4>2, OwnFacts, Zenon
      <4> QED BY <2>1, <4>2, <4>3, Zenon DEF Put
    <3>2. CASE ~ctl.pending
      <4> DEFINE c == [ctl EXCEPT !.pending = TRUE, !.ack = frame.id]
      <4>1. c \in CtlType /\ ~ctl.inflight
        BY <1>0, <3>2, Zenon DEF CtlType, Good, IInv, LineInv, PhysicalExclusive
      <4>2. r \in SubmitControl(c, io)
        BY <2>1, <3>2, Zenon DEF SendAck
      <4> HIDE DEF c
      <4>3. r.sent \in Seq(OwnFrames)
        BY <4>1, <4>2, OwnFacts, Zenon
      <4> QED BY <1>0, <2>1, <4>1, <4>2, <4>3, SubmitControlFacts DEF Put
    <3> QED BY <3>1, <3>2, Zenon
  <2> QED BY <2>2, <2>3, KeptStep, Zenon DEF SameLoad, SameAck, ReliableLease
<1>2. CASE frame.kind = "ACK" /\ AckMatches(frame.id)
  <2> DEFINE i == IF io.queued /\ io.reliable
                  THEN [io EXCEPT !.queued = FALSE, !.reliable = FALSE] ELSE io
             u == Ended(tx, "SUCCESS", "OK")
             t == [u EXCEPT !.left = 0]
             p == PushTxEvent(t, i, event, "TX_SUCCESS")
  <2>1. tx' = p.tx /\ event' = p.event /\ io' = i /\ wire' = <<>> /\ UNCHANGED ctl
    BY <1>2, Zenon DEF Route, HandleAck
  <2>2. Open(tx)
    BY <1>2, Zenon DEF AckMatches, Open
  <2>3. SameLoad
    <3>1. CASE io.queued /\ io.reliable
      <4>1. io' = [io EXCEPT !.queued = FALSE, !.reliable = FALSE] /\ ~io.inflight
        BY <2>1, <3>1, Zenon DEF Good, IInv, LineInv, PhysicalExclusive
      <4>2. ~io'.queued /\ ~io'.inflight
        BY <1>0, <4>1, Zenon DEF IoType
      <4> QED BY <4>2, Zenon DEF SameLoad, ReliableLease
    <3>2. CASE ~(io.queued /\ io.reliable)
      BY <2>1, <3>2, Zenon DEF SameLoad, ReliableLease
    <3> QED BY <3>1, <3>2, Zenon
  <2>4. u \in TxType /\ u.state = "SUCCESS" /\ u.handle = tx.handle
    BY <1>0, EndedFacts DEF Terminal
  <2>5. u.pending = tx.pending
    BY <1>0, Zenon DEF Ended, TxType
  <2> HIDE DEF i, u
  <2>6. t \in TxType /\ t.state = "SUCCESS" /\ t.handle = tx.handle /\ t.pending = tx.pending
    BY <2>4, <2>5, ConfigAssumption DEF TxType
  <2> HIDE DEF t
  <2>7. /\ p.tx.handle = tx.handle /\ p.tx.state = "SUCCESS"
        /\ \/ p.tx.pending = "TX_SUCCESS" /\ p.event = event
           \/ p.tx.pending = tx.pending /\ event = NoEvent /\ p.event.handle = tx.handle
    BY <2>6, PushAnnounces DEF TxEvents
  <2> HIDE DEF p
  <2>8. Announced
    BY <2>1, <2>7, Zenon DEF Announced, TxEvents
  <2> QED BY <2>1, <2>2, <2>3, <2>7, <2>8, SettleStep, OwnFacts, Zenon DEF Terminal, SameAck
<1>3. CASE frame.kind # "REL" /\ ~(frame.kind = "ACK" /\ AckMatches(frame.id))
  <2>1. wire' = <<>> /\ UNCHANGED <<tx, io, ctl>> /\ event' \in {event, RxEvent(frame)}
    BY <1>3, Zenon DEF Route, HandleAck
  <2>2. event'.handle = event.handle
    BY <2>1 DEF RxEvent, NoEvent
  <2> QED BY <2>1, <2>2, KeptStep, OwnFacts, Zenon DEF SameLoad, SameAck
<1> QED BY <1>1, <1>2, <1>3, Zenon

\* A producer publishes, the clock advances, and the steps of wl_poll with nothing to do.
LEMMA IdleStep ==
    ASSUME Good,
           (\E frame \in RxFrames : Arrive(frame)) \/ Tick \/ PollReceived \/ UNCHANGED vars
    PROVE  StepGood
<1>1. /\ UNCHANGED <<io, ctl, mem, event, serial, hist>> /\ wire' \in Seq(OwnFrames)
  BY OwnFacts, Zenon DEF Arrive, Tick, PollReceived, vars, Good, BytesInv
<1>2. \/ tx' = tx
      \/ /\ Open(tx) /\ Open(tx') /\ tx'.seq = tx.seq /\ tx'.handle = tx.handle
         /\ tx'.pending = tx.pending /\ tx'.state # "SENDING"
  BY Zenon DEF Arrive, Tick, PollReceived, vars, Open, Good, IInv, LineInv, TxType
<1> QED BY <1>1, <1>2, KeptStep, Zenon DEF SameLoad, SameAck

\* The start of wl_poll
LEMMA PollBeginStep == Good /\ PollBegin => StepGood
<1> SUFFICES ASSUME Good, PollBegin PROVE StepGood
  BY Zenon
<1>1. CASE ~NeedsProgress
  <2>1. wire' = <<>> /\ UNCHANGED <<tx, io, ctl, event, mem, serial, hist>>
    BY <1>1, Zenon DEF PollBegin
  <2> QED BY <2>1, KeptStep, OwnFacts, Zenon DEF SameLoad, SameAck
<1>2. CASE NeedsProgress
  <2> DEFINE Push(r) == tx.pending # "NONE" /\ event = NoEvent /\ ~ReliableLease(r.io)
  <2>1. PICK r \in SubmitControl(ctl, io) :
          /\ ctl' = r.ctl /\ Put(r)
          /\ event' = IF Push(r) THEN TxEvent(tx.pending, tx.handle) ELSE event
          /\ tx' = IF Push(r) THEN [tx EXCEPT !.pending = "NONE"] ELSE tx
    BY <1>2, Zenon DEF PollBegin
  <2>2. UNCHANGED <<mem, serial, hist>> /\ ctl \in CtlType /\ io \in IoType /\ tx \in TxType
    BY Zenon DEF PollBegin, Good, IInv, LineInv
  <2>3. r.sent \in Seq(OwnFrames)
    BY <2>2, OwnFacts, Zenon
  <2>4. /\ io'.inflight = io.inflight /\ io'.reliable = io.reliable /\ io'.queued = io.queued
        /\ ctl'.ack = ctl.ack /\ wire' \in Seq(OwnFrames)
    BY <2>1, <2>2, <2>3, SubmitControlFacts, Zenon DEF Put
  <2>5. SameLoad /\ SameAck
    BY <2>4, Zenon DEF SameLoad, SameAck, ReliableLease
  <2>6. CASE ~Push(r)
    BY <2>1, <2>2, <2>4, <2>5, <2>6, KeptStep, Zenon
  <2>7. CASE Push(r)
    <3>1. /\ event'.handle = tx.handle /\ event.handle = 0 /\ tx.pending # "NONE"
          /\ tx'.pending = "NONE" /\ tx'.handle = tx.handle /\ tx'.state = tx.state
          /\ tx'.seq = tx.seq /\ tx'.result = tx.result
      BY <2>1, <2>2, <2>7, Zenon DEF TxEvent, NoEvent, TxType
    <3>2. BytesInv'
      BY <2>2, <2>4, <2>5, <3>1, Zenon DEF Good, BytesInv, SameLoad, Open, Holds, Image
    <3>3. ToldInv'
      <4>1. serial.gen \in Nat /\ serial.gen <= serial.gen
        BY ConfigAssumption DEF Good, IInv, StoreInv
      <4> QED BY <2>2, <3>1, <4>1, Zenon DEF Good, ToldInv, Open
    <3> QED BY <2>2, <2>5, <3>1, <3>2, <3>3, Zenon DEF StepGood, Stable, Final, SameAck
  <2> QED BY <2>6, <2>7, Zenon
<1> QED BY <1>1, <1>2, Zenon

\* wl_poll offers the queued DATA unit to the sink again.
LEMMA PollQueuedStep == Good /\ PollQueued => StepGood
<1> SUFFICES ASSUME Good, PollQueued PROVE StepGood
  BY Zenon
<1>1. UNCHANGED <<ctl, serial>> /\ io \in IoType
  BY Zenon DEF PollQueued, Good, IInv, LineInv
<1>2. CASE ~QueuedReady
  <2>1. wire' = <<>> /\ UNCHANGED <<tx, io, mem, event, hist>>
    BY <1>2, Zenon DEF PollQueued
  <2> QED BY <1>1, <2>1, KeptStep, OwnFacts, Zenon DEF SameLoad, SameAck
<1>3. CASE QueuedReady /\ io.reliable
  <2>1. PICK r \in SendTxPayload(tx, io, mem) :
          /\ Put(r) /\ Tried(r) /\ mem' = Encoded(mem, tx)
          /\ r.ok => tx' = r.tx /\ UNCHANGED event
          /\ ~r.ok => tx' = FailIo(r.tx, r.io).tx /\ event' = FailIo(r.tx, r.io).event
    BY <1>3, Zenon DEF PollQueued
  <2>2. Open(tx) /\ ~io.inflight
    BY <1>3, Zenon DEF QueuedReady, Good, IInv, LineInv, SendingIsCarried, Open
  <2>3. r.sent \in Seq(Frame) /\ <<>> \in Seq(OwnFrames)
    BY EncodedFacts, SentFacts, OwnFacts, Zenon DEF Good, IInv, StoreInv, LineInv
  <2>4. io' = r.io /\ wire' = <<>> \o r.sent
    BY <2>1, <2>3 DEF Put
  <2> QED BY <1>1, <2>1, <2>2, <2>3, <2>4, ResubmitStep, Zenon
<1>4. CASE QueuedReady /\ ~io.reliable
  <2>1. PICK r \in SubmitUnreliable(io, mem.unit) : Put(r)
    BY <1>4, Zenon DEF PollQueued
  <2>2. UNCHANGED <<tx, mem, event, hist>> /\ io.queued
    BY <1>4, Zenon DEF PollQueued, QueuedReady
  <2>3. mem.unit \in OwnFrames
    BY <1>4, <2>2, UnitOwn, Zenon DEF Good
  <2>4. wire' \in Seq(OwnFrames)
    BY <2>1, <2>3, OwnFacts, Zenon DEF Put
  <2>5. ~io'.reliable
    BY <1>1, <2>1, UnreliableFacts, Zenon DEF Put
  <2>6. SameLoad /\ SameAck
    BY <1>1, <1>4, <2>2, <2>5, Zenon DEF SameLoad, SameAck, ReliableLease
  <2> QED BY <1>1, <2>2, <2>4, <2>6, KeptStep, Zenon
<1> QED BY <1>2, <1>3, <1>4, Zenon

\* wl_poll acts on an expired ACK timer.
LEMMA PollTimerStep == Good /\ PollTimer => StepGood
<1> SUFFICES ASSUME Good, PollTimer PROVE StepGood
  BY Zenon
<1>1. UNCHANGED <<ctl, serial>> /\ io \in IoType /\ tx \in TxType
  BY Zenon DEF PollTimer, Good, IInv, LineInv
<1>2. CASE ~TimerReady
  <2>1. wire' = <<>> /\ UNCHANGED <<tx, io, mem, event, hist>>
    BY <1>2, Zenon DEF PollTimer
  <2> QED BY <1>1, <2>1, KeptStep, OwnFacts, Zenon DEF SameLoad, SameAck
<1>3. CASE TimerReady /\ tx.left = 0
  <2> DEFINE u == Ended(tx, "FAILED", "TIMEOUT")
             p == PushTxEvent(u, io, event, "TX_TIMEOUT")
  <2>1. tx' = p.tx /\ event' = p.event /\ wire' = <<>> /\ UNCHANGED <<io, mem, hist>>
    BY <1>3, Zenon DEF PollTimer
  <2>2. Open(tx)
    BY <1>3, Zenon DEF TimerReady, RetryDue, Open
  <2>3. u \in TxType /\ u.state = "FAILED" /\ u.handle = tx.handle
    BY <1>1, EndedFacts, Zenon DEF Terminal
  <2>4. u.pending = tx.pending
    BY <1>1, Zenon DEF Ended, TxType
  <2> HIDE DEF u
  <2>5. /\ p.tx.handle = tx.handle /\ p.tx.state = "FAILED"
        /\ \/ p.tx.pending = "TX_TIMEOUT" /\ p.event = event
           \/ p.tx.pending = tx.pending /\ event = NoEvent /\ p.event.handle = tx.handle
    BY <2>3, <2>4, PushAnnounces, ZenonT(60) DEF TxEvents
  <2> HIDE DEF p
  <2>6. Announced
    BY <2>1, <2>5, Zenon DEF Announced, TxEvents
  <2> QED BY <1>1, <2>1, <2>2, <2>5, <2>6, SettleStep, OwnFacts, Zenon DEF Terminal, SameLoad, SameAck
<1>4. CASE TimerReady /\ tx.left # 0
  <2>1. PICK r \in SendTxPayload(tx, io, mem) :
          /\ Put(r) /\ Tried(r) /\ mem' = Encoded(mem, tx)
          /\ r.ok => tx' = Spent(r.tx) /\ UNCHANGED event
          /\ ~r.ok => tx' = FailIo(r.tx, r.io).tx /\ event' = FailIo(r.tx, r.io).event
    BY <1>4, Zenon DEF PollTimer
  <2>2. Open(tx) /\ ~io.inflight
    BY <1>4, Zenon DEF TimerReady, RetryDue, Open
  <2>3. r.sent \in Seq(Frame) /\ <<>> \in Seq(OwnFrames)
    BY EncodedFacts, SentFacts, OwnFacts, Zenon DEF Good, IInv, StoreInv, LineInv
  <2>4. io' = r.io /\ wire' = <<>> \o r.sent
    BY <2>1, <2>3 DEF Put
  <2> QED BY <1>1, <2>1, <2>2, <2>3, <2>4, ResubmitStep, Zenon
<1> QED BY <1>2, <1>3, <1>4, Zenon

\* wl_poll hands the event in the slot to the caller.
LEMMA PollReturnStep == Good /\ PollReturn => StepGood
<1> SUFFICES ASSUME Good, PollReturn PROVE StepGood
  BY Zenon
<1> DEFINE done == event = NoEvent /\ io.compl # 0
           e == IF done THEN TxEvent("TX_SUCCESS", 0) ELSE event
<1>1. /\ io' = IF done THEN [io EXCEPT !.compl = @ - 1] ELSE io
      /\ event' = NoEvent /\ hist' = IF e.handle # 0 THEN [hist EXCEPT !.told[e.handle] = @ + 1] ELSE hist
      /\ wire' = <<>> /\ UNCHANGED <<tx, ctl, mem, serial>>
  BY Zenon DEF PollReturn
<1>2. e.handle = event.handle /\ event.handle \in 0 .. GenMax
      /\ event'.handle = 0
  BY <1>1 DEF NoEvent, TxEvent, Good, IInv, EventInv, Event
<1>3. io'.inflight = io.inflight /\ io'.reliable = io.reliable /\ io'.queued = io.queued
  BY <1>1, Zenon DEF Good, IInv, LineInv, IoType
<1> HIDE DEF e, done
<1>4. SameLoad /\ SameAck /\ wire' \in Seq(OwnFrames)
  BY <1>1, <1>3, OwnFacts, Zenon DEF SameLoad, SameAck, ReliableLease
<1>5. hist \in [told : [1 .. GenMax -> Nat], tries : Nat]
  BY Zenon DEF Good, IInv, StoreInv
<1>6. CASE event.handle = 0
  BY <1>1, <1>2, <1>4, <1>6, KeptStep, Zenon
<1>7. CASE event.handle # 0
  <2> DEFINE k == event.handle
  <2>1. k \in 1 .. GenMax
    BY <1>2, <1>7, ConfigAssumption
  <2>2. hist'.tries = hist.tries /\ hist'.told = [hist.told EXCEPT ![k] = @ + 1]
    BY <1>1, <1>2, <1>5, <1>7, Zenon
  <2>3. /\ hist'.told[k] = hist.told[k] + 1
        /\ \A h \in 1 .. GenMax : h # k => hist'.told[h] = hist.told[h]
    <3>1. hist.told \in [1 .. GenMax -> Nat]
      BY <1>5, Zenon
    <3> HIDE DEF k
    <3> QED BY <2>1, <2>2, <3>1, Zenon
  <2>4. BytesInv'
    BY <1>1, <1>4, Zenon DEF Good, BytesInv, SameLoad
  <2>5. ToldInv'
    <3> SUFFICES ASSUME serial.seq <= GenMax PROVE ToldInv'
      BY <1>1, Zenon DEF ToldInv
    <3>1. serial.gen \in Nat /\ 0 <= serial.gen /\ k <= serial.gen /\ hist.told[k] = 0
          /\ tx.handle \in {0, serial.gen} /\ serial.gen \in 0 .. GenMax
      BY <1>7, ConfigAssumption DEF Good, ToldInv, IInv, StoreInv
    <3>2. (Open(tx) \/ tx.pending # "NONE") => tx.handle # k /\ tx.handle \in 1 .. GenMax
      BY <3>1 DEF Good, ToldInv, IInv, LineInv, CancelSettles, Open
    <3>3. \A h \in 1 .. GenMax : hist'.told[h] <= 1 /\ (h > serial.gen => hist'.told[h] = 0)
      <4> SUFFICES ASSUME NEW h \in 1 .. GenMax
                   PROVE  hist'.told[h] <= 1 /\ (h > serial.gen => hist'.told[h] = 0)
        BY Zenon
      <4>1. CASE h = k
        BY <2>3, <3>1, <4>1, <2>1, ConfigAssumption
      <4>2. CASE h # k
        BY <2>3, <4>2, Zenon DEF Good, ToldInv
      <4> QED BY <4>1, <4>2, Zenon
    <3> HIDE DEF k
    <3> QED BY <1>1, <1>2, <2>3, <3>1, <3>2, <3>3 DEF Good, ToldInv
  <2> QED BY <1>1, <1>4, <2>2, <2>4, <2>5, Zenon DEF StepGood, Stable, Final, SameAck
<1> QED BY <1>6, <1>7, Zenon

\* Every step.
LEMMA NextStep == Good /\ [Next]_vars => StepGood
<1> SUFFICES ASSUME Good, [Next]_vars PROVE StepGood
  BY Zenon
<1>1. RxFrames \subseteq Frame
  BY ConfigAssumption, Zenon DEF Frame, Id
<1>2. ASSUME NEW frame \in RxFrames, FeedUnit(frame) PROVE StepGood
  BY <1>1, <1>2, RouteStep, Zenon DEF FeedUnit
<1>3. CASE PollReceive
  <2>1. event = NoEvent /\ Head(rx.queue) \in Frame
    BY <1>3, QueueFacts, Zenon DEF PollReceive, Good, IInv, EventInv, RxHeld, RxType
  <2> QED BY <1>3, <2>1, RouteStep, Zenon DEF PollReceive
<1>4. CASE Owner
  BY <1>2, <1>4, SendReliableStep, SendUnreliableStep, PayloadCommitStep, PayloadClaimStep, SmallCallStep,
     CancelStep, TakeStep, Zenon DEF Owner
<1>5. CASE Adapter
  BY <1>5, SmallCallStep, TxConsumedStep, TxDrainedStep, Zenon DEF Adapter
<1>6. CASE Poll
  BY <1>3, <1>6, PollBeginStep, IdleStep, PollQueuedStep, PollTimerStep, PollReturnStep, Zenon DEF Poll
<1>7. CASE Produce \/ Tick \/ UNCHANGED vars
  BY <1>7, IdleStep, Zenon DEF Produce
<1> QED BY <1>4, <1>5, <1>6, <1>7, Zenon DEF Next

\* A context starts with nothing sent and nothing told.
LEMMA StartedGood == Started => Good
<1> SUFFICES ASSUME Started PROVE Good
  BY Zenon
<1>1. BytesInv
  BY OwnFacts, Zenon DEF Started, BytesInv, FreshTx, FreshIo, Open, ReliableLease
<1>2. ToldInv
  BY ConfigAssumption DEF Started, ToldInv, FreshTx, FreshHist, NoEvent, Open
<1> QED BY <1>1, <1>2, StartedInv, Zenon DEF Good

\* Every step keeps Good.
LEMMA NextGood == Good /\ [Next]_vars => Good'
BY NextInv, NextStep, Zenon DEF Good, StepGood

-----------------------------------------------------------------------------
(***************************************************************************)
(* The readiness query.  A hint is about the wl_poll that follows it, so   *)
(* its truth is carried through the steps of that poll: while a poll that  *)
(* was promised work has done none, a reason for the promise lies ahead of *)
(* pc; while one that was promised nothing has been disturbed by nobody,   *)
(* the context is still not runnable.                                      *)
(***************************************************************************)

Latched == rx.overflow => Envelope = "COBS"
QueuedAhead == ~ctl.pending /\ io.queued /\ io.writable /\ ~io.inflight /\ ~io.drain /\ io.claim = "NONE"
TimerAhead == ~ctl.pending /\ ~io.inflight /\ ~io.queued /\ io.claim = "NONE" /\ RetryDue(tx)

WorkAhead ==
    \/ event # NoEvent \/ io.compl # 0
    \/ pc = "rx" /\ rx.queue # <<>>
    \/ pc \in {"rx", "queued"} /\ QueuedAhead
    \/ pc \in {"rx", "queued", "timer"} /\ TimerAhead

HintInv ==
    /\ hint \in {"none", "quiet", "work", "done"}
    /\ pc = "idle" <=> hint = "none"
    /\ pc # "idle" => out = NoEvent
    /\ hint = "work" => WorkAhead
    /\ hint = "quiet" /\ io.claim = "NONE" => ~Runnable /\ (pc = "rx" => ~ctl.pending)

SchedInv == IInv /\ Latched /\ HintInv

\* What a step of wl_poll may not do.
NoSpinStep == pc = "finish" /\ pc' = "idle" /\ hint = "work" => out' # NoEvent
SleepStep == InPoll /\ Quiet /\ io.claim = "NONE" => work' = work /\ out' = NoEvent

\* A control unit that may go changes the control unit or the line, whatever the answer.
LEMMA SubmitMoves ==
    ASSUME NEW c \in CtlType, NEW i \in IoType, NEW r \in SubmitControl(c, i)
    PROVE  IF c.pending /\ ~c.inflight /\ ~i.inflight /\ ~i.drain /\ i.writable
           THEN r.ctl # c \/ r.io # i
           ELSE r.ctl = c /\ r.io = i /\ r.sent = <<>>
<1>1. CASE ~(c.pending /\ ~c.inflight /\ ~i.inflight /\ ~i.drain /\ i.writable)
  <2>1. r = [ctl |-> c, io |-> i, sent |-> <<>>]
    BY <1>1, Zenon DEF SubmitControl
  <2> QED BY <1>1, <2>1, Zenon
<1>2. CASE c.pending /\ ~c.inflight /\ ~i.inflight /\ ~i.drain /\ i.writable
  <2>1. PICK res \in SinkResults : r = ControlAnswer(c, i, res)
    BY <1>2, Zenon DEF SubmitControl
  <2>2. \/ r.ctl = [c EXCEPT !.pending = FALSE]
        \/ r.ctl = [c EXCEPT !.inflight = TRUE]
        \/ r.io = [i EXCEPT !.writable = FALSE]
    BY <2>1, Zenon DEF ControlAnswer
  <2>3. CASE r.ctl = [c EXCEPT !.pending = FALSE]
    <3>1. ~r.ctl.pending
      BY <2>3, Zenon DEF CtlType
    <3> QED BY <1>2, <3>1, Zenon
  <2>4. CASE r.ctl = [c EXCEPT !.inflight = TRUE]
    <3>1. r.ctl.inflight
      BY <2>4, Zenon DEF CtlType
    <3> QED BY <1>2, <3>1, Zenon
  <2>5. CASE r.io = [i EXCEPT !.writable = FALSE]
    <3>1. ~r.io.writable
      BY <2>5, Zenon DEF IoType
    <3> QED BY <1>2, <3>1, Zenon
  <2> QED BY <1>2, <2>2, <2>3, <2>4, <2>5, Zenon
<1> QED BY <1>1, <1>2, Zenon

\* Submitting a unit moves the line or, for a transaction, its deadline.
LEMMA SendMoves ==
    ASSUME NEW t \in TxType, NEW i \in IoType, ~i.inflight
    PROVE  /\ \A m : \A r \in SendTxPayload(t, i, m) :
                 /\ i.queued /\ i.writable => r.io # i
                 /\ r.ok /\ t.due => ~r.tx.due
           /\ \A f : \A r \in SubmitUnreliable(i, f) : i.queued /\ i.writable => r.io # i
<1>1. ASSUME NEW m, NEW r \in SendTxPayload(t, i, m)
      PROVE  /\ i.queued /\ i.writable => r.io # i
             /\ r.ok /\ t.due => ~r.tx.due
  <2>1. PICK res \in SinkResults : r = ReliableAnswer(t, i, Encoded(m, t).unit, res)
    BY <1>1, Zenon DEF SendTxPayload
  <2>2. r.io.inflight \/ ~r.io.queued \/ ~r.io.writable
    BY <2>1, Zenon DEF ReliableAnswer, IoType
  <2>3. r.ok => ~r.tx.due
    BY <2>1, Zenon DEF ReliableAnswer, TxType
  <2> QED BY <2>2, <2>3, Zenon
<1>2. ASSUME NEW f, NEW r \in SubmitUnreliable(i, f), i.queued, i.writable
      PROVE  r.io # i
  <2>1. PICK res \in SinkResults : r = UnreliableAnswer(i, f, res)
    BY <1>2, Zenon DEF SubmitUnreliable
  <2>2. CASE res = "STARTED"
    BY <2>1, <2>2, Zenon DEF UnreliableAnswer, IoType
  <2>3. CASE res = "BUSY"
    BY <1>2, <2>1, <2>3, Zenon DEF UnreliableAnswer, IoType
  <2>4. CASE res = "SENT"
    <3> DEFINE j == [i EXCEPT !.inflight = FALSE, !.queued = FALSE, !.reliable = FALSE]
    <3>1. j \in IoType /\ ~j.queued
      BY Zenon DEF IoType
    <3>2. r.io = CompleteUnreliable(j)
      BY <2>1, <2>4, Zenon DEF UnreliableAnswer
    <3> HIDE DEF j
    <3>3. ~r.io.queued
      BY <3>1, <3>2, CompleteFacts, ZenonT(60)
    <3> QED BY <1>2, <3>3, Zenon
  <2>5. CASE res \notin {"STARTED", "BUSY", "SENT"}
    BY <1>2, <2>1, <2>5, Zenon DEF UnreliableAnswer, IoType
  <2> QED BY <2>2, <2>3, <2>4, <2>5, Zenon
<1> QED BY <1>1, <1>2, Zenon

\* Outside wl_poll nothing is promised, and only a producer latches an overflow.
LEMMA CallHint ==
    ASSUME SchedInv, hint' = hint, pc = "idle", pc' = "idle", rx'.overflow = rx.overflow
    PROVE  Latched' /\ HintInv' /\ SleepStep /\ NoSpinStep
BY Zenon DEF SchedInv, Latched, HintInv, SleepStep, NoSpinStep, InPoll

\* What the calls outside wl_poll do to the received units.
LEMMA CallRx ==
    ASSUME IInv,
           \/ Owner \/ Adapter
    PROVE  pc = "idle" /\ pc' = "idle" /\ rx'.overflow = rx.overflow
<1>0. rx \in RxType
  BY Zenon DEF IInv, EventInv
<1>1. CASE SendReliable \/ SendUnreliable \/ PayloadCommit \/ PayloadAbort
           \/ (\E delivery \in {"RELIABLE", "UNRELIABLE"} : PayloadClaim(delivery)) \/ Cancel \/ Take
  BY <1>1, Zenon DEF SendReliable, SendUnreliable, PayloadCommit, PayloadAbort, PayloadClaim, Cancel, Take, Calling
<1>2. CASE EventRelease \/ RecoverReset
  BY <1>0, <1>2, Zenon DEF EventRelease, RecoverReset, Calling, RxType
<1>3. CASE \E frame \in RxFrames : FeedUnit(frame)
  <2>1. PICK frame \in RxFrames : FeedUnit(frame)
    BY <1>3, Zenon
  <2> QED BY <1>0, <2>1, Zenon DEF FeedUnit, Calling, Remember, RxType
<1>4. CASE Adapter
  BY <1>4, Zenon DEF Adapter, Writable, TxConsumed, TxDrained, Calling
<1> QED BY <1>1, <1>2, <1>3, <1>4, Zenon DEF Owner

\* A unit arrives or the clock advances: a quiet hint binds no longer, a reason to work stays.
LEMMA HeardHint ==
    ASSUME SchedInv, Produce \/ Tick, hint' = Heard(hint)
    PROVE  Latched' /\ HintInv' /\ SleepStep /\ NoSpinStep
<1>1. pc' = pc /\ out' = out /\ UNCHANGED <<io, ctl, event>>
  BY Zenon DEF Produce, Arrive, Tick
<1>2. hint' # "quiet" /\ (hint' = "work" <=> hint = "work") /\ (hint' = "none" <=> hint = "none")
      /\ hint' \in {"none", "work", "done"}
  BY Zenon DEF SchedInv, HintInv, Heard
<1>3. (rx.queue # <<>> => rx'.queue # <<>>) /\ Latched'
  <2>1. CASE Tick
    BY <2>1, Zenon DEF Tick, SchedInv, Latched
  <2>2. CASE Produce
    <3>1. PICK frame \in RxFrames : Arrive(frame)
      BY <2>2, Zenon DEF Produce
    <3>2. rx \in RxType /\ rx.queue \in Seq(Frame) /\ frame \in Frame
      BY ConfigAssumption, Zenon DEF SchedInv, IInv, EventInv, RxType, Frame, Id
    <3>3. Append(rx.queue, frame) # <<>>
      BY <3>2, QueueFacts, Zenon
    <3> QED BY <3>1, <3>2, <3>3, Zenon DEF Arrive, SchedInv, Latched, RxType
  <2> QED BY <2>1, <2>2, Zenon
<1>4. RetryDue(tx) => RetryDue(tx')
  BY Zenon DEF Produce, Arrive, Tick, RetryDue
<1>5. WorkAhead => WorkAhead'
  BY <1>1, <1>3, <1>4, Zenon DEF WorkAhead, QueuedAhead, TimerAhead
<1>6. HintInv'
  BY <1>1, <1>2, <1>5, Zenon DEF SchedInv, HintInv
<1>7. SleepStep /\ NoSpinStep
  <2>1. pc = "idle" => pc' = "idle"
    BY <1>1, Zenon
  <2>2. ~(pc # "idle" /\ hint = "quiet" /\ hint' # "done")
    BY Zenon DEF Heard
  <2> QED BY <1>1, <2>1, <2>2, Zenon DEF SleepStep, NoSpinStep, InPoll, Quiet
<1> QED BY <1>3, <1>6, <1>7, Zenon

\* The start of wl_poll makes good on the hint at once, or leaves the reason ahead.
LEMMA PollBeginHint ==
    ASSUME SchedInv, PollBegin, hint' = Follow(IF Runnable THEN "work" ELSE "quiet")
    PROVE  Latched' /\ HintInv' /\ SleepStep /\ NoSpinStep
<1>0. /\ pc = "idle" /\ out' = NoEvent /\ mem' = mem
      /\ rx \in RxType /\ tx \in TxType /\ io \in IoType /\ ctl \in CtlType /\ Len(rx.queue) <= RxMax
      /\ rx.overflow => Envelope = "COBS"
  BY Zenon DEF PollBegin, SchedInv, IInv, LineInv, EventInv, Latched
<1>q. rx.queue # <<>> => RxMax # 0
  BY <1>0, ConfigAssumption DEF RxType
<1>1. pc' \in {"rx", "queued", "finish"}
  BY Zenon DEF PollBegin
<1>2. CASE ~NeedsProgress
  <2>1. pc' = "finish" /\ work' = work /\ UNCHANGED <<tx, io, ctl, event, rx>>
    BY <1>0, <1>2, Zenon DEF PollBegin, work
  <2>2. Runnable => event # NoEvent \/ io.compl # 0
    BY <1>0, <1>q, <1>2, Zenon DEF Runnable, NeedsProgress, RxRunnable, RetryDue
  <2>3. hint' = IF Runnable THEN "work" ELSE "quiet"
    BY <2>1, Zenon DEF Follow
  <2>4. hint' = "work" => WorkAhead'
    BY <2>1, <2>2, <2>3, Zenon DEF WorkAhead
  <2>5. hint' = "quiet" => ~Runnable'
    BY <2>1, <2>3, Zenon DEF Runnable, RxRunnable
  <2>6. HintInv' /\ Latched'
    BY <1>0, <2>1, <2>3, <2>4, <2>5, Zenon DEF HintInv, Latched
  <2> QED BY <1>0, <2>1, <2>6, Zenon DEF SleepStep, NoSpinStep
<1>3. CASE NeedsProgress
  <2> DEFINE Push(r) == tx.pending # "NONE" /\ event = NoEvent /\ ~ReliableLease(r.io)
             Receive(r) == ~r.ctl.pending /\ event = NoEvent /\ ~Push(r) /\ ~rx.leased
  <2>1. PICK r \in SubmitControl(ctl, io) :
          /\ ctl' = r.ctl /\ io' = r.io
          /\ event' = IF Push(r) THEN TxEvent(tx.pending, tx.handle) ELSE event
          /\ tx' = IF Push(r) THEN [tx EXCEPT !.pending = "NONE"] ELSE tx
          /\ rx' = IF Receive(r) /\ rx.overflow
                   THEN [rx EXCEPT !.overflow = FALSE, !.queue = <<>>] ELSE rx
          /\ pc' = IF Receive(r) THEN "rx" ELSE "queued"
    BY <1>3, Zenon DEF PollBegin, Put
  <2>2. /\ io'.inflight = io.inflight /\ io'.reliable = io.reliable /\ io'.claim = io.claim
    BY <1>0, <2>1, SubmitControlFacts, Zenon
  <2>3. IF ctl.pending /\ ~ctl.inflight /\ ~io.inflight /\ ~io.drain /\ io.writable
        THEN ctl' # ctl \/ io' # io
        ELSE ctl' = ctl /\ io' = io
    BY <1>0, <2>1, SubmitMoves
  <2>4. Push(r) <=> tx.pending # "NONE" /\ event = NoEvent /\ ~ReliableLease(io)
    BY <2>1, <2>2, Zenon DEF ReliableLease
  <2>5. Push(r) => tx' # tx
    BY <1>0, <2>1, Zenon DEF TxType
  <2>6. Receive(r) /\ rx.overflow => rx' # rx
    BY <1>0, <2>1, Zenon DEF RxType
  <2>7. Latched'
    BY <1>0, <2>1, Zenon DEF Latched, RxType
  <2> HIDE DEF Push
  <2>8. CASE work' = work
    <3>1. UNCHANGED <<tx, io, ctl, rx, event>>
      BY <2>8, Zenon DEF work
    <3>2. ~Push(r) /\ ~(Receive(r) /\ rx.overflow)
          /\ ~(ctl.pending /\ ~ctl.inflight /\ ~io.inflight /\ ~io.drain /\ io.writable)
      BY <2>3, <2>5, <2>6, <3>1, Zenon
    <3>3. Receive(r) <=> ~ctl.pending /\ event = NoEvent /\ ~rx.leased
      BY <2>1, <3>1, <3>2, Zenon
    <3> HIDE DEF Receive
    <3>4. hint' = IF Runnable THEN "work" ELSE "quiet"
      BY <2>8, Zenon DEF Follow
    <3>5. Runnable => WorkAhead'
      <4>1. CASE event # NoEvent \/ io.compl # 0
        BY <3>1, <4>1, Zenon DEF WorkAhead
      <4>2. CASE tx.pending # "NONE" /\ ~ReliableLease(io)
        BY <2>4, <3>1, <3>2, <4>1, <4>2, Zenon
      <4>3. CASE ~ctl.pending /\ RxRunnable /\ event = NoEvent
        <5>1. Receive(r) /\ rx.queue # <<>>
          BY <3>2, <3>3, <4>3, Zenon DEF RxRunnable
        <5> QED BY <2>1, <3>1, <5>1, Zenon DEF WorkAhead
      <4>4. CASE /\ ctl.pending \/ io.queued
                 /\ io.writable /\ ~io.inflight /\ ~ctl.inflight /\ ~io.drain /\ io.claim = "NONE"
        <5>1. QueuedAhead' /\ pc' \in {"rx", "queued"}
          BY <2>1, <3>1, <3>2, <4>4, Zenon DEF QueuedAhead
        <5> QED BY <5>1, Zenon DEF WorkAhead
      <4>5. CASE ~ctl.pending /\ ~io.inflight /\ ~io.queued /\ io.claim = "NONE" /\ RetryDue(tx)
        <5>1. TimerAhead' /\ pc' \in {"rx", "queued"}
          BY <2>1, <3>1, <4>5, Zenon DEF TimerAhead
        <5> QED BY <5>1, Zenon DEF WorkAhead
      <4> QED BY <4>1, <4>2, <4>3, <4>4, <4>5, Zenon DEF Runnable
    <3>6. ~Runnable => ~Runnable'
      BY <3>1, Zenon DEF Runnable, RxRunnable
    <3>7. pc' = "rx" => ~ctl'.pending
      BY <2>1, <3>1, <3>3, Zenon
    <3>8. event' = event /\ (~Runnable => event = NoEvent)
      BY <3>1, Zenon DEF Runnable
    <3>9. HintInv'
      BY <1>0, <1>1, <3>4, <3>5, <3>6, <3>7, Zenon DEF HintInv
    <3> QED BY <1>0, <2>7, <2>8, <3>9, Zenon DEF SleepStep, NoSpinStep
  <2>9. CASE work' # work
    <3>1. hint' = IF Runnable THEN "done" ELSE "quiet"
      BY <2>9, Zenon DEF Follow
    <3>2. ~Runnable => io.claim # "NONE"
      <4> SUFFICES ASSUME ~Runnable, io.claim = "NONE" PROVE FALSE
        BY Zenon
      <4>0. ctl.inflight => ctl.pending
        BY Zenon DEF SchedInv, IInv, LineInv, PhysicalExclusive
      <4>1. ctl' = ctl /\ io' = io
        BY <2>3, Zenon DEF Runnable
      <4>2. ~Push(r)
        BY <2>4, Zenon DEF Runnable
      <4>3. ~(Receive(r) /\ rx.overflow)
        BY <2>1, <4>1, Zenon DEF Runnable, RxRunnable
      <4> HIDE DEF Receive
      <4> QED BY <1>0, <2>1, <2>9, <4>1, <4>2, <4>3, Zenon DEF work
    <3>3. HintInv'
      BY <1>0, <1>1, <2>2, <3>1, <3>2, Zenon DEF HintInv
    <3>4. ~(Quiet /\ io.claim = "NONE")
      BY <1>0, <3>1, <3>2, Zenon DEF Quiet
    <3> QED BY <1>0, <2>7, <3>3, <3>4, Zenon DEF SleepStep, NoSpinStep
  <2> QED BY <2>8, <2>9, Zenon
<1> QED BY <1>2, <1>3, Zenon

\* Routing a unit leaves the claim alone.
LEMMA RouteClaim ==
    ASSUME LineInv, NEW frame \in Frame, Route(frame)
    PROVE  io'.claim = io.claim
<1>1. CASE frame.kind = "REL"
  <2>1. PICK r \in SendAck(frame.id) : io' = r.io
    BY <1>1, Zenon DEF Route, Put
  <2>2. frame.id \in Id
    BY Zenon DEF Frame
  <2> QED BY <2>1, <2>2, SendAckFacts, Zenon
<1>2. CASE frame.kind = "ACK"
  BY <1>2, Zenon DEF Route, HandleAck, LineInv, IoType
<1>3. CASE frame.kind \notin {"REL", "ACK"}
  BY <1>3, Zenon DEF Route
<1> QED BY <1>1, <1>2, <1>3, Zenon

\* A received unit is always progress: it leaves the ring or is borrowed from it.
LEMMA PollReceiveHint ==
    ASSUME SchedInv, PollReceive, hint' = Follow(hint)
    PROVE  Latched' /\ HintInv' /\ SleepStep /\ NoSpinStep
<1> DEFINE frame == Head(rx.queue)
           kept == Remember(frame)
<1>1. /\ rx \in RxType /\ rx.queue \in Seq(Frame) /\ rx.queue # <<>> /\ pc = "rx"
      /\ ~rx.leased /\ ~rx.hold /\ LineInv
  BY Zenon DEF PollReceive, SchedInv, IInv, EventInv, RxType, RxHeld
<1>2. frame \in Frame /\ Tail(rx.queue) # rx.queue
  <2>1. frame \in Frame /\ Len(Tail(rx.queue)) = Len(rx.queue) - 1 /\ Len(rx.queue) \in Nat
    BY <1>1, QueueFacts, Zenon
  <2>2. Len(rx.queue) - 1 # Len(rx.queue)
    BY <2>1
  <2> QED BY <2>1, <2>2, Zenon
<1>3. io'.claim = io.claim /\ pc' \in {"rx", "queued"} /\ out' = out
  BY <1>1, <1>2, RouteClaim, Zenon DEF PollReceive
<1>4. /\ kept \in RxType /\ kept.queue = rx.queue /\ kept.overflow = rx.overflow
      /\ rx' \in {[kept EXCEPT !.hold = TRUE], [kept EXCEPT !.queue = Tail(@)]}
  BY <1>1, <1>2, RememberFacts, Zenon DEF PollReceive, Remember, RxType
<1> HIDE DEF kept, frame
<1>5. rx' # rx /\ rx'.overflow = rx.overflow
  BY <1>1, <1>2, <1>4, Zenon DEF RxType
<1>6. work' # work
  BY <1>5, Zenon DEF work
<1>7. hint' # "work" /\ hint' # "none" /\ hint' \in {"quiet", "done"} /\ (hint' = "quiet" => hint = "quiet")
  BY <1>1, <1>6, Zenon DEF Follow, SchedInv, HintInv
<1>8. hint = "quiet" => io.claim # "NONE"
  BY <1>1, Zenon DEF SchedInv, HintInv, Runnable, RxRunnable
<1>9. HintInv' /\ Latched'
  BY <1>1, <1>3, <1>5, <1>7, <1>8, Zenon DEF HintInv, SchedInv, Latched
<1>10. SleepStep /\ NoSpinStep
  BY <1>1, <1>3, <1>8, Zenon DEF SleepStep, NoSpinStep, Quiet
<1> QED BY <1>9, <1>10, Zenon

\* A step of wl_poll that changes nothing leaves the reason to work ahead when pc does
\* not pass it, and the context as unrunnable as it was.
LEMMA IdleHint ==
    ASSUME SchedInv, hint' = Follow(hint), work' = work, out' = out,
           pc # "idle", pc' \in {"queued", "timer", "finish"}, WorkAhead => WorkAhead'
    PROVE  Latched' /\ HintInv' /\ SleepStep /\ NoSpinStep
<1>1. UNCHANGED <<tx, io, ctl, mem, rx, event>>
  BY Zenon DEF work
<1>2. hint' = hint
  BY Zenon DEF Follow
<1>3. ~Runnable => ~Runnable'
  BY <1>1, Zenon DEF Runnable, RxRunnable
<1>4. HintInv' /\ Latched'
  BY <1>1, <1>2, <1>3, Zenon DEF HintInv, SchedInv, Latched
<1> QED BY <1>4, Zenon DEF SleepStep, NoSpinStep, SchedInv, HintInv

\* A step of wl_poll that changes the context keeps a promise of work, and happens
\* under a quiet hint only while a claim is open.
LEMMA BusyHint ==
    ASSUME SchedInv, hint' = Follow(hint), work' # work, Runnable, io.claim = "NONE",
           rx' = rx, out' = out, pc # "idle", pc' \in {"queued", "timer", "finish"}
    PROVE  Latched' /\ HintInv' /\ SleepStep /\ NoSpinStep
<1>1. hint # "quiet" /\ hint # "none" /\ hint' = "done"
  BY Zenon DEF SchedInv, HintInv, Follow
<1>2. HintInv' /\ Latched'
  BY <1>1, Zenon DEF HintInv, SchedInv, Latched
<1> QED BY <1>1, <1>2, Zenon DEF SleepStep, NoSpinStep, Quiet

LEMMA PollReceivedHint ==
    ASSUME SchedInv, PollReceived, hint' = Follow(hint)
    PROVE  Latched' /\ HintInv' /\ SleepStep /\ NoSpinStep
<1>1. work' = work /\ out' = out /\ pc = "rx" /\ pc' = "queued" /\ rx.queue = <<>>
      /\ UNCHANGED <<tx, io, ctl, event>>
  BY Zenon DEF PollReceived, work
<1>2. WorkAhead => WorkAhead'
  BY <1>1, Zenon DEF WorkAhead, QueuedAhead, TimerAhead
<1> QED BY <1>1, <1>2, IdleHint, Zenon

LEMMA PollQueuedHint ==
    ASSUME SchedInv, PollQueued, hint' = Follow(hint)
    PROVE  Latched' /\ HintInv' /\ SleepStep /\ NoSpinStep
<1>0. /\ pc = "queued" /\ pc' = "timer" /\ UNCHANGED <<ctl, rx, out>>
      /\ tx \in TxType /\ io \in IoType /\ (ctl.inflight => ctl.pending)
  BY Zenon DEF PollQueued, SchedInv, IInv, LineInv, PhysicalExclusive
<1>1. CASE ~QueuedReady
  <2>1. UNCHANGED <<tx, io, mem, event>>
    BY <1>1, Zenon DEF PollQueued
  <2>2. work' = work
    BY <1>0, <2>1, Zenon DEF work
  <2>3. WorkAhead => WorkAhead'
    BY <1>0, <1>1, <2>1, Zenon DEF WorkAhead, QueuedAhead, TimerAhead, QueuedReady
  <2> QED BY <1>0, <2>2, <2>3, IdleHint, Zenon
<1>2. CASE QueuedReady
  <2>1. Runnable /\ io.claim = "NONE" /\ io.queued /\ ~io.inflight /\ io.writable
    BY <1>0, <1>2, Zenon DEF QueuedReady, Runnable
  <2>2. io' # io
    <3>1. CASE io.reliable
      <4>1. PICK r \in SendTxPayload(tx, io, mem) : io' = r.io
        BY <1>2, <3>1, Zenon DEF PollQueued, Put
      <4> QED BY <1>0, <2>1, <4>1, SendMoves, Zenon
    <3>2. CASE ~io.reliable
      <4>1. PICK r \in SubmitUnreliable(io, mem.unit) : io' = r.io
        BY <1>2, <3>2, Zenon DEF PollQueued, Put
      <4> QED BY <1>0, <2>1, <4>1, SendMoves, Zenon
    <3> QED BY <3>1, <3>2, Zenon
  <2>3. work' # work
    BY <2>2, Zenon DEF work
  <2> QED BY <1>0, <2>1, <2>3, BusyHint, Zenon
<1> QED BY <1>1, <1>2, Zenon

LEMMA PollTimerHint ==
    ASSUME SchedInv, PollTimer, hint' = Follow(hint)
    PROVE  Latched' /\ HintInv' /\ SleepStep /\ NoSpinStep
<1>0. /\ pc = "timer" /\ pc' = "finish" /\ UNCHANGED <<ctl, rx, out>>
      /\ tx \in TxType /\ io \in IoType
  BY Zenon DEF PollTimer, SchedInv, IInv, LineInv
<1>1. CASE ~TimerReady
  <2>1. UNCHANGED <<tx, io, mem, event>>
    BY <1>1, Zenon DEF PollTimer
  <2>2. work' = work
    BY <1>0, <2>1, Zenon DEF work
  <2>3. WorkAhead => WorkAhead'
    BY <1>0, <1>1, <2>1, Zenon DEF WorkAhead, QueuedAhead, TimerAhead, TimerReady
  <2> QED BY <1>0, <2>2, <2>3, IdleHint, Zenon
<1>2. CASE TimerReady
  <2>1. Runnable /\ io.claim = "NONE" /\ ~io.inflight /\ tx.due
    BY <1>2, Zenon DEF TimerReady, Runnable, RetryDue
  <2>2. ~tx'.due
    <3>1. CASE tx.left = 0
      BY <1>0, <1>2, <3>1, Zenon DEF PollTimer, PushTxEvent, Ended, TxType
    <3>2. CASE tx.left # 0
      <4>1. PICK r \in SendTxPayload(tx, io, mem) :
              tx' = IF r.ok THEN Spent(r.tx) ELSE FailIo(r.tx, r.io).tx
        BY <1>2, <3>2, Zenon DEF PollTimer
      <4>2. r.ok => ~r.tx.due
        BY <1>0, <2>1, <4>1, SendMoves, Zenon
      <4>3. r.tx \in TxType
        <5>1. PICK res \in SinkResults : r = ReliableAnswer(tx, io, Encoded(mem, tx).unit, res)
          BY <4>1, Zenon DEF SendTxPayload
        <5> QED BY <1>0, <5>1, ZenonT(60) DEF ReliableAnswer, TxType, TxStates
      <4>4. r.ok => ~tx'.due
        BY <4>1, <4>2, <4>3, Zenon DEF Spent, TxType
      <4>5. ~r.ok => ~tx'.due
        BY <4>1, <4>3, Zenon DEF FailIo, PushTxEvent, Ended, TxType
      <4> QED BY <4>4, <4>5, Zenon
    <3> QED BY <3>1, <3>2, Zenon
  <2>3. work' # work
    BY <2>1, <2>2, Zenon DEF work
  <2> QED BY <1>0, <2>1, <2>3, BusyHint, Zenon
<1> QED BY <1>1, <1>2, Zenon

\* wl_poll hands over an event whenever the promise of work is still open, and none
\* when there was no work.
LEMMA PollReturnHint ==
    ASSUME SchedInv, PollReturn, hint' = "none"
    PROVE  Latched' /\ HintInv' /\ SleepStep /\ NoSpinStep
<1>1. /\ pc = "finish" /\ pc' = "idle" /\ event' = NoEvent /\ UNCHANGED <<tx, ctl, mem>>
      /\ rx \in RxType
  BY Zenon DEF PollReturn, SchedInv, IInv, EventInv
<1>2. HintInv'
  BY <1>1, Zenon DEF HintInv
<1>3. Latched'
  BY <1>1, Zenon DEF PollReturn, SchedInv, Latched, RxType
<1>4. NoSpinStep
  <2>1. hint = "work" => event # NoEvent \/ io.compl # 0
    BY <1>1, Zenon DEF SchedInv, HintInv, WorkAhead
  <2>2. TxEvent("TX_SUCCESS", 0) # NoEvent
    BY Zenon DEF TxEvent, NoEvent
  <2>3. event # NoEvent \/ io.compl # 0 => out' # NoEvent
    BY <2>2, Zenon DEF PollReturn
  <2> QED BY <2>1, <2>3, Zenon DEF NoSpinStep
<1>5. SleepStep
  <2> SUFFICES ASSUME hint = "quiet", io.claim = "NONE" PROVE work' = work /\ out' = NoEvent
    BY <1>1, Zenon DEF SleepStep, Quiet
  <2>1. event = NoEvent /\ io.compl = 0
    BY Zenon DEF SchedInv, HintInv, Runnable
  <2>2. ~IsRx(NoEvent)
    BY Zenon DEF IsRx, NoEvent
  <2>3. io' = io /\ out' = NoEvent /\ rx' = rx
    BY <2>1, <2>2, Zenon DEF PollReturn
  <2> QED BY <1>1, <2>1, <2>3, Zenon DEF work
<1> QED BY <1>2, <1>3, <1>4, <1>5, Zenon

\* Every step keeps the hint honest.
LEMMA SchedStep == SchedInv /\ [SchedNext]_schedVars => SchedInv' /\ SleepStep /\ NoSpinStep
<1> SUFFICES ASSUME SchedInv, [SchedNext]_schedVars PROVE SchedInv' /\ SleepStep /\ NoSpinStep
  BY Zenon
<1>1. [Next]_vars
  BY Zenon DEF SchedNext, schedVars, Next, Owner, Adapter, Poll
<1>2. IInv /\ IInv'
  BY <1>1, NextInv, Zenon DEF SchedInv
<1>3. CASE UNCHANGED schedVars
  <2>1. UNCHANGED <<tx, io, ctl, mem, rx, event, pc, out, hint>>
    BY <1>3, Zenon DEF schedVars, vars
  <2>2. HintInv' /\ Latched'
    BY <2>1, Zenon DEF SchedInv, HintInv, Latched, WorkAhead, QueuedAhead, TimerAhead, Runnable, RxRunnable
  <2>3. NoSpinStep
    BY <2>1, Zenon DEF NoSpinStep
  <2>4. SleepStep
    BY <2>1, Zenon DEF SleepStep, InPoll, work, SchedInv, HintInv
  <2> QED BY <1>2, <2>2, <2>3, <2>4, Zenon DEF SchedInv
<1>4. CASE (Owner \/ Adapter) /\ hint' = hint
  BY <1>2, <1>4, CallRx, CallHint, Zenon DEF SchedInv
<1>5. CASE (Produce \/ Tick) /\ hint' = Heard(hint)
  BY <1>2, <1>5, HeardHint, Zenon DEF SchedInv
<1>6. CASE PollBegin /\ hint' = Follow(IF Runnable THEN "work" ELSE "quiet")
  BY <1>2, <1>6, PollBeginHint, Zenon DEF SchedInv
<1>7. CASE (PollReceive \/ PollReceived) /\ hint' = Follow(hint)
  BY <1>2, <1>7, PollReceiveHint, PollReceivedHint, Zenon DEF SchedInv
<1>8. CASE (PollQueued \/ PollTimer) /\ hint' = Follow(hint)
  BY <1>2, <1>8, PollQueuedHint, PollTimerHint, Zenon DEF SchedInv
<1>9. CASE PollReturn /\ hint' = "none"
  BY <1>2, <1>9, PollReturnHint, Zenon DEF SchedInv
<1> QED BY <1>3, <1>4, <1>5, <1>6, <1>7, <1>8, <1>9, Zenon DEF SchedNext, Owner, Adapter

-----------------------------------------------------------------------------
(* The theorems *)

\* IInv holds in every reachable state of a context, whatever its configuration.
THEOREM InvariantHolds == Spec => []IInv
BY InitInv, NextInv, PTL DEF Spec

\* A context's fields stay within their types: sequence numbers, retries, completions
\* and stored units within their bounds.
THEOREM Typed == Spec => []TypeOK
<1>1. IInv => TypeOK
  BY Zenon DEF IInv, LineInv, StoreInv, EventInv, TypeOK
<1> QED BY <1>1, InvariantHolds, PTL

\* The adapter never holds DATA and control at once, nothing waits behind a unit in
\* flight, and no claim is open over a unit in flight or waiting.
THEOREM LineExclusive == Spec => []PhysicalExclusive
<1>1. IInv => PhysicalExclusive
  BY Zenon DEF IInv, LineInv
<1> QED BY <1>1, InvariantHolds, PTL

\* A transaction in SENDING is with the adapter or queued, and a queued reliable unit
\* belongs to one: no sequence of calls, reports and errors strands a transaction.
THEOREM NeverStranded == Spec => []SendingIsCarried
<1>1. IInv => SendingIsCarried
  BY Zenon DEF IInv, LineInv
<1> QED BY <1>1, InvariantHolds, PTL

\* In every reachable state an open transaction finds its bytes, and the end of a
\* handle is announced in one place at most until handles wrap.
THEOREM GoodHolds == Spec => []Good
<1>1. Init => Good
  BY InitStarted, StartedGood, Zenon
<1> QED BY <1>1, NextGood, PTL DEF Spec

\* Every reliable unit on the line or with the adapter carries the bytes committed under
\* its sequence number, whatever has reused tx_unit since.
THEOREM BytesAreOwn == Spec => []RetransmitFaithful
<1>1. Good => RetransmitFaithful
  <2> SUFFICES ASSUME Good PROVE RetransmitFaithful
    BY Zenon
  <2>1. ReliableLease(io) => mem.unit.kind = "REL" /\ mem.unit.body = mem.unit.id.seq
    BY Zenon DEF Good, BytesInv, Own
  <2>2. ReliableLease(io) /\ tx.state = "SENDING" => mem.unit.id = [sid |-> serial.session, seq |-> tx.seq]
    BY DEF Good, BytesInv, Holds, Image, Open, DataFrame
  <2>3. ASSUME NEW k \in DOMAIN wire, wire[k].kind = "REL" PROVE wire[k].body = wire[k].id.seq
    <3>1. wire[k] \in OwnFrames
      BY <2>3 DEF Good, BytesInv
    <3> QED BY <2>3, <3>1, Zenon DEF OwnFrames, Own
  <2> QED BY <2>1, <2>2, <2>3, Zenon DEF RetransmitFaithful
<1> QED BY <1>1, GoodHolds, PTL

\* No step changes the bytes of a unit or of an ACK that the adapter is reading.
THEOREM LeasedBytes == Spec => LeasedBytesStable
<1>1. Good /\ [Next]_vars =>
        [/\ io.inflight /\ io'.inflight => mem'.unit = mem.unit
         /\ ctl.inflight /\ ctl'.inflight => ctl'.ack = ctl.ack]_vars
  BY NextStep, Zenon DEF StepGood, Stable
<1> QED BY <1>1, GoodHolds, PTL DEF Spec, LeasedBytesStable

\* No step reopens a settled transaction, changes its result or sends its unit again,
\* and wl_poll reports its end at most once.
THEOREM SettledStays == Spec => SettledIsFinal
<1>1. Good /\ [Next]_vars =>
        [/\ tx.state \in Terminal /\ tx'.handle = tx.handle =>
              tx'.state = tx.state /\ tx'.result = tx.result /\ hist'.tries = hist.tries
         /\ serial'.seq <= GenMax => \A h \in 1 .. GenMax : hist'.told[h] <= 1]_vars
  <2> SUFFICES ASSUME Good, [Next]_vars
               PROVE  /\ tx.state \in Terminal /\ tx'.handle = tx.handle =>
                           tx'.state = tx.state /\ tx'.result = tx.result /\ hist'.tries = hist.tries
                      /\ serial'.seq <= GenMax => \A h \in 1 .. GenMax : hist'.told[h] <= 1
    BY Zenon
  <2>1. Final /\ ToldInv'
    BY NextStep, Zenon DEF StepGood
  <2> QED BY <2>1, Zenon DEF Final, ToldInv
<1> QED BY <1>1, GoodHolds, PTL DEF Spec, SettledIsFinal

\* What the readiness query promised stays true through the steps of the poll after it.
THEOREM HintHolds == SchedSpec => []SchedInv
<1>1. SchedInit => SchedInv
  BY InitInv DEF SchedInit, SchedInv, Init, FreshRx, Latched, HintInv
<1>2. SchedInv /\ [SchedNext]_schedVars => SchedInv'
  BY SchedStep, Zenon
<1> QED BY <1>1, <1>2, PTL DEF SchedSpec

\* A wl_poll that follows a runnable hint changes the context or returns an event,
\* whatever units arrive and whatever the clock does meanwhile.
THEOREM NeverSpins == SchedSpec => NoSpin
<1>1. SchedInv /\ [SchedNext]_schedVars =>
        [pc = "finish" /\ pc' = "idle" /\ hint = "work" => out' # NoEvent]_schedVars
  BY SchedStep, Zenon DEF NoSpinStep
<1> QED BY <1>1, HintHolds, PTL DEF SchedSpec, NoSpin

\* A wl_poll that follows a quiet hint, with no claim open and nothing arriving, changes
\* nothing and returns nothing: an owner may sleep on the hint.
THEOREM SleepLosesNothing == SchedSpec => SleepIsSafe
<1>1. SchedInv /\ [SchedNext]_schedVars =>
        [InPoll /\ Quiet /\ io.claim = "NONE" => work' = work /\ out' = NoEvent]_schedVars
  BY SchedStep, Zenon DEF SleepStep
<1> QED BY <1>1, HintHolds, PTL DEF SchedSpec, SleepIsSafe
=============================================================================
