----------------------------- MODULE BulkProofs -----------------------------
(***************************************************************************)
(* Proofs about the bulk transfer (module Bulk): for any objects, any      *)
(* limits of the receiver, any sink and any length of the channel.         *)
(*                                                                         *)
(* Four layers.  Each needs those before it.                               *)
(*   RecordInv  the records of both halves and of the sink agree;          *)
(*   StatusInv  a Status that says OK to an End means a commit;            *)
(*   OrderInv   on an ordered channel the receiver's identity only grows,  *)
(*              so that a transfer once opened is not mixed with another;  *)
(*   OnceInv    without a reset of the receiver, nothing undoes a commit   *)
(*              or an abort.                                               *)
(***************************************************************************)
EXTENDS Bulk, Integers, TLAPS

Phase == {"BEGIN", "CHUNK", "END", "ABORT"}
Code == {"OK", "BUSY", "OUT_OF_ORDER", "INVALID", "CONFLICT", "FAILED", "TIMED_OUT", "ABORTED"}
Message == [kind : Phase, id : Transfers, off : Nat, len : Int]
Status == [id : Transfers, phase : Phase, code : Code, off : Nat, chunk : Int]
Sender ==
    [state : {"IDLE", "READY", "WAIT_STATUS", "COMPLETED", "ABORTED", "FAILED"},
     phase : Phase \cup {"NONE"}, id : Transfers \cup {0}, off : Nat, chunk : Int, retries : Nat,
     acquired : BOOLEAN, acked : BOOLEAN, pause : BOOLEAN]
Receiver ==
    [state : {"IDLE", "RECEIVING", "COMPLETED", "ABORTED", "FAILED"}, id : Transfers \cup {0},
     total : Nat, request : Nat, off : Nat, chunk : Int, code : Code, sink : BOOLEAN]
Outbound == [pending : BOOLEAN, held : BOOLEAN, status : Status \cup {NoStatus}]
Sink ==
    [open : Transfers \cup {0}, stored : Nat, reached : [Transfers -> Nat],
     commits : [Transfers -> 0 .. 2]]

\* The receiver's record and the sink.
ReceiverInv(r, k) ==
    /\ r \in Receiver /\ k \in Sink
    /\ r.state = "IDLE" <=> r.id = 0
    /\ r.state = "IDLE" => r.off = 0
    /\ k.open = IF r.sink THEN r.id ELSE 0
    /\ r.state = "RECEIVING" => r.sink /\ k.stored = r.off
    /\ r.state \in {"RECEIVING", "COMPLETED"} => r.off <= k.reached[r.id]
    /\ r.state = "COMPLETED" => k.commits[r.id] > 0
    /\ r.state = "FAILED" => r.code \in {"FAILED", "INVALID", "TIMED_OUT"}

\* The sender uses each identity once, in increasing order.
SenderInv(s, b) ==
    /\ s \in Sender /\ b \subseteq Transfers
    /\ s.state = "IDLE" <=> s.id = 0
    /\ s.state # "IDLE" => s.phase # "NONE"
    /\ s.id # 0 => s.id \in b /\ \A t \in b : t <= s.id

\* The Statuses on their way.
Statuses == {toSender[i] : i \in DOMAIN toSender} \cup (IF out.pending THEN {out.status} ELSE {})

RecordInv ==
    /\ ReceiverInv(rcv, sink) /\ SenderInv(snd, begun)
    /\ out \in Outbound /\ (out.pending => out.status \in Status)
    /\ toReceiver \in Seq(Message) /\ toSender \in Seq(Status)
    /\ \A i \in DOMAIN toReceiver : toReceiver[i].id \in begun
    /\ \A st \in Statuses : st.id \in begun
    /\ rcv.id # 0 => rcv.id \in begun
    /\ \A t \in Transfers : sink.commits[t] > 0 => t \in begun
    /\ resets \in Nat
    /\ outcome \in [Transfers -> {"NONE", "COMPLETED", "ABORTED", "FAILED"}]
    /\ \A t \in Transfers : outcome[t] # "NONE" => t \in begun /\ (snd.id # 0 => t < snd.id)

StatusInv ==
    /\ \A st \in Statuses : /\ st.phase = "END" /\ st.code = "OK" => sink.commits[st.id] > 0
                            /\ st.phase = "ABORT" => st.code # "OK"
    /\ snd.state = "COMPLETED" => sink.commits[snd.id] > 0
    /\ \A t \in Transfers : outcome[t] = "COMPLETED" => sink.commits[t] > 0

\* Transfer t has been opened: its Begin was acknowledged, or the sender has gone on.
Acknowledges(st) == st.code \in {"OK", "OUT_OF_ORDER"}
Underway(t) ==
    \/ snd.id = t /\ snd.phase \in {"CHUNK", "END"}
    \/ \E i \in DOMAIN toReceiver : toReceiver[i].id = t /\ toReceiver[i].kind = "CHUNK"
    \/ \E st \in Statuses : st.id = t /\ st.phase = "BEGIN" /\ Acknowledges(st)

OrderInv ==
    /\ \A i, j \in DOMAIN toReceiver : i < j => toReceiver[i].id <= toReceiver[j].id
    /\ \A i \in DOMAIN toReceiver : rcv.id <= toReceiver[i].id
    /\ \A t \in Transfers : Underway(t) =>
          /\ rcv.id = 0 \/ t <= rcv.id
          /\ \A i \in DOMAIN toReceiver : t <= toReceiver[i].id
          /\ rcv.id = t => rcv.off <= sink.reached[t]
    /\ \A st \in Statuses : Acknowledges(st) => st.off <= sink.reached[st.id]
    /\ SenderActive /\ snd.phase # "ABORT" => snd.off <= sink.reached[snd.id]

\* Transfer t will not be committed: it has no End to come, or the receiver is past it.
NoEnd(t) ==
    /\ sink.commits[t] = 0
    /\ \A i \in DOMAIN toReceiver : ~(toReceiver[i].id = t /\ toReceiver[i].kind = "END")
Buried(t) == sink.commits[t] = 0 /\ (t < rcv.id \/ (rcv.id = t /\ rcv.state = "ABORTED"))

OnceInv ==
    /\ \A t \in Transfers : /\ sink.commits[t] <= 1
                            /\ sink.commits[t] > 0 => t < rcv.id \/ (rcv.id = t /\ rcv.state = "COMPLETED")
    /\ \A st \in Statuses : st.code = "ABORTED" /\ st.phase \in {"END", "ABORT"} => Buried(st.id)
    /\ snd.id # 0 /\ snd.phase \in {"BEGIN", "CHUNK"} => NoEnd(snd.id)
    /\ snd.state = "ABORTED" => NoEnd(snd.id) \/ Buried(snd.id)
    /\ \A t \in Transfers : outcome[t] = "ABORTED" => NoEnd(t) \/ Buried(t)

Inv ==
    /\ RecordInv /\ StatusInv
    /\ ordered => OrderInv
    /\ ordered /\ resets = 0 => OnceInv

-----------------------------------------------------------------------------
(* The channel *)

\* A message handed to the channel
LEMMA SentFacts ==
    ASSUME NEW S, NEW q \in Seq(S), NEW m \in S, NEW p, p = Sent(q, m)
    PROVE  /\ p \in Seq(S)
           /\ \A j \in DOMAIN p : p[j] = m \/ \E i \in DOMAIN q : p[j] = q[i]
           /\ ordered => p = q \/ p = Append(q, m)
<1>1. CASE p = q
  BY <1>1, Zenon
<1>2. CASE p = Append(q, m)
  BY <1>2
<1> QED BY <1>1, <1>2, Zenon DEF Sent

\* A message taken out of it, or lost
LEMMA WithoutFacts ==
    ASSUME NEW S, NEW q \in Seq(S), NEW i \in 1 .. Len(q), NEW p, p = Without(q, i)
    PROVE  /\ p \in Seq(S) /\ Len(p) = Len(q) - 1
           /\ \A j \in 1 .. Len(p) : p[j] = IF j < i THEN q[j] ELSE q[j + 1]
<1>1. PICK a, b : a = SubSeq(q, 1, i - 1) /\ b = SubSeq(q, i + 1, Len(q))
  BY Zenon
<1>2. a \in Seq(S) /\ Len(a) = i - 1
  BY <1>1
<1>3. b \in Seq(S) /\ Len(b) = Len(q) - i
  BY <1>1
<1>4. p = a \o b
  BY <1>1, Zenon DEF Without
<1>5. p \in Seq(S) /\ Len(p) = Len(q) - 1
  BY <1>2, <1>3, <1>4, SMTT(30)
<1>7. (\A j \in 1 .. i - 1 : a[j] = q[j]) /\ (\A j \in 1 .. Len(q) - i : b[j] = q[j + i])
  BY <1>1
<1>8. \A j \in 1 .. Len(p) : p[j] = IF j <= Len(a) THEN a[j] ELSE b[j - Len(a)]
  BY <1>2, <1>3, <1>4, <1>5, SMTT(30)
<1>6. ASSUME NEW j \in 1 .. Len(p)
      PROVE  p[j] = IF j < i THEN q[j] ELSE q[j + 1]
  <2>1. CASE j < i
    BY <1>2, <1>7, <1>8, <2>1
  <2>2. CASE ~(j < i)
    <3>1. p[j] = b[j - Len(a)] /\ j - Len(a) \in 1 .. Len(q) - i
      BY <1>2, <1>5, <1>8, <2>2
    <3>2. b[j - Len(a)] = q[j - Len(a) + i]
      BY <1>7, <3>1, Zenon
    <3>3. j - Len(a) + i = j + 1
      BY <1>2
    <3> QED BY <2>2, <3>1, <3>2, <3>3, Zenon
  <2> QED BY <2>1, <2>2, Zenon
<1> QED BY <1>5, <1>6, Zenon

\* What is left in the channel was in it before, in the same order.
LEMMA Thinned ==
    ASSUME NEW S, NEW q \in Seq(S), NEW i \in 1 .. Len(q), NEW p, p = q \/ p = Without(q, i)
    PROVE  /\ p \in Seq(S)
           /\ \A j \in DOMAIN p : \E k \in DOMAIN q : p[j] = q[k]
           /\ \A j, k \in DOMAIN p : j < k => \E d, e \in DOMAIN q : d < e /\ p[j] = q[d] /\ p[k] = q[e]
<1>1. CASE p = q
  BY <1>1, Zenon
<1>2. CASE p = Without(q, i)
  <2>1. /\ p \in Seq(S) /\ Len(p) = Len(q) - 1
        /\ \A j \in 1 .. Len(p) : p[j] = IF j < i THEN q[j] ELSE q[j + 1]
    BY <1>2, WithoutFacts
  <2>2. DOMAIN p = 1 .. Len(p) /\ DOMAIN q = 1 .. Len(q) /\ Len(q) \in Nat
    BY <2>1
  <2>3. ASSUME NEW j \in DOMAIN p
        PROVE  \E k \in DOMAIN q : p[j] = q[k] /\ (j < i => k = j) /\ (~(j < i) => k = j + 1)
    <3>1. CASE j < i
      BY <2>1, <2>2, <3>1
    <3>2. CASE ~(j < i)
      BY <2>1, <2>2, <3>2
    <3> QED BY <3>1, <3>2, Zenon
  <2>4. ASSUME NEW j \in DOMAIN p, NEW k \in DOMAIN p, j < k
        PROVE  \E d, e \in DOMAIN q : d < e /\ p[j] = q[d] /\ p[k] = q[e]
    <3>1. PICK d \in DOMAIN q : p[j] = q[d] /\ (j < i => d = j) /\ (~(j < i) => d = j + 1)
      BY <2>3, Zenon
    <3>2. PICK e \in DOMAIN q : p[k] = q[e] /\ (k < i => e = k) /\ (~(k < i) => e = k + 1)
      BY <2>3, Zenon
    <3>3. d < e
      BY <2>2, <2>4, <3>1, <3>2
    <3> QED BY <3>1, <3>2, <3>3, Zenon
  <2> QED BY <2>1, <2>3, <2>4, Zenon
<1> QED BY <1>1, <1>2, Zenon

-----------------------------------------------------------------------------
(* The receiver *)

\* How a message, or the idle timer, may change the receiver from r to s and the sink from
\* k to l; id and kind are the message's.
Moved(r, k, s, l, id, kind) ==
    /\ ReceiverInv(s, l)
    /\ \A t \in Transfers : k.reached[t] <= l.reached[t]
    /\ s.id \in {r.id, id}
    /\ s.off = r.off \/ s.off <= l.reached[s.id]
    /\ s.id = r.id /\ r.state \in {"COMPLETED", "ABORTED"} => s.state = r.state
    /\ \/ l.commits = k.commits
       \/ /\ kind = "END" /\ r.id = id /\ r.state = "RECEIVING" /\ s.id = id /\ s.state = "COMPLETED"
          /\ l.commits = [k.commits EXCEPT ![id] = IF @ < 2 THEN @ + 1 ELSE @]

\* What the Status st that answers message m says of them.
Told(r, s, l, m, st) ==
    /\ st \in Status /\ st.id = m.id /\ st.phase = m.kind
    /\ Acknowledges(st) => \/ st.off <= l.reached[m.id]
                           \/ m.kind = "CHUNK" /\ m.id = r.id /\ st.off = r.off
    /\ Acknowledges(st) /\ m.kind = "BEGIN" => s.id = m.id /\ s.off <= l.reached[m.id]
    /\ m.kind = "END" /\ st.code = "OK" => l.commits[m.id] > 0
    /\ m.kind = "ABORT" => st.code # "OK"
    /\ m.kind \in {"END", "ABORT"} /\ st.code = "ABORTED" => s.id = m.id /\ s.state = "ABORTED"

Answered(m) ==
    /\ ~out.pending /\ out' \in Outbound /\ out'.pending
    /\ Moved(rcv, sink, rcv', sink', m.id, m.kind)
    /\ Told(rcv, rcv', sink', m, out'.status)

LEMMA Unmoved ==
    ASSUME NEW r, NEW k, ReceiverInv(r, k), NEW id, NEW kind
    PROVE  Moved(r, k, r, k, id, kind)
<1>1. r \in Receiver /\ k \in Sink
  BY Zenon DEF ReceiverInv
<1>2. \A t \in Transfers : k.reached[t] <= k.reached[t]
  BY <1>1 DEF Sink
<1> QED BY <1>1, <1>2, Zenon DEF Moved

LEMMA RetainFacts ==
    ASSUME NEW id \in Transfers, NEW phase \in Phase, NEW code \in Code, NEW off \in Nat,
           NEW chunk \in Int, Retain(id, phase, code, off, chunk)
    PROVE  /\ out' \in Outbound /\ out'.pending /\ out'.status \in Status
           /\ out'.status.id = id /\ out'.status.phase = phase /\ out'.status.code = code
           /\ out'.status.off = off
<1>1. PICK st : st = [id |-> id, phase |-> phase, code |-> code, off |-> off, chunk |-> chunk]
  BY Zenon
<1>2. st \in Status /\ st.id = id /\ st.phase = phase /\ st.code = code /\ st.off = off
  BY <1>1, Zenon DEF Status
<1>3. out' = [pending |-> TRUE, held |-> FALSE, status |-> st]
  BY <1>1, Zenon DEF Retain
<1>4. TRUE \in BOOLEAN /\ FALSE \in BOOLEAN
  BY Zenon
<1>5. out'.status = st /\ out'.pending = TRUE
  BY <1>3, Zenon
<1>6. out' \in Outbound
  BY <1>2, <1>3, <1>4, Zenon DEF Outbound
<1> QED BY <1>2, <1>5, <1>6, Zenon

\* An answer that changes nothing
LEMMA AnswerOnly ==
    ASSUME ReceiverInv(rcv, sink), NEW m \in Message, NEW code \in Code, NEW off \in Nat, NEW chunk \in Int,
           ~out.pending, Retain(m.id, m.kind, code, off, chunk), rcv' = rcv, sink' = sink,
           code \in {"OK", "OUT_OF_ORDER"} => \/ off <= sink.reached[m.id]
                                              \/ m.kind = "CHUNK" /\ m.id = rcv.id /\ off = rcv.off,
           code \in {"OK", "OUT_OF_ORDER"} /\ m.kind = "BEGIN" => rcv.id = m.id /\ rcv.off <= sink.reached[m.id],
           m.kind = "END" /\ code = "OK" => sink.commits[m.id] > 0,
           m.kind = "ABORT" => code # "OK",
           m.kind \in {"END", "ABORT"} /\ code = "ABORTED" => rcv.id = m.id /\ rcv.state = "ABORTED"
    PROVE  Answered(m)
<1>1. m.id \in Transfers /\ m.kind \in Phase
  BY Zenon DEF Message
<1>2. /\ out' \in Outbound /\ out'.pending /\ out'.status \in Status
      /\ out'.status.id = m.id /\ out'.status.phase = m.kind /\ out'.status.code = code
      /\ out'.status.off = off
  BY <1>1, RetainFacts, Zenon
<1>3. Moved(rcv, sink, rcv', sink', m.id, m.kind)
  BY Unmoved, Zenon
<1>4. Told(rcv, rcv', sink', m, out'.status)
  BY <1>2, Zenon DEF Told, Acknowledges
<1> QED BY <1>2, <1>3, <1>4, Zenon DEF Answered

LEMMA NegotiatedType ==
    ASSUME NEW id \in Transfers
    PROVE  Negotiated(id) \in Int
<1>1. Requested[id] \in Nat /\ Length[id] \in Nat
  BY BulkSizes, Zenon
<1>2. PICK limit : limit = IF Requested[id] > MaxChunk THEN MaxChunk ELSE Requested[id]
  BY Zenon
<1>3. limit \in Nat
  BY <1>1, <1>2, BulkLimits, Zenon
<1>4. limit % Alignment \in Nat
  BY <1>3, BulkLimits
<1>5. PICK whole : whole = limit - (limit % Alignment)
  BY Zenon
<1>6. whole \in Int
  BY <1>3, <1>4, <1>5
<1>7. Negotiated(id) = IF Length[id] > MaxObject THEN 0
                       ELSE IF whole # 0 THEN whole
                       ELSE IF Length[id] > limit THEN 0 ELSE limit
  BY <1>2, <1>5, Zenon DEF Negotiated
<1> QED BY <1>3, <1>6, <1>7

\* What the terminal code says of the record it comes from
LEMMA TerminalFacts ==
    ASSUME ReceiverInv(rcv, sink), rcv.state # "IDLE"
    PROVE  /\ TerminalCode \in Code
           /\ TerminalCode \in {"OK", "OUT_OF_ORDER"} => rcv.id \in Transfers /\ rcv.off <= sink.reached[rcv.id]
           /\ rcv.state # "RECEIVING" /\ TerminalCode = "OK" => rcv.state = "COMPLETED" /\ sink.commits[rcv.id] > 0
           /\ rcv.state # "RECEIVING" /\ TerminalCode = "ABORTED" => rcv.state = "ABORTED"
<1>1. /\ rcv.state \in {"RECEIVING", "COMPLETED", "ABORTED", "FAILED"} /\ rcv.id \in Transfers
      /\ rcv.code \in Code
  BY Zenon DEF ReceiverInv, Receiver
<1>2. CASE rcv.state = "RECEIVING"
  BY <1>1, <1>2, Zenon DEF ReceiverInv, TerminalCode
<1>3. CASE rcv.state = "COMPLETED"
  BY <1>1, <1>3, Zenon DEF ReceiverInv, TerminalCode, Code
<1>4. CASE rcv.state = "ABORTED"
  BY <1>1, <1>4, Zenon DEF ReceiverInv, TerminalCode, Code
<1>5. CASE rcv.state = "FAILED"
  BY <1>1, <1>5, Zenon DEF ReceiverInv, TerminalCode, Code
<1> QED BY <1>1, <1>2, <1>3, <1>4, <1>5, Zenon

\* What the sink's operations do to its record
LEMMA ClosedFacts ==
    ASSUME NEW k \in Sink, NEW l, l = Closed(k)
    PROVE  l \in Sink /\ l.open = 0 /\ l.reached = k.reached /\ l.commits = k.commits
BY Zenon DEF Closed, Sink

LEMMA VacatedFacts ==
    ASSUME ReceiverInv(rcv, sink), NEW l, l = Vacated
    PROVE  l \in Sink /\ l.open = 0 /\ l.reached = sink.reached /\ l.commits = sink.commits
<1>1. sink \in Sink /\ (~rcv.sink => sink.open = 0)
  BY Zenon DEF ReceiverInv
<1>2. CASE rcv.sink
  BY <1>1, <1>2, ClosedFacts, Zenon DEF Vacated
<1>3. CASE ~rcv.sink
  BY <1>1, <1>3, Zenon DEF Vacated
<1> QED BY <1>2, <1>3, Zenon

LEMMA HoldingFacts ==
    ASSUME NEW k \in Sink, NEW id \in Transfers, NEW length \in Nat, NEW l, l = Holding(k, id, length)
    PROVE  /\ l \in Sink /\ l.open = id /\ l.stored = length /\ l.commits = k.commits
           /\ length <= l.reached[id]
           /\ \A t \in Transfers : k.reached[t] <= l.reached[t]
<1>1. k.reached \in [Transfers -> Nat] /\ k.commits \in [Transfers -> 0 .. 2]
  BY Zenon DEF Sink
<1>2. PICK n : n = IF length > k.reached[id] THEN length ELSE k.reached[id]
  BY Zenon
<1>3. n \in Nat /\ length <= n /\ k.reached[id] <= n
  BY <1>1, <1>2
<1>4. PICK f : f = [k.reached EXCEPT ![id] = n]
  BY Zenon
<1>5. f \in [Transfers -> Nat] /\ f[id] = n /\ \A t \in Transfers : k.reached[t] <= f[t]
  <2>1. f \in [Transfers -> Nat] /\ f[id] = n /\ \A t \in Transfers \ {id} : f[t] = k.reached[t]
    BY <1>1, <1>3, <1>4, Zenon
  <2>2. \A t \in Transfers : k.reached[t] \in Nat
    BY <1>1, Zenon
  <2> QED BY <1>3, <2>1, <2>2
<1>6. l = [k EXCEPT !.open = id, !.stored = length, !.reached = f]
  BY <1>2, <1>4, Zenon DEF Holding, Sink
<1>7. /\ l \in [open : Transfers \cup {0}, stored : Nat, reached : [Transfers -> Nat],
                commits : [Transfers -> 0 .. 2]]
      /\ l.open = id /\ l.stored = length /\ l.commits = k.commits /\ l.reached = f
  BY <1>5, <1>6, Zenon DEF Sink
<1> QED BY <1>3, <1>5, <1>7, Zenon DEF Sink

LEMMA CommittedFacts ==
    ASSUME NEW k \in Sink, NEW id \in Transfers, NEW l, l = Committed(k, id)
    PROVE  /\ l \in Sink /\ l.open = 0 /\ l.reached = k.reached /\ l.commits[id] > 0
           /\ l.commits = [k.commits EXCEPT ![id] = IF @ < 2 THEN @ + 1 ELSE @]
<1>1. PICK c : c = Closed(k)
  BY Zenon
<1>2. c \in Sink /\ c.open = 0 /\ c.reached = k.reached /\ c.commits = k.commits
  BY <1>1, ClosedFacts, Zenon
<1>3. k.commits \in [Transfers -> 0 .. 2]
  BY Zenon DEF Sink
<1>4. PICK f : f = [k.commits EXCEPT ![id] = IF @ < 2 THEN @ + 1 ELSE @]
  BY Zenon
<1>5. f \in [Transfers -> 0 .. 2] /\ f[id] > 0
  BY <1>3, <1>4
<1>6. l = [c EXCEPT !.commits = f]
  BY <1>1, <1>2, <1>4, Zenon DEF Committed, Sink
<1>7. /\ l \in [open : Transfers \cup {0}, stored : Nat, reached : [Transfers -> Nat],
                commits : [Transfers -> 0 .. 2]]
      /\ l.open = 0 /\ l.reached = k.reached /\ l.commits = f
  BY <1>2, <1>5, <1>6, Zenon DEF Sink
<1> QED BY <1>4, <1>5, <1>7, Zenon DEF Sink

\* wl_bulk_receiver_on_begin
LEMMA BeginAnswered ==
    ASSUME ReceiverInv(rcv, sink), NEW m \in Message, OnBegin(m)
    PROVE  Answered(m)
<1> DEFINE n == Negotiated(m.id)
<1>1. /\ m.id \in Transfers /\ m.kind \in Phase
      /\ rcv \in Receiver /\ sink \in Sink /\ rcv.off \in Nat /\ rcv.chunk \in Int
      /\ sink.reached \in [Transfers -> Nat] /\ sink.reached[m.id] \in Nat
  BY Zenon DEF Message, ReceiverInv, Receiver, Sink
<1>2. n \in Int /\ Length[m.id] \in Nat /\ Requested[m.id] \in Nat
  BY <1>1, NegotiatedType, BulkSizes, Zenon
<1> HIDE DEF n
<1>3. CASE BeginInvalid(m)
  <2>1. "INVALID" \in Code
    BY Zenon DEF Code
  <2>2. m.kind = "BEGIN" /\ ~out.pending /\ Retain(m.id, m.kind, "INVALID", rcv.off, rcv.chunk) /\ rcv' = rcv /\ sink' = sink
    BY <1>3, Zenon DEF BeginInvalid, Takes, Report
  <2> QED BY <1>1, <2>1, <2>2, AnswerOnly, Zenon
<1>4. CASE BeginDuplicate(m)
  <2>1. PICK code : code = TerminalCode
    BY Zenon
  <2>2. /\ m.kind = "BEGIN" /\ ~out.pending /\ Retain(m.id, m.kind, code, rcv.off, rcv.chunk) /\ rcv' = rcv /\ sink' = sink
        /\ rcv.state # "IDLE" /\ rcv.id = m.id
    BY <1>4, <2>1, Zenon DEF BeginDuplicate, Takes, Report, SameDescriptor
  <2>3. code \in Code /\ (code \in {"OK", "OUT_OF_ORDER"} => rcv.off <= sink.reached[rcv.id])
    BY <2>1, <2>2, TerminalFacts, Zenon
  <2> QED BY <1>1, <2>2, <2>3, AnswerOnly, Zenon
<1>5. CASE BeginConflict(m)
  <2>1. "CONFLICT" \in Code
    BY Zenon DEF Code
  <2>2. m.kind = "BEGIN" /\ ~out.pending /\ Retain(m.id, m.kind, "CONFLICT", rcv.off, rcv.chunk) /\ rcv' = rcv /\ sink' = sink
    BY <1>5, Zenon DEF BeginConflict, Takes, Report
  <2> QED BY <1>1, <2>1, <2>2, AnswerOnly, Zenon
<1>6. ASSUME Replaces(m)
      PROVE  m.kind = "BEGIN" /\ ~out.pending /\ (rcv.state = "IDLE" \/ (rcv.state # "RECEIVING" /\ m.id # rcv.id))
  BY <1>6, Zenon DEF Replaces, Takes
<1>7. PICK k : k = Vacated
  BY Zenon
<1>8. k \in Sink /\ k.open = 0 /\ k.reached = sink.reached /\ k.commits = sink.commits
  BY <1>7, VacatedFacts, Zenon
<1>9. CASE BeginBusy(m)
  <2>1. /\ m.kind = "BEGIN" /\ ~out.pending /\ rcv.state # "RECEIVING"
        /\ Retain(m.id, m.kind, "BUSY", 0, n) /\ rcv' = [rcv EXCEPT !.sink = FALSE] /\ sink' = k
    BY <1>6, <1>7, <1>9, Zenon DEF BeginBusy, n
  <2>2. /\ rcv' \in Receiver /\ rcv'.state = rcv.state /\ rcv'.id = rcv.id /\ rcv'.off = rcv.off
        /\ rcv'.code = rcv.code /\ rcv'.sink = FALSE
    BY <1>1, <2>1, Zenon DEF Receiver
  <2>3. ReceiverInv(rcv', sink')
    BY <1>8, <2>1, <2>2, Zenon DEF ReceiverInv
  <2>4. Moved(rcv, sink, rcv', sink', m.id, m.kind)
    BY <1>1, <1>8, <2>1, <2>2, <2>3 DEF Moved
  <2>5. "BUSY" \in Code /\ 0 \in Nat
    BY Zenon DEF Code
  <2>6. /\ out' \in Outbound /\ out'.pending /\ out'.status \in Status /\ out'.status.id = m.id
        /\ out'.status.phase = m.kind /\ out'.status.code = "BUSY"
    BY <1>1, <1>2, <2>1, <2>5, RetainFacts, Zenon
  <2>7. Told(rcv, rcv', sink', m, out'.status)
    BY <2>1, <2>6, Zenon DEF Told, Acknowledges
  <2> QED BY <2>1, <2>4, <2>6, <2>7, Zenon DEF Answered
<1>10. PICK r : r = Replacement(m)
  BY Zenon
<1>11. /\ r \in Receiver /\ r.id = m.id /\ r.sink = TRUE /\ r.off = rcv.off
  BY <1>1, <1>2, <1>10, Zenon DEF Replacement, Receiver, n
<1>12. ASSUME NEW resume \in {0, sink.reached[m.id]}, BeginOpened(m, resume)
       PROVE  Answered(m)
  <2>1. resume \in Nat
    BY <1>1
  <2>2. /\ m.kind = "BEGIN" /\ ~out.pending /\ (rcv.state = "IDLE" \/ m.id # rcv.id)
        /\ Retain(m.id, m.kind, "OK", resume, n)
        /\ rcv' = [r EXCEPT !.off = resume, !.state = "RECEIVING"] /\ sink' = Holding(k, m.id, resume)
    BY <1>6, <1>7, <1>10, <1>12, Zenon DEF BeginOpened, Opened, n
  <2>3. rcv' \in Receiver /\ rcv'.state = "RECEIVING" /\ rcv'.id = m.id /\ rcv'.off = resume /\ rcv'.sink = TRUE
    BY <1>11, <2>1, <2>2, Zenon DEF Receiver
  <2>4. /\ sink' \in Sink /\ sink'.open = m.id /\ sink'.stored = resume /\ sink'.commits = sink.commits
        /\ resume <= sink'.reached[m.id] /\ \A t \in Transfers : sink.reached[t] <= sink'.reached[t]
    <3>1. /\ sink' \in Sink /\ sink'.open = m.id /\ sink'.stored = resume /\ sink'.commits = k.commits
          /\ resume <= sink'.reached[m.id] /\ \A t \in Transfers : k.reached[t] <= sink'.reached[t]
      <4>1. PICK id \in Transfers : id = m.id
        BY <1>1, Zenon
      <4>2. PICK l : l = Holding(k, id, resume)
        BY Zenon
      <4>3. /\ l \in Sink /\ l.open = id /\ l.stored = resume /\ l.commits = k.commits
            /\ resume <= l.reached[id] /\ \A t \in Transfers : k.reached[t] <= l.reached[t]
        BY <1>8, <2>1, <4>2, HoldingFacts
      <4> QED BY <2>2, <4>1, <4>2, <4>3, Zenon
    <3> QED BY <1>8, <3>1, Zenon
  <2>5. m.id # 0 /\ (rcv.state = "IDLE" => rcv.id = 0)
    BY <1>1, BulkSizes, Zenon DEF ReceiverInv
  <2>6. ReceiverInv(rcv', sink')
    BY <2>3, <2>4, <2>5, Zenon DEF ReceiverInv
  <2>7. Moved(rcv, sink, rcv', sink', m.id, m.kind)
    BY <2>2, <2>3, <2>4, <2>5, <2>6, Zenon DEF Moved
  <2>8. "OK" \in Code
    BY Zenon DEF Code
  <2>9. /\ out' \in Outbound /\ out'.pending /\ out'.status \in Status /\ out'.status.id = m.id
        /\ out'.status.phase = m.kind /\ out'.status.code = "OK" /\ out'.status.off = resume
    BY <1>1, <1>2, <2>1, <2>2, <2>8, RetainFacts, ZenonT(60)
  <2>10. Told(rcv, rcv', sink', m, out'.status)
    BY <2>2, <2>3, <2>4, <2>9, Zenon DEF Told, Acknowledges
  <2> QED BY <2>2, <2>7, <2>9, <2>10, Zenon DEF Answered
<1>13. ASSUME NEW code \in {"FAILED", "INVALID"}, BeginFailed(m, code)
       PROVE  Answered(m)
  <2>1. /\ m.kind = "BEGIN" /\ ~out.pending /\ (rcv.state = "IDLE" \/ m.id # rcv.id)
        /\ Retain(m.id, m.kind, code, 0, n)
        /\ rcv' = [r EXCEPT !.state = "FAILED", !.code = code] /\ sink' = [k EXCEPT !.open = m.id]
    BY <1>6, <1>7, <1>10, <1>13, Zenon DEF BeginFailed, EnterFailure, n
  <2>2. code \in Code /\ 0 \in Nat
    BY Zenon DEF Code
  <2>3. /\ rcv' \in Receiver /\ rcv'.state = "FAILED" /\ rcv'.id = m.id /\ rcv'.off = rcv.off /\ rcv'.sink = TRUE
        /\ rcv'.code = code
    BY <1>11, <2>1, <2>2, Zenon DEF Receiver
  <2>4. sink' \in Sink /\ sink'.open = m.id /\ sink'.commits = sink.commits /\ sink'.reached = sink.reached
    BY <1>1, <1>8, <2>1, Zenon DEF Sink
  <2>5. m.id # 0 /\ (rcv.state = "IDLE" => rcv.id = 0)
    BY <1>1, BulkSizes, Zenon DEF ReceiverInv
  <2>6. ReceiverInv(rcv', sink')
    BY <2>3, <2>4, <2>5, Zenon DEF ReceiverInv
  <2>7. \A t \in Transfers : sink.reached[t] <= sink'.reached[t]
    BY <1>1, <2>4
  <2>8. Moved(rcv, sink, rcv', sink', m.id, m.kind)
    BY <2>1, <2>3, <2>4, <2>5, <2>6, <2>7, Zenon DEF Moved
  <2>9. /\ out' \in Outbound /\ out'.pending /\ out'.status \in Status /\ out'.status.id = m.id
        /\ out'.status.phase = m.kind /\ out'.status.code = code
    BY <1>1, <1>2, <2>1, <2>2, RetainFacts, Zenon
  <2>10. Told(rcv, rcv', sink', m, out'.status)
    BY <2>1, <2>9, Zenon DEF Told, Acknowledges
  <2> QED BY <2>1, <2>8, <2>9, <2>10, Zenon DEF Answered
<1> QED BY <1>3, <1>4, <1>5, <1>9, <1>12, <1>13, Zenon DEF OnBegin

\* wl_bulk_receiver_on_chunk
LEMMA ChunkAnswered ==
    ASSUME ReceiverInv(rcv, sink), NEW m \in Message, OnChunk(m)
    PROVE  Answered(m)
<1>1. /\ m.id \in Transfers /\ m.kind \in Phase /\ m.off \in Nat /\ m.len \in Int
      /\ rcv \in Receiver /\ sink \in Sink /\ rcv.off \in Nat /\ rcv.chunk \in Int
      /\ sink.reached \in [Transfers -> Nat] /\ sink.reached[m.id] \in Nat
  BY Zenon DEF Message, ReceiverInv, Receiver, Sink
<1>2. {"OUT_OF_ORDER", "CONFLICT", "INVALID", "BUSY", "OK", "FAILED"} \subseteq Code /\ 0 \in Nat /\ 0 \in Int
  BY DEF Code
<1>3. m.kind = "CHUNK" /\ ~out.pending
  BY Zenon DEF OnChunk, ChunkUnexpected, ChunkRejected, ChunkDuplicate, ChunkGap, ChunkLate, ChunkBusy,
         ChunkWritten, ChunkFailed, ChunkNext, ChunkFits, Takes
<1>4. CASE ChunkUnexpected(m)
  <2>1. Retain(m.id, m.kind, "OUT_OF_ORDER", 0, 0) /\ rcv' = rcv /\ sink' = sink
    BY <1>3, <1>4, Zenon DEF ChunkUnexpected
  <2> QED BY <1>1, <1>2, <1>3, <2>1, AnswerOnly
<1>5. CASE ChunkRejected(m)
  <2>1. PICK code : code = IF m.id # rcv.id THEN "CONFLICT" ELSE "INVALID"
    BY Zenon
  <2>2. Retain(m.id, m.kind, code, rcv.off, rcv.chunk) /\ rcv' = rcv /\ sink' = sink
    BY <1>3, <1>5, <2>1, Zenon DEF ChunkRejected, Report
  <2>3. code \in {"CONFLICT", "INVALID"} /\ code \in Code
    BY <1>2, <2>1, Zenon
  <2> QED BY <1>1, <1>3, <2>2, <2>3, AnswerOnly, Zenon
<1>6. CASE ChunkDuplicate(m) \/ ChunkLate(m)
  <2>1. PICK code : code = TerminalCode
    BY Zenon
  <2>2. /\ Retain(m.id, m.kind, code, rcv.off, rcv.chunk) /\ rcv' = rcv /\ sink' = sink
        /\ rcv.state # "IDLE" /\ m.id = rcv.id
    BY <1>3, <1>6, <2>1, Zenon DEF ChunkDuplicate, ChunkLate, ChunkNext, ChunkFits, Report
  <2>3. code \in Code
    BY <2>1, <2>2, TerminalFacts, Zenon
  <2> QED BY <1>1, <1>3, <2>2, <2>3, AnswerOnly, Zenon
<1>7. CASE ChunkGap(m)
  <2>1. Retain(m.id, m.kind, "OUT_OF_ORDER", rcv.off, rcv.chunk) /\ rcv' = rcv /\ sink' = sink /\ m.id = rcv.id
    BY <1>3, <1>7, Zenon DEF ChunkGap, ChunkFits, Report
  <2> QED BY <1>1, <1>2, <1>3, <2>1, AnswerOnly, Zenon
<1>8. CASE ChunkBusy(m)
  <2>1. Retain(m.id, m.kind, "BUSY", rcv.off, rcv.chunk) /\ rcv' = rcv /\ sink' = sink
    BY <1>3, <1>8, Zenon DEF ChunkBusy, Report
  <2> QED BY <1>1, <1>2, <1>3, <2>1, AnswerOnly, Zenon
<1>9. CASE ChunkWritten(m)
  <2>1. PICK off : off = m.off + m.len
    BY Zenon
  <2>2. /\ rcv.state = "RECEIVING" /\ m.id = rcv.id /\ off > rcv.off /\ m.off = rcv.off
        /\ rcv' = [rcv EXCEPT !.off = off] /\ sink' = Holding(sink, m.id, sink.stored + m.len)
        /\ Retain(m.id, m.kind, "OK", off, rcv.chunk)
    BY <1>3, <1>9, <2>1, Zenon DEF ChunkWritten, ChunkNext, ChunkFits, Written
  <2>3. off \in Nat
    BY <1>1, <2>1, <2>2
  <2>4. sink.stored = rcv.off /\ rcv.sink /\ rcv.id # 0
    BY <2>2, Zenon DEF ReceiverInv
  <2>5. PICK id \in Transfers : id = m.id
    BY <1>1, Zenon
  <2>6. PICK l : l = Holding(sink, id, off)
    BY Zenon
  <2>7. /\ sink' = l
        /\ l \in Sink /\ l.open = m.id /\ l.stored = off /\ l.commits = sink.commits
        /\ off <= l.reached[m.id] /\ \A t \in Transfers : sink.reached[t] <= l.reached[t]
    <3>1. sink' = l
      BY <2>1, <2>2, <2>4, <2>5, <2>6, Zenon
    <3>2. sink \in Sink
      BY <1>1, Zenon
    <3>3. /\ l \in Sink /\ l.open = id /\ l.stored = off /\ l.commits = sink.commits
          /\ off <= l.reached[id] /\ \A t \in Transfers : sink.reached[t] <= l.reached[t]
      BY <2>3, <2>6, <3>2, HoldingFacts
    <3> QED BY <2>5, <3>1, <3>3, Zenon
  <2>8. /\ rcv' \in Receiver /\ rcv'.state = "RECEIVING" /\ rcv'.id = m.id /\ rcv'.off = off
        /\ rcv'.sink = rcv.sink
    BY <1>1, <2>2, <2>3, Zenon DEF Receiver
  <2>9. ReceiverInv(rcv', sink')
    BY <2>2, <2>4, <2>7, <2>8, Zenon DEF ReceiverInv
  <2>10. Moved(rcv, sink, rcv', sink', m.id, m.kind)
    BY <2>2, <2>7, <2>8, <2>9, Zenon DEF Moved
  <2>11. /\ out' \in Outbound /\ out'.pending /\ out'.status \in Status /\ out'.status.id = m.id
         /\ out'.status.phase = m.kind /\ out'.status.code = "OK" /\ out'.status.off = off
    BY <1>1, <1>2, <2>2, <2>3, RetainFacts
  <2>12. Told(rcv, rcv', sink', m, out'.status)
    BY <1>3, <2>7, <2>11, Zenon DEF Told, Acknowledges
  <2> QED BY <1>3, <2>10, <2>11, <2>12, Zenon DEF Answered
<1>10. CASE ChunkFailed(m)
  <2>1. /\ rcv.state = "RECEIVING" /\ rcv' = [rcv EXCEPT !.state = "FAILED", !.code = "FAILED"] /\ sink' = sink
        /\ Retain(m.id, m.kind, "FAILED", rcv.off, rcv.chunk)
    BY <1>3, <1>10, Zenon DEF ChunkFailed, EnterFailure, Report
  <2>2. /\ rcv' \in Receiver /\ rcv'.state = "FAILED" /\ rcv'.id = rcv.id /\ rcv'.off = rcv.off
        /\ rcv'.sink = rcv.sink /\ rcv'.code = "FAILED"
    BY <1>1, <1>2, <2>1, Zenon DEF Receiver
  <2>3. ReceiverInv(rcv', sink')
    BY <2>1, <2>2, Zenon DEF ReceiverInv
  <2>4. \A t \in Transfers : sink.reached[t] <= sink'.reached[t]
    BY <1>1, <2>1
  <2>5. Moved(rcv, sink, rcv', sink', m.id, m.kind)
    BY <2>1, <2>2, <2>3, <2>4, Zenon DEF Moved
  <2>6. /\ out' \in Outbound /\ out'.pending /\ out'.status \in Status /\ out'.status.id = m.id
        /\ out'.status.phase = m.kind /\ out'.status.code = "FAILED"
    BY <1>1, <1>2, <2>1, RetainFacts, Zenon
  <2>7. Told(rcv, rcv', sink', m, out'.status)
    BY <1>3, <2>6, Zenon DEF Told, Acknowledges
  <2> QED BY <1>3, <2>5, <2>6, <2>7, Zenon DEF Answered
<1> QED BY <1>4, <1>5, <1>6, <1>7, <1>8, <1>9, <1>10, Zenon DEF OnChunk

\* wl_bulk_receiver_on_end
LEMMA EndAnswered ==
    ASSUME ReceiverInv(rcv, sink), NEW m \in Message, OnEnd(m)
    PROVE  Answered(m)
<1>1. /\ m.id \in Transfers /\ m.kind \in Phase
      /\ rcv \in Receiver /\ sink \in Sink /\ rcv.off \in Nat /\ rcv.chunk \in Int
      /\ sink.reached \in [Transfers -> Nat] /\ sink.reached[m.id] \in Nat
  BY Zenon DEF Message, ReceiverInv, Receiver, Sink
<1>2. {"OUT_OF_ORDER", "CONFLICT", "BUSY", "OK", "FAILED"} \subseteq Code /\ 0 \in Nat /\ 0 \in Int
  BY DEF Code
<1>3. m.kind = "END" /\ ~out.pending
  BY Zenon DEF OnEnd, EndUnexpected, EndConflict, EndLate, EndEarly, EndBusy, EndCommitted, EndFailed, EndNow, Takes
<1>4. CASE EndUnexpected(m)
  <2>1. Retain(m.id, m.kind, "OUT_OF_ORDER", 0, 0) /\ rcv' = rcv /\ sink' = sink
    BY <1>3, <1>4, Zenon DEF EndUnexpected
  <2> QED BY <1>1, <1>2, <1>3, <2>1, AnswerOnly
<1>5. CASE EndConflict(m)
  <2>1. Retain(m.id, m.kind, "CONFLICT", rcv.off, rcv.chunk) /\ rcv' = rcv /\ sink' = sink
    BY <1>3, <1>5, Zenon DEF EndConflict, Report
  <2> QED BY <1>1, <1>2, <1>3, <2>1, AnswerOnly, Zenon
<1>6. CASE EndLate(m)
  <2>1. PICK code : code = TerminalCode
    BY Zenon
  <2>2. /\ Retain(m.id, m.kind, code, rcv.off, rcv.chunk) /\ rcv' = rcv /\ sink' = sink
        /\ rcv.state \notin {"IDLE", "RECEIVING"} /\ m.id = rcv.id
    BY <1>3, <1>6, <2>1, Zenon DEF EndLate, EndMatches, Report
  <2>3. /\ code \in Code /\ (code = "OK" => sink.commits[rcv.id] > 0)
        /\ code \in {"OK", "OUT_OF_ORDER"} => rcv.off <= sink.reached[rcv.id]
        /\ code = "ABORTED" => rcv.state = "ABORTED"
    BY <2>1, <2>2, TerminalFacts, Zenon
  <2> QED BY <1>1, <1>3, <2>2, <2>3, AnswerOnly, Zenon
<1>7. CASE EndEarly(m)
  <2>1. /\ Retain(m.id, m.kind, "OUT_OF_ORDER", rcv.off, rcv.chunk) /\ rcv' = rcv /\ sink' = sink
        /\ m.id = rcv.id /\ rcv.state = "RECEIVING"
    BY <1>3, <1>7, Zenon DEF EndEarly, EndMatches, Report
  <2>2. rcv.off <= sink.reached[m.id]
    BY <2>1, Zenon DEF ReceiverInv
  <2> QED BY <1>1, <1>2, <1>3, <2>1, <2>2, AnswerOnly, Zenon
<1>8. CASE EndBusy(m)
  <2>1. Retain(m.id, m.kind, "BUSY", rcv.off, rcv.chunk) /\ rcv' = rcv /\ sink' = sink
    BY <1>3, <1>8, Zenon DEF EndBusy, Report
  <2> QED BY <1>1, <1>2, <1>3, <2>1, AnswerOnly, Zenon
<1>9. CASE EndCommitted(m)
  <2>1. PICK l : l = Committed(sink, m.id)
    BY Zenon
  <2>2. /\ rcv.state = "RECEIVING" /\ m.id = rcv.id
        /\ rcv' = [rcv EXCEPT !.state = "COMPLETED", !.code = "OK", !.sink = FALSE] /\ sink' = l
        /\ Retain(m.id, m.kind, "OK", rcv.off, rcv.chunk)
    BY <1>3, <1>9, <2>1, Zenon DEF EndCommitted, EndNow, EndMatches, Report
  <2>3. /\ l \in Sink /\ l.open = 0 /\ l.reached = sink.reached /\ l.commits[m.id] > 0
        /\ l.commits = [sink.commits EXCEPT ![m.id] = IF @ < 2 THEN @ + 1 ELSE @]
    BY <1>1, <2>1, CommittedFacts
  <2>4. /\ rcv' \in Receiver /\ rcv'.state = "COMPLETED" /\ rcv'.id = m.id /\ rcv'.off = rcv.off
        /\ rcv'.sink = FALSE
    BY <1>1, <1>2, <2>2, Zenon DEF Receiver
  <2>5. rcv.off <= sink.reached[m.id] /\ m.id # 0
    BY <2>2, Zenon DEF ReceiverInv
  <2>6. ReceiverInv(rcv', sink')
    BY <2>2, <2>3, <2>4, <2>5, Zenon DEF ReceiverInv
  <2>7. \A t \in Transfers : sink.reached[t] <= l.reached[t]
    BY <1>1, <2>3
  <2>8. Moved(rcv, sink, rcv', sink', m.id, m.kind)
    BY <1>3, <2>2, <2>3, <2>4, <2>6, <2>7, Zenon DEF Moved
  <2>9. /\ out' \in Outbound /\ out'.pending /\ out'.status \in Status /\ out'.status.id = m.id
        /\ out'.status.phase = m.kind /\ out'.status.code = "OK" /\ out'.status.off = rcv.off
    BY <1>1, <1>2, <2>2, RetainFacts, ZenonT(60)
  <2>10. Told(rcv, rcv', sink', m, out'.status)
    BY <1>3, <2>2, <2>3, <2>5, <2>9, Zenon DEF Told, Acknowledges
  <2> QED BY <1>3, <2>8, <2>9, <2>10, Zenon DEF Answered
<1>10. CASE EndFailed(m)
  <2>1. /\ rcv.state = "RECEIVING" /\ rcv' = [rcv EXCEPT !.state = "FAILED", !.code = "FAILED"] /\ sink' = sink
        /\ Retain(m.id, m.kind, "FAILED", rcv.off, rcv.chunk)
    BY <1>3, <1>10, Zenon DEF EndFailed, EndNow, EnterFailure, Report
  <2>2. /\ rcv' \in Receiver /\ rcv'.state = "FAILED" /\ rcv'.id = rcv.id /\ rcv'.off = rcv.off
        /\ rcv'.sink = rcv.sink /\ rcv'.code = "FAILED"
    BY <1>1, <1>2, <2>1, Zenon DEF Receiver
  <2>3. ReceiverInv(rcv', sink')
    BY <2>1, <2>2, Zenon DEF ReceiverInv
  <2>4. \A t \in Transfers : sink.reached[t] <= sink'.reached[t]
    BY <1>1, <2>1
  <2>5. Moved(rcv, sink, rcv', sink', m.id, m.kind)
    BY <2>1, <2>2, <2>3, <2>4, Zenon DEF Moved
  <2>6. /\ out' \in Outbound /\ out'.pending /\ out'.status \in Status /\ out'.status.id = m.id
        /\ out'.status.phase = m.kind /\ out'.status.code = "FAILED"
    BY <1>1, <1>2, <2>1, RetainFacts, Zenon
  <2>7. Told(rcv, rcv', sink', m, out'.status)
    BY <1>3, <2>6, Zenon DEF Told, Acknowledges
  <2> QED BY <1>3, <2>5, <2>6, <2>7, Zenon DEF Answered
<1> QED BY <1>4, <1>5, <1>6, <1>7, <1>8, <1>9, <1>10, Zenon DEF OnEnd

\* An abort: the record of m's transfer is ABORTED, the sink has nothing open.
LEMMA AbortedAnswered ==
    ASSUME ReceiverInv(rcv, sink), NEW m \in Message, m.kind = "ABORT", ~out.pending,
           NEW r \in Receiver, r.id = m.id, r.off = rcv.off \/ r.off = 0, rcv' = Aborted(r), sink' = Vacated,
           rcv.id = m.id => rcv.state # "COMPLETED",
           NEW off \in Nat, NEW chunk \in Int, Retain(m.id, "ABORT", "ABORTED", off, chunk)
    PROVE  Answered(m)
<1>1. /\ m.id \in Transfers /\ m.kind \in Phase /\ m.id # 0
      /\ rcv \in Receiver /\ rcv.off \in Nat /\ sink.reached \in [Transfers -> Nat]
  BY BulkSizes, Zenon DEF Message, ReceiverInv, Receiver, Sink
<1>2. "ABORTED" \in Code /\ "ABORT" \in Phase
  BY Zenon DEF Code, Phase
<1>3. PICK k : k = Vacated
  BY Zenon
<1>4. k \in Sink /\ k.open = 0 /\ k.reached = sink.reached /\ k.commits = sink.commits
  BY <1>3, VacatedFacts, Zenon
<1>5. rcv' = [r EXCEPT !.state = "ABORTED", !.code = "ABORTED", !.sink = FALSE] /\ sink' = k
  BY <1>3, Zenon DEF Aborted
<1>6. /\ rcv' \in Receiver /\ rcv'.state = "ABORTED" /\ rcv'.id = m.id /\ rcv'.off = r.off
      /\ rcv'.sink = FALSE
  BY <1>2, <1>5, Zenon DEF Receiver
<1>7. ReceiverInv(rcv', sink')
  BY <1>1, <1>4, <1>5, <1>6, Zenon DEF ReceiverInv
<1>8. /\ \A t \in Transfers : sink.reached[t] <= sink'.reached[t]
      /\ rcv'.off = rcv.off \/ rcv'.off <= sink'.reached[rcv'.id]
  BY <1>1, <1>4, <1>5, <1>6
<1>9. Moved(rcv, sink, rcv', sink', m.id, m.kind)
  BY <1>4, <1>5, <1>6, <1>7, <1>8, Zenon DEF Moved
<1>10. /\ out' \in Outbound /\ out'.pending /\ out'.status \in Status /\ out'.status.id = m.id
       /\ out'.status.phase = m.kind /\ out'.status.code = "ABORTED"
  BY <1>1, <1>2, RetainFacts, Zenon
<1>11. Told(rcv, rcv', sink', m, out'.status)
  BY <1>6, <1>10, Zenon DEF Told, Acknowledges
<1> QED BY <1>9, <1>10, <1>11, Zenon DEF Answered

\* wl_bulk_receiver_on_abort
LEMMA AbortAnswered ==
    ASSUME ReceiverInv(rcv, sink), NEW m \in Message, OnAbort(m)
    PROVE  Answered(m)
<1>1. /\ m.id \in Transfers /\ m.kind \in Phase
      /\ rcv \in Receiver /\ rcv.off \in Nat /\ rcv.chunk \in Int
  BY Zenon DEF Message, ReceiverInv, Receiver
<1>2. {"CONFLICT", "ABORTED", "OK"} \subseteq Code /\ 0 \in Nat /\ 0 \in Int
  BY DEF Code
<1>3. m.kind = "ABORT" /\ ~out.pending
  BY Zenon DEF OnAbort, AbortUnknown, AbortConflict, AbortDuplicate, AbortNow, Takes
<1>4. CASE AbortUnknown(m)
  <2>1. PICK r : r = [Vacant EXCEPT !.id = m.id]
    BY Zenon
  <2>2. r \in Receiver /\ r.id = m.id /\ r.off = 0
    BY <1>1, <1>2, <2>1, Zenon DEF Vacant, Receiver
  <2>3. rcv.id = m.id => rcv.state # "COMPLETED"
    BY <1>4, Zenon DEF AbortUnknown
  <2>4. rcv' = Aborted(r) /\ sink' = Vacated /\ Retain(m.id, "ABORT", "ABORTED", 0, 0)
    BY <1>4, <2>1, Zenon DEF AbortUnknown
  <2> QED BY <1>2, <1>3, <2>2, <2>3, <2>4, AbortedAnswered, Zenon
<1>5. CASE AbortConflict(m)
  <2>1. Retain(m.id, m.kind, "CONFLICT", rcv.off, rcv.chunk) /\ rcv' = rcv /\ sink' = sink
    BY <1>3, <1>5, Zenon DEF AbortConflict, Report
  <2> QED BY <1>1, <1>2, <1>3, <2>1, AnswerOnly, Zenon
<1>6. CASE AbortDuplicate(m)
  <2>1. /\ Retain(m.id, m.kind, "ABORTED", rcv.off, rcv.chunk) /\ rcv' = rcv /\ sink' = sink
        /\ rcv.id = m.id /\ rcv.state = "ABORTED"
    BY <1>3, <1>6, Zenon DEF AbortDuplicate, Report
  <2> QED BY <1>1, <1>2, <1>3, <2>1, AnswerOnly, Zenon
<1>7. CASE AbortNow(m)
  <2>1. /\ rcv.state \in {"RECEIVING", "FAILED"} /\ m.id = rcv.id /\ rcv' = Aborted(rcv) /\ sink' = Vacated
        /\ Retain(m.id, "ABORT", "ABORTED", rcv.off, rcv.chunk)
    BY <1>7, Zenon DEF AbortNow, Report
  <2>2. PICK r : r = rcv
    BY Zenon
  <2> QED BY <1>1, <1>3, <2>1, <2>2, AbortedAnswered, Zenon
<1> QED BY <1>4, <1>5, <1>6, <1>7, Zenon DEF OnAbort

\* The idle timer answers as if to an Abort of the transfer it ends.
LEMMA PollAnswered ==
    ASSUME ReceiverInv(rcv, sink), ReceiverPoll, NEW m \in Message, m.id = rcv.id, m.kind = "ABORT"
    PROVE  Answered(m)
<1>1. /\ m.id \in Transfers /\ m.kind \in Phase /\ rcv.state = "RECEIVING" /\ ~out.pending
      /\ rcv \in Receiver /\ rcv.off \in Nat /\ rcv.chunk \in Int /\ sink.reached \in [Transfers -> Nat]
  BY Zenon DEF Message, ReceiverInv, Receiver, Sink, ReceiverPoll
<1>2. "TIMED_OUT" \in Code
  BY Zenon DEF Code
<1>3. PICK k : k = Vacated
  BY Zenon
<1>4. k \in Sink /\ k.open = 0 /\ k.reached = sink.reached /\ k.commits = sink.commits
  BY <1>3, VacatedFacts, Zenon
<1>5. /\ rcv' = [[rcv EXCEPT !.sink = FALSE] EXCEPT !.state = "FAILED", !.code = "TIMED_OUT"] /\ sink' = k
      /\ Retain(m.id, m.kind, "TIMED_OUT", rcv.off, rcv.chunk)
  BY <1>3, Zenon DEF ReceiverPoll, EnterFailure, Report
<1>6. /\ rcv' \in Receiver /\ rcv'.state = "FAILED" /\ rcv'.id = rcv.id /\ rcv'.off = rcv.off
      /\ rcv'.sink = FALSE /\ rcv'.code = "TIMED_OUT"
  BY <1>1, <1>2, <1>5, Zenon DEF Receiver
<1>7. ReceiverInv(rcv', sink')
  BY <1>1, <1>4, <1>5, <1>6, Zenon DEF ReceiverInv
<1>8. \A t \in Transfers : sink.reached[t] <= sink'.reached[t]
  BY <1>1, <1>4, <1>5
<1>9. Moved(rcv, sink, rcv', sink', m.id, m.kind)
  BY <1>1, <1>4, <1>5, <1>6, <1>7, <1>8, Zenon DEF Moved
<1>10. /\ out' \in Outbound /\ out'.pending /\ out'.status \in Status /\ out'.status.id = m.id
       /\ out'.status.phase = m.kind /\ out'.status.code = "TIMED_OUT"
  BY <1>1, <1>2, <1>5, RetainFacts, Zenon
<1>11. Told(rcv, rcv', sink', m, out'.status)
  BY <1>10, Zenon DEF Told, Acknowledges
<1> QED BY <1>1, <1>9, <1>10, <1>11, Zenon DEF Answered

-----------------------------------------------------------------------------
(* Steps of the receiver *)

\* p is what is left of the channel q.
Thinner(p, q) ==
    /\ \A j \in DOMAIN p : \E k \in DOMAIN q : p[j] = q[k]
    /\ \A j, k \in DOMAIN p : j < k => \E d, e \in DOMAIN q : d < e /\ p[j] = q[d] /\ p[k] = q[e]

\* The receiver answers m, which may leave the channel.
AnswerStep(m) ==
    /\ Answered(m) /\ m.id \in begun
    /\ toReceiver' \in Seq(Message) /\ Thinner(toReceiver', toReceiver)
    /\ snd' = snd /\ begun' = begun /\ toSender' = toSender
    /\ ordered' = ordered /\ resets' = resets /\ outcome' = outcome

LEMMA StatusesTyped ==
    ASSUME RecordInv, NEW st \in Statuses
    PROVE  st \in Status /\ st.id \in Transfers
<1>1. toSender \in Seq(Status) /\ (out.pending => out.status \in Status)
  BY Zenon DEF RecordInv
<1>2. \A i \in DOMAIN toSender : toSender[i] \in Status
  BY <1>1
<1>3. st \in Status
  BY <1>1, <1>2, Zenon DEF Statuses
<1> QED BY <1>3, Zenon DEF Status

LEMMA NewStatuses ==
    ASSUME toSender' = toSender, out'.pending
    PROVE  \A st \in Statuses' : st \in Statuses \/ st = out'.status
BY Zenon DEF Statuses

LEMMA IdsAreNat ==
    ASSUME RecordInv
    PROVE  /\ \A t \in Transfers : t \in Nat /\ t # 0 /\ sink.reached[t] \in Nat /\ sink.commits[t] \in 0 .. 2
           /\ rcv.id \in Nat /\ snd.id \in Nat /\ rcv.off \in Nat /\ snd.off \in Nat
           /\ rcv.id # 0 => rcv.id \in Transfers
           /\ snd.id # 0 => snd.id \in Transfers
           /\ \A i \in DOMAIN toReceiver : toReceiver[i] \in Message /\ toReceiver[i].id \in Transfers
<1>1. /\ rcv \in Receiver /\ snd \in Sender /\ sink \in Sink /\ toReceiver \in Seq(Message)
  BY Zenon DEF RecordInv, ReceiverInv, SenderInv
<1>2. rcv.id \in Transfers \cup {0} /\ snd.id \in Transfers \cup {0} /\ rcv.off \in Nat /\ snd.off \in Nat
  BY <1>1, Zenon DEF Receiver, Sender
<1>3. \A t \in Transfers : t \in Nat /\ t # 0
  BY BulkSizes, Zenon
<1>4. \A t \in Transfers : sink.reached[t] \in Nat /\ sink.commits[t] \in 0 .. 2
  BY <1>1, Zenon DEF Sink
<1>5. \A i \in DOMAIN toReceiver : toReceiver[i] \in Message
  BY <1>1
<1>6. \A i \in DOMAIN toReceiver : toReceiver[i].id \in Transfers
  BY <1>5, Zenon DEF Message
<1> QED BY <1>2, <1>3, <1>4, <1>5, <1>6

LEMMA AnswerRecords ==
    ASSUME RecordInv, NEW m \in Message, AnswerStep(m)
    PROVE  RecordInv'
<1>1. Answered(m) /\ m.id \in begun /\ begun' = begun /\ snd' = snd /\ resets' = resets /\ outcome' = outcome
  BY Zenon DEF AnswerStep
<1>2. /\ ReceiverInv(rcv', sink') /\ out' \in Outbound /\ out'.status \in Status
      /\ rcv'.id \in {rcv.id, m.id}
      /\ sink'.commits = sink.commits \/ sink'.commits = [sink.commits EXCEPT ![m.id] = IF @ < 2 THEN @ + 1 ELSE @]
  BY <1>1, Zenon DEF Answered, Moved, Told
<1>3. toReceiver' \in Seq(Message) /\ toSender' \in Seq(Status)
  BY Zenon DEF AnswerStep, RecordInv
<1>4. \A i \in DOMAIN toReceiver' : toReceiver'[i].id \in begun
  BY Zenon DEF AnswerStep, RecordInv, Thinner
<1>5. \A t \in Transfers : sink'.commits[t] > 0 => t \in begun
  <2>1. sink.commits \in [Transfers -> 0 .. 2]
    BY Zenon DEF RecordInv, ReceiverInv, Sink
  <2>2. \A t \in Transfers : t # m.id => sink'.commits[t] = sink.commits[t]
    BY <1>2, <2>1, Zenon
  <2> QED BY <1>1, <2>2, Zenon DEF RecordInv
<1>6. \A st \in Statuses' : st.id \in begun
  <2>1. \A st \in Statuses' : st \in Statuses \/ st = out'.status
    BY <1>1, NewStatuses, Zenon DEF AnswerStep, Answered
  <2>2. out'.status.id = m.id
    BY <1>1, Zenon DEF Answered, Told
  <2> QED BY <1>1, <2>1, <2>2, Zenon DEF RecordInv
<1> QED BY <1>1, <1>2, <1>3, <1>4, <1>5, <1>6, Zenon DEF RecordInv

\* A commit is never taken back.
LEMMA CommitsGrow ==
    ASSUME RecordInv, NEW m \in Message, AnswerStep(m)
    PROVE  \A t \in Transfers : sink.commits[t] <= sink'.commits[t]
<1>1. sink.commits \in [Transfers -> 0 .. 2]
  BY Zenon DEF RecordInv, ReceiverInv, Sink
<1>2. sink'.commits = sink.commits \/ sink'.commits = [sink.commits EXCEPT ![m.id] = IF @ < 2 THEN @ + 1 ELSE @]
  BY Zenon DEF AnswerStep, Answered, Moved
<1> QED BY <1>1, <1>2

LEMMA AnswerStatuses ==
    ASSUME RecordInv, StatusInv, NEW m \in Message, AnswerStep(m)
    PROVE  StatusInv'
<1>1. \A t \in Transfers : sink.commits[t] \in 0 .. 2 /\ sink.commits[t] <= sink'.commits[t]
  BY CommitsGrow, IdsAreNat, Zenon
<1>2. \A t \in Transfers : sink'.commits[t] \in 0 .. 2
  BY AnswerRecords, Zenon DEF RecordInv, ReceiverInv, Sink
<1>3. \A t \in Transfers : sink.commits[t] > 0 => sink'.commits[t] > 0
  BY <1>1, <1>2
<1>4. \A st \in Statuses' : st \in Statuses \/ st = out'.status
  BY NewStatuses, Zenon DEF AnswerStep, Answered
<1>5. /\ out'.status.id = m.id /\ out'.status.phase = m.kind
      /\ m.kind = "END" /\ out'.status.code = "OK" => sink'.commits[m.id] > 0
      /\ m.kind = "ABORT" => out'.status.code # "OK"
  BY Zenon DEF AnswerStep, Answered, Told
<1>6. ASSUME NEW st \in Statuses'
      PROVE  /\ st.phase = "END" /\ st.code = "OK" => sink'.commits[st.id] > 0
             /\ st.phase = "ABORT" => st.code # "OK"
  <2>1. CASE st \in Statuses
    BY <1>3, <2>1, StatusesTyped, Zenon DEF StatusInv
  <2>2. CASE st = out'.status
    BY <1>5, <2>2, Zenon
  <2> QED BY <1>4, <1>6, <2>1, <2>2, Zenon
<1>7. snd' = snd /\ outcome' = outcome
  BY Zenon DEF AnswerStep
<1>8. snd.state = "COMPLETED" => snd.id \in Transfers
  BY IdsAreNat, Zenon DEF RecordInv, SenderInv
<1>9. snd'.state = "COMPLETED" => sink'.commits[snd'.id] > 0
  BY <1>3, <1>7, <1>8, Zenon DEF StatusInv
<1>10. \A t \in Transfers : outcome'[t] = "COMPLETED" => sink'.commits[t] > 0
  BY <1>3, <1>7, Zenon DEF StatusInv
<1> QED BY <1>6, <1>9, <1>10, Zenon DEF StatusInv

\* What the ordered channel says of the message it delivers
InTurn(m) ==
    /\ rcv.id <= m.id
    /\ \A i \in DOMAIN toReceiver' : m.id <= toReceiver'[i].id
    /\ \A t \in Transfers : Underway(t) => t <= m.id
    /\ m.kind = "CHUNK" => Underway(m.id)

LEMMA AnswerOrder ==
    ASSUME RecordInv, OrderInv, NEW m \in Message, AnswerStep(m), InTurn(m)
    PROVE  OrderInv'
<1>1. /\ snd' = snd /\ toSender' = toSender /\ Thinner(toReceiver', toReceiver)
      /\ rcv'.id \in {rcv.id, m.id} /\ (rcv'.off = rcv.off \/ rcv'.off <= sink'.reached[rcv'.id])
      /\ \A t \in Transfers : sink.reached[t] <= sink'.reached[t]
  BY Zenon DEF AnswerStep, Answered, Moved
<1>2. /\ out'.status.id = m.id /\ out'.status.phase = m.kind
      /\ Acknowledges(out'.status) => \/ out'.status.off <= sink'.reached[m.id]
                                      \/ m.kind = "CHUNK" /\ m.id = rcv.id /\ out'.status.off = rcv.off
      /\ Acknowledges(out'.status) /\ m.kind = "BEGIN" => rcv'.id = m.id /\ rcv'.off <= sink'.reached[m.id]
  BY Zenon DEF AnswerStep, Answered, Told
<1>3. RecordInv'
  BY AnswerRecords, Zenon
<1>4. /\ \A t \in Transfers : t \in Nat /\ t # 0 /\ sink.reached[t] \in Nat
      /\ rcv.id \in Nat /\ rcv.off \in Nat /\ snd.off \in Nat
      /\ rcv.id # 0 => rcv.id \in Transfers
      /\ snd.id # 0 => snd.id \in Transfers
      /\ \A i \in DOMAIN toReceiver : toReceiver[i].id \in Transfers
  BY IdsAreNat, Zenon
<1>5. /\ \A t \in Transfers : sink'.reached[t] \in Nat
      /\ rcv'.id \in Nat /\ rcv'.off \in Nat
      /\ \A i \in DOMAIN toReceiver' : toReceiver'[i].id \in Transfers
  <2>1. rcv' \in Receiver /\ sink' \in Sink /\ toReceiver' \in Seq(Message)
    BY <1>3, Zenon DEF RecordInv, ReceiverInv
  <2>2. \A i \in DOMAIN toReceiver' : toReceiver'[i] \in Message
    BY <2>1
  <2>3. rcv'.id \in Transfers \cup {0} /\ rcv'.off \in Nat /\ sink'.reached \in [Transfers -> Nat]
    BY <2>1, Zenon DEF Receiver, Sink
  <2> QED BY <1>4, <2>2, <2>3 DEF Message
<1>6. m.id \in Transfers /\ rcv.id <= m.id
  BY Zenon DEF InTurn, Message
<1>7. \A i, j \in DOMAIN toReceiver' : i < j => toReceiver'[i].id <= toReceiver'[j].id
  BY <1>1, ZenonT(60) DEF Thinner, OrderInv
<1>8. \A i \in DOMAIN toReceiver' : rcv'.id <= toReceiver'[i].id
  BY <1>1, <1>4, <1>5, <1>6 DEF InTurn
<1>9. \A st \in Statuses' : st \in Statuses \/ st = out'.status
  BY NewStatuses, Zenon DEF AnswerStep, Answered
<1>10. ASSUME NEW t \in Transfers, Underway(t)'
       PROVE  Underway(t) \/ (t = m.id /\ m.kind = "BEGIN" /\ Acknowledges(out'.status))
  <2>1. CASE snd'.id = t /\ snd'.phase \in {"CHUNK", "END"}
    BY <1>1, <2>1, Zenon DEF Underway
  <2>2. CASE \E i \in DOMAIN toReceiver' : toReceiver'[i].id = t /\ toReceiver'[i].kind = "CHUNK"
    BY <1>1, <2>2, ZenonT(60) DEF Underway, Thinner
  <2>3. CASE \E st \in Statuses' : st.id = t /\ st.phase = "BEGIN" /\ Acknowledges(st)
    BY <1>2, <1>9, <2>3, Zenon DEF Underway
  <2> QED BY <1>10, <2>1, <2>2, <2>3, Zenon DEF Underway, Acknowledges
<1>11. ASSUME NEW t \in Transfers, Underway(t)'
       PROVE  /\ rcv'.id = 0 \/ t <= rcv'.id
              /\ \A i \in DOMAIN toReceiver' : t <= toReceiver'[i].id
              /\ rcv'.id = t => rcv'.off <= sink'.reached[t]
  <2>1. CASE Underway(t)
    <3>1. /\ rcv.id = 0 \/ t <= rcv.id
          /\ \A i \in DOMAIN toReceiver : t <= toReceiver[i].id
          /\ rcv.id = t => rcv.off <= sink.reached[t]
      BY <2>1, Zenon DEF OrderInv
    <3>2. t <= m.id
      BY <2>1, Zenon DEF InTurn
    <3>3. rcv'.id = 0 \/ t <= rcv'.id
      BY <1>1, <3>1, <3>2, Zenon
    <3>4. \A i \in DOMAIN toReceiver' : t <= toReceiver'[i].id
      BY <1>1, <3>1, Zenon DEF Thinner
    <3>5. ASSUME rcv'.id = t, rcv'.off = rcv.off
          PROVE  rcv'.off <= sink'.reached[t]
      <4>1. CASE rcv.id = t
        BY <1>1, <1>4, <1>5, <3>1, <3>5, <4>1
      <4>2. CASE rcv.id # t
        <5>1. m.id = t
          BY <1>1, <3>5, <4>2, Zenon
        <5>2. rcv.id = 0
          BY <1>4, <1>6, <3>1, <4>2, <5>1
        <5>3. rcv.off = 0
          BY <5>2, Zenon DEF RecordInv, ReceiverInv
        <5> QED BY <1>5, <3>5, <5>3
      <4> QED BY <4>1, <4>2, Zenon
    <3> QED BY <1>1, <3>3, <3>4, <3>5, Zenon
  <2>2. CASE t = m.id /\ m.kind = "BEGIN" /\ Acknowledges(out'.status)
    BY <1>2, <1>4, <2>2 DEF InTurn
  <2> QED BY <1>10, <1>11, <2>1, <2>2, Zenon
<1>12. ASSUME NEW st \in Statuses', Acknowledges(st)
       PROVE  st.off <= sink'.reached[st.id]
  <2>1. CASE st \in Statuses
    <3>1. st.off \in Nat /\ st.id \in Transfers
      BY <2>1, StatusesTyped, Zenon DEF Status
    <3>2. st.off <= sink.reached[st.id]
      BY <1>12, <2>1, Zenon DEF OrderInv
    <3> QED BY <1>1, <1>4, <1>5, <3>1, <3>2
  <2>2. CASE st = out'.status
    <3>1. CASE st.off <= sink'.reached[m.id]
      BY <1>2, <2>2, <3>1, Zenon
    <3>2. CASE m.kind = "CHUNK" /\ m.id = rcv.id /\ st.off = rcv.off
      <4>1. rcv.off <= sink.reached[m.id]
        BY <1>6, <3>2, Zenon DEF OrderInv, InTurn
      <4> QED BY <1>1, <1>2, <1>4, <1>5, <1>6, <2>2, <3>2, <4>1
    <3> QED BY <1>2, <1>12, <2>2, <3>1, <3>2, Zenon
  <2> QED BY <1>9, <1>12, <2>1, <2>2, Zenon
<1>13. SenderActive' /\ snd'.phase # "ABORT" => snd'.off <= sink'.reached[snd'.id]
  <2>1. SUFFICES ASSUME SenderActive, snd.phase # "ABORT"
                 PROVE  snd.off <= sink'.reached[snd.id]
    BY <1>1, Zenon DEF SenderActive
  <2>2. snd.off <= sink.reached[snd.id]
    BY <2>1, Zenon DEF OrderInv
  <2>3. snd.id \in Transfers
    BY <1>4, <2>1, Zenon DEF RecordInv, SenderInv, SenderActive
  <2> QED BY <1>1, <1>4, <1>5, <2>2, <2>3
<1> QED BY <1>7, <1>8, <1>11, <1>12, <1>13, Zenon DEF OrderInv, Acknowledges

\* A transfer that will not be committed stays so.
LEMMA BuriedStays ==
    ASSUME RecordInv, NEW m \in Message, AnswerStep(m), rcv.id <= m.id, NEW t \in Transfers, Buried(t)
    PROVE  Buried(t)'
<1>1. /\ rcv'.id \in {rcv.id, m.id}
      /\ rcv'.id = rcv.id /\ rcv.state \in {"COMPLETED", "ABORTED"} => rcv'.state = rcv.state
      /\ \/ sink'.commits = sink.commits
         \/ /\ rcv.id = m.id /\ rcv.state = "RECEIVING"
            /\ sink'.commits = [sink.commits EXCEPT ![m.id] = IF @ < 2 THEN @ + 1 ELSE @]
  BY Zenon DEF AnswerStep, Answered, Moved
<1>2. m.id \in Transfers /\ m.id \in Nat /\ rcv.id \in Nat /\ t \in Nat
  BY IdsAreNat, Zenon DEF Message
<1>3. sink.commits \in [Transfers -> 0 .. 2]
  BY Zenon DEF RecordInv, ReceiverInv, Sink
<1>4. sink.commits[t] = 0 /\ (t < rcv.id \/ (rcv.id = t /\ rcv.state = "ABORTED"))
  BY Zenon DEF Buried
<1>5. sink'.commits[t] = 0
  <2>1. CASE sink'.commits = sink.commits
    BY <1>4, <2>1, Zenon
  <2>2. CASE /\ rcv.id = m.id /\ rcv.state = "RECEIVING"
             /\ sink'.commits = [sink.commits EXCEPT ![m.id] = IF @ < 2 THEN @ + 1 ELSE @]
    <3>1. t # m.id
      BY <1>2, <1>4, <2>2
    <3> QED BY <1>3, <1>4, <2>2, <3>1, Zenon
  <2> QED BY <1>1, <2>1, <2>2, Zenon
<1>6. t < rcv'.id \/ (rcv'.id = t /\ rcv'.state = "ABORTED")
  <2>1. CASE t < rcv.id
    BY <1>1, <1>2, <2>1
  <2>2. CASE rcv.id = t /\ rcv.state = "ABORTED"
    BY <1>1, <1>2, <2>2
  <2> QED BY <1>4, <2>1, <2>2, Zenon
<1> QED BY <1>5, <1>6, Zenon DEF Buried

\* An End is committed only when one is in the channel.
EndArrives(m) ==
    m.kind = "END" => \E i \in DOMAIN toReceiver : toReceiver[i].id = m.id /\ toReceiver[i].kind = "END"

LEMMA NoEndStays ==
    ASSUME RecordInv, NEW m \in Message, AnswerStep(m), EndArrives(m), NEW t \in Transfers, NoEnd(t)
    PROVE  NoEnd(t)'
<1>1. sink.commits \in [Transfers -> 0 .. 2]
  BY Zenon DEF RecordInv, ReceiverInv, Sink
<1>2. \/ sink'.commits = sink.commits
      \/ m.kind = "END" /\ sink'.commits = [sink.commits EXCEPT ![m.id] = IF @ < 2 THEN @ + 1 ELSE @]
  BY Zenon DEF AnswerStep, Answered, Moved
<1>3. m.kind = "END" => m.id # t
  BY Zenon DEF NoEnd, EndArrives
<1>4. sink'.commits[t] = 0
  BY <1>1, <1>2, <1>3, Zenon DEF NoEnd
<1>5. \A i \in DOMAIN toReceiver' : ~(toReceiver'[i].id = t /\ toReceiver'[i].kind = "END")
  BY ZenonT(60) DEF NoEnd, AnswerStep, Thinner
<1> QED BY <1>4, <1>5, Zenon DEF NoEnd

LEMMA AnswerOnce ==
    ASSUME RecordInv, OnceInv, NEW m \in Message, AnswerStep(m), rcv.id <= m.id, EndArrives(m)
    PROVE  OnceInv'
<1>1. /\ snd' = snd /\ outcome' = outcome /\ rcv'.id \in {rcv.id, m.id}
      /\ rcv'.id = rcv.id /\ rcv.state \in {"COMPLETED", "ABORTED"} => rcv'.state = rcv.state
      /\ \/ sink'.commits = sink.commits
         \/ /\ rcv.id = m.id /\ rcv.state = "RECEIVING" /\ rcv'.id = m.id /\ rcv'.state = "COMPLETED"
            /\ sink'.commits = [sink.commits EXCEPT ![m.id] = IF @ < 2 THEN @ + 1 ELSE @]
  BY Zenon DEF AnswerStep, Answered, Moved
<1>2. /\ m.id \in Transfers /\ m.id \in Nat /\ rcv.id \in Nat
      /\ \A t \in Transfers : t \in Nat /\ sink.commits[t] \in 0 .. 2
      /\ snd.id # 0 => snd.id \in Transfers
  BY IdsAreNat, Zenon DEF Message
<1>3. sink.commits \in [Transfers -> 0 .. 2]
  BY Zenon DEF RecordInv, ReceiverInv, Sink
<1>4. ASSUME NEW t \in Transfers
      PROVE  /\ sink'.commits[t] <= 1
             /\ sink'.commits[t] > 0 => t < rcv'.id \/ (rcv'.id = t /\ rcv'.state = "COMPLETED")
  <2>1. /\ sink.commits[t] <= 1
        /\ sink.commits[t] > 0 => t < rcv.id \/ (rcv.id = t /\ rcv.state = "COMPLETED")
    BY Zenon DEF OnceInv
  <2>2. CASE sink'.commits[t] = sink.commits[t]
    <3>1. CASE t < rcv.id
      BY <1>1, <1>2, <2>1, <2>2, <3>1
    <3>2. CASE rcv.id = t /\ rcv.state = "COMPLETED"
      BY <1>1, <1>2, <2>1, <2>2, <3>2
    <3>3. CASE ~(sink.commits[t] > 0)
      BY <1>2, <2>2, <3>3
    <3> QED BY <2>1, <3>1, <3>2, <3>3, Zenon
  <2>3. CASE sink'.commits[t] # sink.commits[t]
    <3>1. /\ rcv.id = m.id /\ rcv.state = "RECEIVING" /\ rcv'.id = m.id /\ rcv'.state = "COMPLETED"
          /\ sink'.commits = [sink.commits EXCEPT ![m.id] = IF @ < 2 THEN @ + 1 ELSE @]
      BY <1>1, <2>3, Zenon
    <3>2. t = m.id
      BY <1>3, <2>3, <3>1, Zenon
    <3>3. ~(sink.commits[t] > 0)
      BY <1>2, <2>1, <3>1, <3>2
    <3>4. sink.commits[t] = 0
      BY <1>2, <3>3
    <3> QED BY <1>3, <3>1, <3>2, <3>4
  <2> QED BY <2>2, <2>3, Zenon
<1>5. ASSUME NEW st \in Statuses', st.code = "ABORTED", st.phase \in {"END", "ABORT"}
      PROVE  Buried(st.id)'
  <2>1. CASE st \in Statuses
    <3>1. st.id \in Transfers
      BY <2>1, StatusesTyped, Zenon
    <3>2. PICK t \in Transfers : t = st.id
      BY <3>1, Zenon
    <3>3. Buried(t)
      BY <1>5, <2>1, <3>2, Zenon DEF OnceInv
    <3>4. Buried(t)'
      BY <3>3, BuriedStays, Zenon
    <3> QED BY <3>2, <3>4, Zenon DEF Buried
  <2>2. CASE st = out'.status
    <3>1. st.id = m.id /\ rcv'.id = m.id /\ rcv'.state = "ABORTED"
      BY <1>5, <2>2, Zenon DEF AnswerStep, Answered, Told
    <3>2. sink'.commits[m.id] <= 1 /\ (sink'.commits[m.id] > 0 => m.id < rcv'.id \/ rcv'.state = "COMPLETED")
      BY <1>2, <1>4, Zenon
    <3>3. sink'.commits[m.id] \in 0 .. 2
      BY <1>2, AnswerRecords, Zenon DEF RecordInv, ReceiverInv, Sink
    <3>4. sink'.commits[m.id] = 0
      BY <1>2, <3>1, <3>2, <3>3
    <3> QED BY <3>1, <3>4, Zenon DEF Buried
  <2>3. st \in Statuses \/ st = out'.status
    BY <1>5, NewStatuses, Zenon DEF AnswerStep, Answered
  <2> QED BY <2>1, <2>2, <2>3, Zenon
<1>6. ASSUME NEW t \in Transfers, NoEnd(t) \/ Buried(t)
      PROVE  (NoEnd(t) \/ Buried(t))'
  BY <1>6, NoEndStays, BuriedStays, Zenon
<1>7. snd'.id # 0 /\ snd'.phase \in {"BEGIN", "CHUNK"} => NoEnd(snd.id)'
  <2>1. SUFFICES ASSUME snd.id # 0, snd.phase \in {"BEGIN", "CHUNK"}
                 PROVE  NoEnd(snd.id)'
    BY <1>1, Zenon
  <2>2. PICK t \in Transfers : t = snd.id
    BY <1>2, <2>1, Zenon
  <2>3. NoEnd(t)
    BY <2>1, <2>2, Zenon DEF OnceInv
  <2>4. NoEnd(t)'
    BY <2>3, NoEndStays, Zenon
  <2> QED BY <1>1, <2>2, <2>4, Zenon DEF NoEnd
<1>8. snd'.state = "ABORTED" => (NoEnd(snd.id) \/ Buried(snd.id))'
  <2>1. SUFFICES ASSUME snd.state = "ABORTED"
                 PROVE  (NoEnd(snd.id) \/ Buried(snd.id))'
    BY <1>1, Zenon
  <2>2. snd.id # 0
    BY <2>1, Zenon DEF RecordInv, SenderInv
  <2>3. PICK t \in Transfers : t = snd.id
    BY <1>2, <2>2, Zenon
  <2>4. NoEnd(t) \/ Buried(t)
    BY <2>1, <2>3, Zenon DEF OnceInv
  <2>5. (NoEnd(t) \/ Buried(t))'
    BY <1>6, <2>4, Zenon
  <2> QED BY <1>1, <2>3, <2>5, Zenon DEF NoEnd, Buried
<1>9. \A t \in Transfers : outcome'[t] = "ABORTED" => (NoEnd(t) \/ Buried(t))'
  BY <1>1, <1>6, Zenon DEF OnceInv
<1> QED BY <1>4, <1>5, <1>7, <1>8, <1>9, Zenon DEF OnceInv

\* A message is delivered, or the idle timer fires.
LEMMA AnswerInv ==
    ASSUME Inv, NEW m \in Message, AnswerStep(m), ordered => InTurn(m), EndArrives(m)
    PROVE  Inv'
<1>1. ordered' = ordered /\ resets' = resets
  BY Zenon DEF AnswerStep
<1>2. RecordInv' /\ StatusInv'
  BY AnswerRecords, AnswerStatuses, Zenon DEF Inv
<1>3. ordered => OrderInv'
  BY AnswerOrder, Zenon DEF Inv
<1>4. ordered /\ resets = 0 => OnceInv'
  BY AnswerOnce, Zenon DEF Inv, InTurn
<1> QED BY <1>1, <1>2, <1>3, <1>4, Zenon DEF Inv

LEMMA DeliverToReceiverInv ==
    ASSUME Inv, NEW i, DeliverToReceiver(i)
    PROVE  Inv'
<1>1. PICK m : m = toReceiver[i]
  BY Zenon
<1>2. /\ i \in 1 .. Len(toReceiver) /\ (ordered => i = 1)
      /\ OnBegin(m) \/ OnChunk(m) \/ OnEnd(m) \/ OnAbort(m)
      /\ toReceiver' = Without(toReceiver, i) \/ (~ordered /\ toReceiver' = toReceiver)
      /\ snd' = snd /\ begun' = begun /\ toSender' = toSender
      /\ ordered' = ordered /\ resets' = resets /\ outcome' = outcome
  BY <1>1, Zenon DEF DeliverToReceiver, Deliverable, Rest
<1>3. /\ RecordInv /\ ReceiverInv(rcv, sink) /\ toReceiver \in Seq(Message) /\ DOMAIN toReceiver = 1 .. Len(toReceiver)
      /\ \A j \in DOMAIN toReceiver : toReceiver[j].id \in begun
  BY DEF Inv, RecordInv
<1>4. m \in Message /\ m.id \in begun
  BY <1>1, <1>2, <1>3
<1>5. Answered(m)
  BY <1>2, <1>3, <1>4, BeginAnswered, ChunkAnswered, EndAnswered, AbortAnswered, Zenon
<1>6. toReceiver' \in Seq(Message) /\ Thinner(toReceiver', toReceiver)
  <2>1. PICK p, q : p = toReceiver' /\ q = toReceiver
    BY Zenon
  <2>2. q \in Seq(Message) /\ i \in 1 .. Len(q) /\ (p = q \/ p = Without(q, i))
    BY <1>2, <1>3, <2>1, Zenon
  <2>3. /\ p \in Seq(Message)
        /\ \A j \in DOMAIN p : \E k \in DOMAIN q : p[j] = q[k]
        /\ \A j, k \in DOMAIN p : j < k => \E d, e \in DOMAIN q : d < e /\ p[j] = q[d] /\ p[k] = q[e]
    BY <2>2, Thinned
  <2> QED BY <2>1, <2>3 DEF Thinner
<1>7. AnswerStep(m)
  BY <1>2, <1>4, <1>5, <1>6, Zenon DEF AnswerStep
<1>8. EndArrives(m)
  BY <1>1, <1>2, <1>3, Zenon DEF EndArrives
<1>9. ordered => InTurn(m)
  <2>1. SUFFICES ASSUME ordered
                 PROVE  InTurn(m)
    BY Zenon
  <2>2. OrderInv /\ i = 1 /\ i \in DOMAIN toReceiver /\ toReceiver' = Without(toReceiver, i)
    BY <1>2, <1>3, <2>1, Zenon DEF Inv
  <2>3. rcv.id <= m.id /\ \A t \in Transfers : Underway(t) => t <= m.id
    BY <1>1, <2>2, Zenon DEF OrderInv
  <2>4. \A j \in DOMAIN toReceiver' : m.id <= toReceiver'[j].id
    <3>1. PICK p : p = Without(toReceiver, i)
      BY Zenon
    <3>2. /\ p \in Seq(Message) /\ Len(p) = Len(toReceiver) - 1
          /\ \A j \in 1 .. Len(p) : p[j] = IF j < i THEN toReceiver[j] ELSE toReceiver[j + 1]
      BY <1>2, <1>3, <3>1, WithoutFacts, ZenonT(60)
    <3>3. \A j \in 1 .. Len(p) : p[j] = toReceiver[j + 1] /\ j + 1 \in DOMAIN toReceiver /\ 1 < j + 1
      BY <1>3, <2>2, <3>2
    <3>4. \A j \in DOMAIN toReceiver : 1 < j => m.id <= toReceiver[j].id
      BY <1>1, <1>3, <2>2, Zenon DEF OrderInv
    <3>5. \A j \in 1 .. Len(p) : m.id <= p[j].id
      BY <3>3, <3>4, Zenon
    <3>6. DOMAIN p = 1 .. Len(p)
      BY <3>2
    <3> QED BY <2>2, <3>1, <3>5, <3>6, Zenon
  <2>5. m.kind = "CHUNK" => Underway(m.id)
    BY <1>1, <2>2, Zenon DEF Underway
  <2> QED BY <2>3, <2>4, <2>5, Zenon DEF InTurn
<1> QED BY <1>4, <1>7, <1>8, <1>9, AnswerInv, Zenon

LEMMA PollReceiverInv ==
    ASSUME Inv, PollReceiver
    PROVE  Inv'
<1>1. RecordInv /\ ReceiverInv(rcv, sink) /\ rcv.state = "RECEIVING"
  BY Zenon DEF Inv, RecordInv, PollReceiver, ReceiverPoll
<1>2. rcv.id \in Transfers /\ rcv.id \in begun /\ rcv.id # 0 /\ rcv.id \in Nat
  BY <1>1, IdsAreNat, Zenon DEF RecordInv, ReceiverInv
<1>3. PICK m : m = [kind |-> "ABORT", id |-> rcv.id, off |-> 0, len |-> 0]
  BY Zenon
<1>4. m \in Message /\ m.id = rcv.id /\ m.kind = "ABORT"
  BY <1>2, <1>3 DEF Message, Phase
<1>5. Answered(m)
  BY <1>1, <1>4, PollAnswered, Zenon DEF PollReceiver
<1>6. /\ toReceiver' = toReceiver /\ toReceiver \in Seq(Message) /\ snd' = snd /\ begun' = begun /\ toSender' = toSender
      /\ ordered' = ordered /\ resets' = resets /\ outcome' = outcome
  BY <1>1, Zenon DEF PollReceiver, channel, RecordInv
<1>7. Thinner(toReceiver', toReceiver)
  BY <1>6, Zenon DEF Thinner
<1>8. AnswerStep(m)
  BY <1>2, <1>4, <1>5, <1>6, <1>7, Zenon DEF AnswerStep
<1>9. EndArrives(m)
  BY <1>4, Zenon DEF EndArrives
<1>10. ordered => InTurn(m)
  BY <1>2, <1>4, <1>6 DEF Inv, OrderInv, InTurn
<1> QED BY <1>4, <1>8, <1>9, <1>10, AnswerInv, Zenon

-----------------------------------------------------------------------------
(* Steps that leave the receiver and the sink alone *)

\* How a step may change the sender's record.
SenderMoved ==
    /\ SenderInv(snd', begun') /\ begun' = begun /\ snd'.id = snd.id
    /\ snd'.state = "COMPLETED" => sink.commits[snd.id] > 0
    /\ snd.id # 0 /\ snd'.phase \in {"CHUNK", "END"} => Underway(snd.id)
    /\ ordered /\ snd'.state \in {"READY", "WAIT_STATUS"} /\ snd'.phase # "ABORT" =>
          snd'.off <= sink.reached[snd.id]
    /\ snd'.phase \in {"BEGIN", "CHUNK"} => snd.phase \in {"BEGIN", "CHUNK"}
    /\ ordered /\ resets = 0 /\ snd'.state = "ABORTED" => NoEnd(snd.id) \/ Buried(snd.id)

QuietStep ==
    /\ SenderMoved
    /\ rcv' = rcv /\ sink' = sink /\ ordered' = ordered /\ resets' = resets /\ outcome' = outcome
    /\ toReceiver' \in Seq(Message) /\ Thinner(toReceiver', toReceiver)
    /\ toSender' \in Seq(Status) /\ out' \in Outbound /\ (out'.pending => out'.status \in Status)
    /\ Statuses' \subseteq Statuses

LEMMA SenderStill ==
    ASSUME Inv, snd' = snd, begun' = begun
    PROVE  SenderMoved
<1>1. SenderInv(snd', begun')
  BY Zenon DEF Inv, RecordInv
<1>2. snd.state = "COMPLETED" => sink.commits[snd.id] > 0
  BY Zenon DEF Inv, StatusInv
<1>3. snd.phase \in {"CHUNK", "END"} => Underway(snd.id)
  BY Zenon DEF Underway
<1>4. ordered /\ snd.state \in {"READY", "WAIT_STATUS"} /\ snd.phase # "ABORT" => snd.off <= sink.reached[snd.id]
  BY Zenon DEF Inv, OrderInv, SenderActive
<1>5. ordered /\ resets = 0 /\ snd.state = "ABORTED" => NoEnd(snd.id) \/ Buried(snd.id)
  BY Zenon DEF Inv, OnceInv
<1> QED BY <1>1, <1>2, <1>3, <1>4, <1>5, Zenon DEF SenderMoved

LEMMA QuietInv ==
    ASSUME Inv, QuietStep
    PROVE  Inv'
<1>1. /\ RecordInv /\ StatusInv /\ SenderMoved
      /\ rcv' = rcv /\ sink' = sink /\ ordered' = ordered /\ resets' = resets /\ outcome' = outcome
      /\ begun' = begun /\ snd'.id = snd.id
      /\ Thinner(toReceiver', toReceiver) /\ Statuses' \subseteq Statuses
  BY Zenon DEF Inv, QuietStep, SenderMoved
<1>2. RecordInv'
  <2>1. \A i \in DOMAIN toReceiver' : toReceiver'[i].id \in begun
    BY <1>1, Zenon DEF RecordInv, Thinner
  <2>2. \A st \in Statuses' : st.id \in begun
    BY <1>1, Zenon DEF RecordInv
  <2>3. SenderInv(snd', begun')
    BY <1>1, Zenon DEF SenderMoved
  <2>4. /\ ReceiverInv(rcv', sink') /\ (rcv'.id # 0 => rcv'.id \in begun')
        /\ \A t \in Transfers : sink'.commits[t] > 0 => t \in begun'
        /\ resets' \in Nat
        /\ outcome' \in [Transfers -> {"NONE", "COMPLETED", "ABORTED", "FAILED"}]
        /\ \A t \in Transfers : outcome'[t] # "NONE" => t \in begun' /\ (snd'.id # 0 => t < snd'.id)
    BY <1>1, Zenon DEF RecordInv
  <2> QED BY <1>1, <2>1, <2>2, <2>3, <2>4, Zenon DEF RecordInv, QuietStep
<1>3. StatusInv'
  BY <1>1, Zenon DEF StatusInv, SenderMoved
<1>4. ASSUME ordered
      PROVE  OrderInv'
  <2>1. OrderInv
    BY <1>4, Zenon DEF Inv
  <2>2. ASSUME NEW t \in Transfers, Underway(t)'
        PROVE  Underway(t)
    <3>1. CASE snd'.id = t /\ snd'.phase \in {"CHUNK", "END"}
      <4>1. snd.id # 0
        BY <1>1, <3>1, BulkSizes, Zenon
      <4> QED BY <1>1, <3>1, <4>1, Zenon DEF SenderMoved
    <3>2. CASE \E i \in DOMAIN toReceiver' : toReceiver'[i].id = t /\ toReceiver'[i].kind = "CHUNK"
      BY <1>1, <3>2, Zenon DEF Underway, Thinner
    <3>3. CASE \E st \in Statuses' : st.id = t /\ st.phase = "BEGIN" /\ Acknowledges(st)
      BY <1>1, <3>3, Zenon DEF Underway
    <3> QED BY <2>2, <3>1, <3>2, <3>3, Zenon DEF Underway, Acknowledges
  <2>3. \A i, j \in DOMAIN toReceiver' : i < j => toReceiver'[i].id <= toReceiver'[j].id
    BY <1>1, <2>1, ZenonT(60) DEF Thinner, OrderInv
  <2>4. \A i \in DOMAIN toReceiver' : rcv'.id <= toReceiver'[i].id
    BY <1>1, <2>1, Zenon DEF Thinner, OrderInv
  <2>5. ASSUME NEW t \in Transfers, Underway(t)'
        PROVE  /\ rcv'.id = 0 \/ t <= rcv'.id
               /\ \A i \in DOMAIN toReceiver' : t <= toReceiver'[i].id
               /\ rcv'.id = t => rcv'.off <= sink'.reached[t]
    BY <1>1, <2>1, <2>2, <2>5, Zenon DEF Thinner, OrderInv
  <2>6. \A st \in Statuses' : Acknowledges(st) => st.off <= sink'.reached[st.id]
    BY <1>1, <2>1, Zenon DEF OrderInv
  <2>7. SenderActive' /\ snd'.phase # "ABORT" => snd'.off <= sink'.reached[snd'.id]
    BY <1>1, <1>4, Zenon DEF SenderMoved, SenderActive
  <2> QED BY <2>3, <2>4, <2>5, <2>6, <2>7, Zenon DEF OrderInv, Acknowledges
<1>5. ASSUME ordered, resets = 0
      PROVE  OnceInv'
  <2>1. OnceInv
    BY <1>5, Zenon DEF Inv
  <2>2. ASSUME NEW t, NoEnd(t)
        PROVE  NoEnd(t)'
    BY <1>1, <2>2, ZenonT(60) DEF NoEnd, Thinner
  <2>3. ASSUME NEW t, Buried(t)
        PROVE  Buried(t)'
    BY <1>1, <2>3, Zenon DEF Buried
  <2>4. PICK u : u = snd.id /\ u = snd'.id
    BY <1>1, Zenon
  <2>5. snd'.id # 0 /\ snd'.phase \in {"BEGIN", "CHUNK"} => NoEnd(snd.id)'
    <3>1. u # 0 /\ snd'.phase \in {"BEGIN", "CHUNK"} => NoEnd(u)
      BY <1>1, <2>1, <2>4, Zenon DEF OnceInv, SenderMoved
    <3> QED BY <2>2, <2>4, <3>1, Zenon DEF NoEnd
  <2>6. snd'.state = "ABORTED" => (NoEnd(snd.id) \/ Buried(snd.id))'
    <3>1. snd'.state = "ABORTED" => NoEnd(u) \/ Buried(u)
      BY <1>1, <1>5, <2>4, Zenon DEF SenderMoved
    <3> QED BY <2>2, <2>3, <2>4, <3>1, ZenonT(60) DEF NoEnd, Buried
  <2>7. \A t \in Transfers : outcome'[t] = "ABORTED" => (NoEnd(t) \/ Buried(t))'
    BY <1>1, <2>1, <2>2, <2>3, Zenon DEF OnceInv
  <2>8. \A st \in Statuses' : st.code = "ABORTED" /\ st.phase \in {"END", "ABORT"} => Buried(st.id)'
    BY <1>1, <2>1, <2>3, Zenon DEF OnceInv
  <2>9. \A t \in Transfers : /\ sink'.commits[t] <= 1
                             /\ sink'.commits[t] > 0 => t < rcv'.id \/ (rcv'.id = t /\ rcv'.state = "COMPLETED")
    BY <1>1, <2>1, Zenon DEF OnceInv
  <2> QED BY <2>5, <2>6, <2>7, <2>8, <2>9, Zenon DEF OnceInv
<1> QED BY <1>1, <1>2, <1>3, <1>4, <1>5, Zenon DEF Inv

LEMMA PreparedFacts ==
    ASSUME NEW s \in Sender, NEW phase \in Phase, NEW r, r = Prepared(s, phase)
    PROVE  r \in Sender /\ r.state = "READY" /\ r.phase = phase /\ r.id = s.id /\ r.off = s.off
<1>1. FALSE \in BOOLEAN /\ 0 \in Nat /\ phase \in Phase \cup {"NONE"}
  BY Zenon
<1> QED BY <1>1, Zenon DEF Prepared, Sender

LEMMA FailedFacts ==
    ASSUME NEW s \in Sender, NEW r, r = Failed(s)
    PROVE  r \in Sender /\ r.state = "FAILED" /\ r.phase = s.phase /\ r.id = s.id
<1>1. FALSE \in BOOLEAN
  BY Zenon
<1> QED BY <1>1, Zenon DEF Failed, Sender

\* The sender's record of the same transfer
LEMMA SenderKept ==
    ASSUME Inv, snd.state # "IDLE", snd' \in Sender, snd'.id = snd.id, snd'.state # "IDLE", snd'.phase # "NONE",
           begun' = begun
    PROVE  SenderInv(snd', begun')
BY Zenon DEF Inv, RecordInv, SenderInv

\* A failed sender promises nothing.
LEMMA FailureMoves ==
    ASSUME Inv, snd.state # "IDLE", NEW s \in Sender, s.id = snd.id, s.phase \in {snd.phase, "ABORT"},
           snd' = Failed(s), begun' = begun
    PROVE  SenderMoved
<1>1. PICK r : r = Failed(s)
  BY Zenon
<1>2. r \in Sender /\ r.state = "FAILED" /\ r.phase = s.phase /\ r.id = snd.id /\ snd' = r
  BY <1>1, FailedFacts, Zenon
<1>3. snd.phase # "NONE"
  BY Zenon DEF Inv, RecordInv, SenderInv
<1>4. SenderInv(snd', begun')
  BY <1>2, <1>3, SenderKept, Zenon
<1> QED BY <1>2, <1>4, Zenon DEF SenderMoved, Underway

\* An acknowledgement moves the sender on to an offset that is stored.
LEMMA ContinueMoves ==
    ASSUME Inv, NEW st \in Statuses, st.id = snd.id, st.phase = snd.phase, Acknowledges(st),
           snd.state # "IDLE", snd.phase \in {"BEGIN", "CHUNK"},
           NEW s \in Sender, s.id = snd.id, s.off = st.off, snd' = Continued(s), begun' = begun
    PROVE  SenderMoved
<1>1. PICK phase : phase = IF s.off = Length[s.id] THEN "END" ELSE "CHUNK"
  BY Zenon
<1>2. phase \in {"CHUNK", "END"} /\ phase \in Phase
  BY <1>1, Zenon DEF Phase
<1>3. PICK r : r = Prepared(s, phase)
  BY Zenon
<1>4. snd' = r
  BY <1>1, <1>3, Zenon DEF Continued
<1>5. r \in Sender /\ r.state = "READY" /\ r.phase = phase /\ r.id = snd.id /\ r.off = st.off
  BY <1>2, <1>3, PreparedFacts
<1>6. SenderInv(snd', begun')
  BY <1>2, <1>4, <1>5, SenderKept, Zenon
<1>7. Underway(snd.id)
  BY Zenon DEF Underway
<1>8. ordered => st.off <= sink.reached[snd.id]
  BY Zenon DEF Inv, OrderInv
<1>9. snd.phase \in {"BEGIN", "CHUNK"} /\ snd'.state = "READY"
  BY <1>4, <1>5, Zenon
<1> QED BY <1>4, <1>5, <1>6, <1>7, <1>8, <1>9, Zenon DEF SenderMoved

\* The abort of a transfer is acknowledged.
LEMMA AbortMoves ==
    ASSUME Inv, NEW st \in Statuses, st.id = snd.id, st.code = "ABORTED",
           st.phase \in {snd.phase, "ABORT"}, snd.state # "IDLE",
           snd' \in Sender, snd'.id = snd.id, snd'.state = "ABORTED", snd'.phase = snd.phase, begun' = begun
    PROVE  SenderMoved
<1>1. /\ snd.phase \in Phase
  <2>1. snd \in Sender /\ snd.phase # "NONE"
    BY Zenon DEF Inv, RecordInv, SenderInv
  <2> QED BY <2>1, Zenon DEF Sender
<1>2. SenderInv(snd', begun')
  BY <1>1, SenderKept, Zenon DEF Phase
<1>3. ASSUME ordered, resets = 0
      PROVE  NoEnd(snd.id) \/ Buried(snd.id)
  <2>1. OnceInv /\ snd.id # 0
    BY <1>3, Zenon DEF Inv, RecordInv, SenderInv
  <2>2. CASE st.phase \in {"END", "ABORT"}
    BY <2>1, <2>2, Zenon DEF OnceInv
  <2>3. CASE snd.phase \in {"BEGIN", "CHUNK"}
    BY <2>1, <2>3, Zenon DEF OnceInv
  <2> QED BY <1>1, <2>2, <2>3, Zenon DEF Phase
<1> QED BY <1>2, <1>3, Zenon DEF SenderMoved, Underway

LEMMA OnStatusMoves ==
    ASSUME Inv, NEW st \in Statuses, OnStatus(st)
    PROVE  SenderMoved
<1>1. RecordInv /\ StatusInv /\ snd \in Sender /\ begun' = begun
  BY Zenon DEF Inv, RecordInv, SenderInv, OnStatus, StatusEnds, StatusIgnored, StatusMismatched, StatusBusy,
         StatusOutOfOrder, StatusRefused, StatusAccepted
<1>2. st \in Status /\ st.id \in Transfers /\ st.off \in Nat /\ st.chunk \in Int
  BY <1>1, StatusesTyped, Zenon DEF Status
<1>3. ASSUME Awaited(st)
      PROVE  st.id = snd.id /\ snd.state = "WAIT_STATUS" /\ snd.state # "IDLE" /\ snd.phase \in Phase
  <2>1. st.id = snd.id /\ snd.state = "WAIT_STATUS"
    BY <1>3, Zenon DEF Awaited
  <2>2. snd.phase # "NONE"
    BY <1>1, <2>1, Zenon DEF RecordInv, SenderInv
  <2> QED BY <1>1, <2>1, <2>2, Zenon DEF Sender
<1>4. ASSUME Awaited(st), snd' = Failed(snd)
      PROVE  SenderMoved
  BY <1>1, <1>3, <1>4, FailureMoves, Zenon
<1>5. CASE StatusIgnored(st)
  BY <1>5, SenderStill, Zenon DEF StatusIgnored
<1>6. CASE StatusEnds(st)
  <2>1. Awaited(st) /\ st.phase = "ABORT"
    BY <1>6, Zenon DEF StatusEnds, EndsTransfer
  <2>2. CASE ~TerminalValid(st)
    BY <1>4, <1>6, <2>1, <2>2, Zenon DEF StatusEnds
  <2>3. CASE TerminalValid(st) /\ st.code = "ABORTED"
    <3>1. snd' = [snd EXCEPT !.state = "ABORTED", !.off = st.off]
      BY <1>6, <2>3, Zenon DEF StatusEnds
    <3>2. snd' \in Sender /\ snd'.id = snd.id /\ snd'.state = "ABORTED" /\ snd'.phase = snd.phase
      BY <1>1, <1>2, <3>1, Zenon DEF Sender
    <3> QED BY <1>1, <1>3, <2>1, <2>3, <3>2, AbortMoves, Zenon
  <2>4. CASE TerminalValid(st) /\ st.code # "ABORTED"
    <3>1. PICK s : s = [snd EXCEPT !.phase = "ABORT", !.off = st.off]
      BY Zenon
    <3>2. s \in Sender /\ s.id = snd.id /\ s.phase = "ABORT"
      BY <1>1, <1>2, <3>1, Zenon DEF Sender, Phase
    <3>3. snd' = Failed(s)
      BY <1>6, <2>4, <3>1, Zenon DEF StatusEnds
    <3> QED BY <1>1, <1>3, <2>1, <3>2, <3>3, FailureMoves, Zenon
  <2> QED BY <2>2, <2>3, <2>4, Zenon
<1>7. CASE StatusMismatched(st)
  BY <1>4, <1>7, Zenon DEF StatusMismatched, Current
<1>8. CASE StatusBusy(st)
  <2>1. Awaited(st)
    BY <1>8, Zenon DEF StatusBusy, Current
  <2>2. CASE snd' = Failed(snd)
    BY <1>4, <2>1, <2>2, Zenon
  <2>3. CASE snd' = [snd EXCEPT !.pause = TRUE]
    <3>1. TRUE \in BOOLEAN
      BY Zenon
    <3>2. /\ snd' \in Sender /\ snd'.id = snd.id /\ snd'.state = snd.state /\ snd'.phase = snd.phase
          /\ snd'.off = snd.off
      BY <1>1, <2>3, <3>1, Zenon DEF Sender
    <3>3. SenderInv(snd', begun')
      BY <1>1, <1>3, <2>1, <3>2, SenderKept, Zenon DEF Phase
    <3>4. ordered /\ snd.phase # "ABORT" => snd.off <= sink.reached[snd.id]
      BY <1>3, <2>1, Zenon DEF Inv, OrderInv, SenderActive
    <3> QED BY <1>1, <1>3, <2>1, <3>2, <3>3, <3>4, Zenon DEF SenderMoved, Underway
  <2> QED BY <1>8, <2>2, <2>3, Zenon DEF StatusBusy
<1>9. CASE StatusOutOfOrder(st)
  <2>1. Awaited(st) /\ st.phase = snd.phase /\ Acknowledges(st)
    BY <1>9, Zenon DEF StatusOutOfOrder, Current, Answers, Acknowledges
  <2>2. CASE snd' = Failed(snd)
    BY <1>4, <2>1, <2>2, Zenon
  <2>3. CASE snd' # Failed(snd)
    <3>1. PICK s : s = [snd EXCEPT !.chunk = st.chunk, !.off = st.off, !.acked = FALSE]
      BY Zenon
    <3>2. FALSE \in BOOLEAN
      BY Zenon
    <3>3. s \in Sender /\ s.id = snd.id /\ s.off = st.off
      BY <1>1, <1>2, <3>1, <3>2, Zenon DEF Sender
    <3>4. snd.phase \in {"BEGIN", "CHUNK"} /\ snd' = Continued(s)
      BY <1>9, <2>3, <3>1, Zenon DEF StatusOutOfOrder
    <3> QED BY <1>1, <1>3, <2>1, <3>3, <3>4, ContinueMoves, Zenon
  <2> QED BY <2>2, <2>3, Zenon
<1>10. CASE StatusRefused(st)
  <2>1. Awaited(st) /\ st.phase = snd.phase
    BY <1>10, Zenon DEF StatusRefused, Current, Answers
  <2>2. CASE snd' = Failed(snd)
    BY <1>4, <2>1, <2>2, Zenon
  <2>3. CASE st.code = "ABORTED" /\ snd' = [snd EXCEPT !.state = "ABORTED"]
    <3>1. snd' \in Sender /\ snd'.id = snd.id /\ snd'.state = "ABORTED" /\ snd'.phase = snd.phase
      BY <1>1, <2>3, Zenon DEF Sender
    <3> QED BY <1>1, <1>3, <2>1, <2>3, <3>1, AbortMoves, Zenon
  <2> QED BY <1>10, <2>2, <2>3, Zenon DEF StatusRefused
<1>11. CASE StatusAccepted(st)
  <2>1. Awaited(st) /\ st.phase = snd.phase /\ st.code = "OK" /\ Acknowledges(st)
    BY <1>11, Zenon DEF StatusAccepted, Current, Answers, Acknowledges
  <2>2. CASE snd' = Failed(snd)
    BY <1>4, <2>1, <2>2, Zenon
  <2>3. CASE snd.phase = "BEGIN" /\ snd' # Failed(snd)
    <3>1. PICK s : s = [snd EXCEPT !.chunk = st.chunk, !.off = st.off]
      BY Zenon
    <3>2. s \in Sender /\ s.id = snd.id /\ s.off = st.off
      BY <1>1, <1>2, <3>1, Zenon DEF Sender
    <3>3. snd' = Continued(s)
      BY <1>11, <2>3, <3>1, Zenon DEF StatusAccepted
    <3> QED BY <1>1, <1>3, <2>1, <2>3, <3>2, <3>3, ContinueMoves, Zenon
  <2>4. CASE snd.phase = "CHUNK" /\ snd' # Failed(snd)
    <3>1. PICK s : s = [snd EXCEPT !.off = st.off, !.acked = TRUE]
      BY Zenon
    <3>2. TRUE \in BOOLEAN
      BY Zenon
    <3>3. s \in Sender /\ s.id = snd.id /\ s.off = st.off
      BY <1>1, <1>2, <3>1, <3>2, Zenon DEF Sender
    <3>4. snd' = Continued(s)
      BY <1>11, <2>4, <3>1, Zenon DEF StatusAccepted
    <3> QED BY <1>1, <1>3, <2>1, <2>4, <3>3, <3>4, ContinueMoves, Zenon
  <2>5. CASE snd.phase = "END" /\ snd' # Failed(snd)
    <3>1. snd' = [snd EXCEPT !.state = "COMPLETED"]
      BY <1>11, <2>5, Zenon DEF StatusAccepted
    <3>2. snd' \in Sender /\ snd'.id = snd.id /\ snd'.state = "COMPLETED" /\ snd'.phase = "END"
      BY <1>1, <2>5, <3>1, Zenon DEF Sender
    <3>3. SenderInv(snd', begun')
      BY <1>1, <1>3, <2>1, <3>2, SenderKept, Zenon
    <3>4. sink.commits[snd.id] > 0
      BY <1>1, <1>3, <2>1, <2>5, Zenon DEF StatusInv
    <3>5. Underway(snd.id)
      BY <2>5, Zenon DEF Underway
    <3> QED BY <1>1, <3>2, <3>3, <3>4, <3>5, Zenon DEF SenderMoved
  <2>6. snd.phase # "ABORT"
    BY <1>1, <2>1, Zenon DEF StatusInv
  <2> QED BY <1>3, <2>1, <2>2, <2>3, <2>4, <2>5, <2>6, Zenon DEF Phase
<1> QED BY <1>5, <1>6, <1>7, <1>8, <1>9, <1>10, <1>11, Zenon DEF OnStatus

\* The sender's own steps
LEMMA LocalMoves ==
    ASSUME Inv, RequestAbort \/ ActionAcquire \/ ActionDefer \/ ActionSubmitted \/ SenderPoll
    PROVE  SenderMoved
<1>1. snd \in Sender /\ begun' = begun /\ snd.retries \in Nat /\ TRUE \in BOOLEAN /\ FALSE \in BOOLEAN
  BY Zenon DEF Inv, RecordInv, SenderInv, Sender, RequestAbort, ActionAcquire, ActionDefer, ActionSubmitted, SenderPoll
<1>2. snd.state # "IDLE"
  BY Zenon DEF RequestAbort, ActionAcquire, ActionDefer, ActionSubmitted, SenderPoll, SenderActive
<1>3. snd.phase # "NONE"
  BY <1>2, Zenon DEF Inv, RecordInv, SenderInv
<1>4. ASSUME snd' \in Sender, snd'.id = snd.id, snd'.state \in {"READY", "WAIT_STATUS"}, snd'.phase = snd.phase,
             snd'.off = snd.off, snd.state \in {"READY", "WAIT_STATUS"}
      PROVE  SenderMoved
  <2>1. SenderInv(snd', begun')
    BY <1>1, <1>2, <1>3, <1>4, SenderKept, Zenon
  <2>2. ordered /\ snd.phase # "ABORT" => snd.off <= sink.reached[snd.id]
    BY <1>4, Zenon DEF Inv, OrderInv, SenderActive
  <2> QED BY <1>1, <1>4, <2>1, <2>2, Zenon DEF SenderMoved, Underway
<1>5. CASE RequestAbort
  <2>1. "ABORT" \in Phase
    BY Zenon DEF Phase
  <2>2. PICK r : r = Prepared(snd, "ABORT")
    BY Zenon
  <2>3. r \in Sender /\ r.state = "READY" /\ r.phase = "ABORT" /\ r.id = snd.id /\ snd' = r
    BY <1>1, <1>5, <2>1, <2>2, PreparedFacts DEF RequestAbort
  <2>4. SenderInv(snd', begun')
    BY <1>1, <1>2, <2>3, SenderKept, Zenon
  <2> QED BY <1>1, <2>3, <2>4, Zenon DEF SenderMoved
<1>6. CASE ActionAcquire
  <2>1. /\ snd' \in Sender /\ snd'.id = snd.id /\ snd'.state = snd.state /\ snd'.phase = snd.phase
        /\ snd'.off = snd.off /\ snd.state = "READY"
    BY <1>1, <1>6, Zenon DEF ActionAcquire, Sender
  <2> QED BY <1>4, <2>1, Zenon
<1>7. CASE ActionDefer
  <2>1. /\ snd' \in Sender /\ snd'.id = snd.id /\ snd'.state = snd.state /\ snd'.phase = snd.phase
        /\ snd'.off = snd.off /\ snd.state = "READY"
    BY <1>1, <1>7, Zenon DEF ActionDefer, Sender
  <2> QED BY <1>4, <2>1, Zenon
<1>8. CASE ActionSubmitted
  <2>1. /\ snd' \in Sender /\ snd'.id = snd.id /\ snd'.state = "WAIT_STATUS" /\ snd'.phase = snd.phase
        /\ snd'.off = snd.off /\ snd.state = "READY"
    BY <1>1, <1>8, Zenon DEF ActionSubmitted, Sender
  <2> QED BY <1>4, <2>1, Zenon
<1>9. CASE SenderPoll
  <2>1. CASE snd' = Failed(snd)
    BY <1>1, <1>2, <2>1, FailureMoves, Zenon
  <2>2. CASE snd' = [snd EXCEPT !.retries = @ + 1, !.state = "READY", !.pause = FALSE]
    <3>1. snd.retries + 1 \in Nat
      BY <1>1
    <3>2. /\ snd' \in Sender /\ snd'.id = snd.id /\ snd'.state = "READY" /\ snd'.phase = snd.phase
          /\ snd'.off = snd.off /\ snd.state = "WAIT_STATUS"
      BY <1>1, <1>9, <2>2, <3>1, ZenonT(60) DEF SenderPoll, Sender
    <3> QED BY <1>4, <3>2, Zenon
  <2> QED BY <1>9, <2>1, <2>2, Zenon DEF SenderPoll
<1> QED BY <1>5, <1>6, <1>7, <1>8, <1>9, Zenon

\* Steps that only the sender takes part in, and what becomes of the Statuses
LEMMA QuietNext ==
    ASSUME Inv, \/ AbortTransfer \/ TakeAction \/ PutBackAction \/ PollSender
                \/ TakeStatus \/ PutBackStatus \/ SubmitStatus
    PROVE  Inv'
<1>1. /\ toReceiver \in Seq(Message) /\ toSender \in Seq(Status)
      /\ out \in Outbound /\ (out.pending => out.status \in Status)
  BY Zenon DEF Inv, RecordInv
<1>2. /\ rcv' = rcv /\ sink' = sink /\ ordered' = ordered /\ resets' = resets /\ outcome' = outcome
      /\ toReceiver' = toReceiver
  BY Zenon DEF AbortTransfer, TakeAction, PutBackAction, PollSender, TakeStatus, PutBackStatus, SubmitStatus,
         StatusAcquire, StatusDefer, StatusRelease, receiver, channel
<1>3. Thinner(toReceiver', toReceiver)
  BY <1>2, Zenon DEF Thinner
<1>4. CASE AbortTransfer \/ TakeAction \/ PutBackAction \/ PollSender
  <2>1. SenderMoved /\ out' = out /\ toSender' = toSender
    BY <1>4, LocalMoves, Zenon DEF AbortTransfer, TakeAction, PutBackAction, PollSender, receiver, channel
  <2>2. Statuses' = Statuses
    BY <2>1, Zenon DEF Statuses
  <2>3. QuietStep
    BY <1>1, <1>2, <1>3, <2>1, <2>2, Zenon DEF QuietStep
  <2> QED BY <2>3, QuietInv, Zenon
<1>5. ASSUME snd' = snd, begun' = begun
      PROVE  SenderMoved
  BY <1>5, SenderStill, Zenon
<1>6. CASE TakeStatus \/ PutBackStatus
  <2>1. /\ snd' = snd /\ begun' = begun /\ toSender' = toSender
        /\ out' = [out EXCEPT !.held = TRUE] \/ out' = [out EXCEPT !.held = FALSE]
    BY <1>6, Zenon DEF TakeStatus, PutBackStatus, StatusAcquire, StatusDefer, channel
  <2>2. TRUE \in BOOLEAN /\ FALSE \in BOOLEAN
    BY Zenon
  <2>3. out' \in Outbound /\ out'.pending = out.pending /\ out'.status = out.status
    BY <1>1, <2>1, <2>2, Zenon DEF Outbound
  <2>4. Statuses' = Statuses
    BY <2>1, <2>3, Zenon DEF Statuses
  <2>5. QuietStep
    BY <1>1, <1>2, <1>3, <1>5, <2>1, <2>3, <2>4, Zenon DEF QuietStep
  <2> QED BY <2>5, QuietInv, Zenon
<1>7. CASE SubmitStatus
  <2>1. /\ snd' = snd /\ begun' = begun /\ out.pending /\ toSender' = Sent(toSender, out.status)
        /\ out' = [pending |-> FALSE, held |-> FALSE, status |-> NoStatus]
    BY <1>7, Zenon DEF SubmitStatus, StatusRelease
  <2>2. FALSE \in BOOLEAN
    BY Zenon
  <2>3. out' \in Outbound /\ out'.pending = FALSE
    BY <2>1, <2>2, Zenon DEF Outbound
  <2>4. PICK q, st, p : q = toSender /\ st = out.status /\ p = Sent(q, st)
    BY Zenon
  <2>5. q \in Seq(Status) /\ st \in Status /\ toSender' = p
    BY <1>1, <2>1, <2>4, Zenon
  <2>6. p \in Seq(Status) /\ \A j \in DOMAIN p : p[j] = st \/ \E i \in DOMAIN q : p[j] = q[i]
    BY <2>4, <2>5, SentFacts
  <2>7. Statuses' \subseteq Statuses
    BY <2>1, <2>3, <2>4, <2>5, <2>6 DEF Statuses
  <2>8. QuietStep
    BY <1>1, <1>2, <1>3, <1>5, <2>1, <2>3, <2>5, <2>6, <2>7, Zenon DEF QuietStep
  <2> QED BY <2>8, QuietInv, Zenon
<1> QED BY <1>4, <1>6, <1>7, Zenon

\* A Status reaches the sender, or is lost; a message is lost.
LEMMA ChannelNext ==
    ASSUME Inv, NEW i, DeliverToSender(i) \/ LoseStatus(i) \/ LoseMessage(i)
    PROVE  Inv'
<1>1. /\ toReceiver \in Seq(Message) /\ toSender \in Seq(Status)
      /\ out \in Outbound /\ (out.pending => out.status \in Status)
  BY Zenon DEF Inv, RecordInv
<1>2. /\ rcv' = rcv /\ sink' = sink /\ out' = out /\ ordered' = ordered /\ resets' = resets /\ outcome' = outcome
  BY Zenon DEF DeliverToSender, LoseStatus, LoseMessage, receiver
<1>3. CASE LoseMessage(i)
  <2>1. PICK p, q : p = toReceiver' /\ q = toReceiver
    BY Zenon
  <2>2. q \in Seq(Message) /\ i \in 1 .. Len(q) /\ p = Without(q, i)
    BY <1>1, <1>3, <2>1, Zenon DEF LoseMessage
  <2>3. /\ p \in Seq(Message)
        /\ \A j \in DOMAIN p : \E k \in DOMAIN q : p[j] = q[k]
        /\ \A j, k \in DOMAIN p : j < k => \E d, e \in DOMAIN q : d < e /\ p[j] = q[d] /\ p[k] = q[e]
    BY <2>2, Thinned
  <2>4. toReceiver' \in Seq(Message) /\ Thinner(toReceiver', toReceiver)
    BY <2>1, <2>3 DEF Thinner
  <2>5. snd' = snd /\ begun' = begun /\ toSender' = toSender
    BY <1>3, Zenon DEF LoseMessage
  <2>6. Statuses' = Statuses
    BY <1>2, <2>5, Zenon DEF Statuses
  <2>7. QuietStep
    BY <1>1, <1>2, <2>4, <2>5, <2>6, SenderStill, Zenon DEF QuietStep
  <2> QED BY <2>7, QuietInv, Zenon
<1>4. CASE DeliverToSender(i) \/ LoseStatus(i)
  <2>1. PICK p, q : p = toSender' /\ q = toSender
    BY Zenon
  <2>2. q \in Seq(Status) /\ i \in 1 .. Len(q) /\ (p = q \/ p = Without(q, i)) /\ toReceiver' = toReceiver
    BY <1>1, <1>4, <2>1, Zenon DEF LoseStatus, DeliverToSender, Deliverable, Rest
  <2>3. p \in Seq(Status) /\ \A j \in DOMAIN p : \E k \in DOMAIN q : p[j] = q[k]
    BY <2>2, Thinned
  <2>4. Statuses' \subseteq Statuses
    BY <1>2, <2>1, <2>3 DEF Statuses
  <2>5. Thinner(toReceiver', toReceiver)
    BY <2>2, Zenon DEF Thinner
  <2>6. SenderMoved
    <3>1. CASE LoseStatus(i)
      BY <3>1, SenderStill, Zenon DEF LoseStatus
    <3>2. CASE DeliverToSender(i)
      <4>1. OnStatus(toSender[i]) /\ toSender[i] \in Statuses
        BY <1>1, <2>1, <2>2, <3>2 DEF DeliverToSender, Statuses
      <4> QED BY <4>1, OnStatusMoves, Zenon
    <3> QED BY <1>4, <3>1, <3>2, Zenon
  <2>7. QuietStep
    BY <1>1, <1>2, <2>1, <2>2, <2>3, <2>4, <2>5, <2>6, Zenon DEF QuietStep
  <2> QED BY <2>7, QuietInv, Zenon
<1> QED BY <1>3, <1>4, Zenon

LEMMA UnderwayBegun ==
    ASSUME RecordInv, NEW t \in Transfers, Underway(t)
    PROVE  t \in begun
<1>1. t # 0
  BY BulkSizes, Zenon
<1> QED BY <1>1, Zenon DEF RecordInv, SenderInv, Underway

LEMMA ActionTyped ==
    ASSUME Inv, snd.state # "IDLE", NEW m, m = ActionMessage
    PROVE  /\ m \in Message /\ m.id = snd.id /\ m.kind = snd.phase
           /\ snd.id \in Transfers /\ snd.id \in begun /\ \A t \in begun : t <= snd.id
<1>1. /\ snd \in Sender /\ snd.phase # "NONE" /\ snd.id \in begun /\ (\A t \in begun : t <= snd.id)
      /\ begun \subseteq Transfers
  BY Zenon DEF Inv, RecordInv, SenderInv
<1>2. snd.phase \in Phase /\ snd.id \in Transfers /\ snd.off \in Nat /\ snd.chunk \in Int
  BY <1>1, Zenon DEF Sender
<1>3. Length[snd.id] \in Nat
  BY <1>2, BulkSizes, Zenon
<1>4. ActionLength \in Int
  BY <1>2, <1>3 DEF ActionLength
<1>5. PICK off, len : off = (IF snd.phase = "CHUNK" THEN snd.off ELSE 0) /\ len = ActionLength
  BY Zenon
<1>6. off \in Nat /\ len \in Int
  BY <1>2, <1>4, <1>5, Zenon
<1>7. m = [kind |-> snd.phase, id |-> snd.id, off |-> off, len |-> len]
  BY <1>5, Zenon DEF ActionMessage
<1>8. m \in Message /\ m.id = snd.id /\ m.kind = snd.phase
  BY <1>2, <1>6, <1>7 DEF Message
<1> QED BY <1>1, <1>2, <1>8, Zenon

LEMMA SubmitInv ==
    ASSUME Inv, SubmitAction
    PROVE  Inv'
<1>1. /\ ActionSubmitted /\ snd.state = "READY" /\ rcv' = rcv /\ sink' = sink /\ out' = out /\ toSender' = toSender
      /\ ordered' = ordered /\ resets' = resets /\ outcome' = outcome /\ begun' = begun
      /\ RecordInv /\ StatusInv
  BY Zenon DEF SubmitAction, ActionSubmitted, receiver, Inv
<1>2. snd' = [snd EXCEPT !.acquired = FALSE, !.state = "WAIT_STATUS", !.pause = FALSE] /\ snd \in Sender
  BY <1>1, Zenon DEF ActionSubmitted, RecordInv, SenderInv
<1>3. snd'.id = snd.id /\ snd'.phase = snd.phase /\ snd'.off = snd.off /\ snd'.state = "WAIT_STATUS"
  BY <1>2, Zenon DEF Sender
<1>4. SenderInv(snd', begun')
  BY <1>1, LocalMoves, Zenon DEF SenderMoved
<1>5. PICK m, q, p : m = ActionMessage /\ q = toReceiver /\ p = Sent(q, m)
  BY Zenon
<1>6. /\ m \in Message /\ m.id = snd.id /\ m.kind = snd.phase
      /\ snd.id \in Transfers /\ snd.id \in begun /\ \A t \in begun : t <= snd.id
  BY <1>1, <1>5, ActionTyped, Zenon
<1>7. q \in Seq(Message) /\ toReceiver' = p
  BY <1>1, <1>5, Zenon DEF SubmitAction, RecordInv
<1>8. /\ p \in Seq(Message)
      /\ \A j \in DOMAIN p : p[j] = m \/ \E i \in DOMAIN q : p[j] = q[i]
      /\ ordered => p = q \/ p = Append(q, m)
  <2>1. q \in Seq(Message) /\ m \in Message /\ p = Sent(q, m)
    BY <1>5, <1>6, <1>7, Zenon
  <2>2. p \in Seq(Message) /\ \A j \in DOMAIN p : p[j] = m \/ \E i \in DOMAIN q : p[j] = q[i]
    BY <2>1, SentFacts
  <2>3. ordered => p = q \/ p = Append(q, m)
    BY <1>5, Zenon DEF Sent
  <2> QED BY <2>2, <2>3, Zenon
<1>9. Statuses' = Statuses
  BY <1>1, Zenon DEF Statuses
<1>10. /\ \A i \in DOMAIN q : q[i].id \in begun
       /\ rcv.id # 0 => rcv.id \in begun
  BY <1>1, <1>5, Zenon DEF RecordInv
<1>11. RecordInv'
  <2>1. \A j \in DOMAIN p : p[j].id \in begun
    BY <1>6, <1>8, <1>10, Zenon
  <2>2. \A st \in Statuses' : st.id \in begun'
    BY <1>1, <1>9, Zenon DEF RecordInv
  <2>3. \A t \in Transfers : outcome'[t] # "NONE" => t \in begun' /\ (snd'.id # 0 => t < snd'.id)
    BY <1>1, <1>3, Zenon DEF RecordInv
  <2>4. /\ ReceiverInv(rcv', sink') /\ out' \in Outbound /\ (out'.pending => out'.status \in Status)
        /\ toSender' \in Seq(Status) /\ (rcv'.id # 0 => rcv'.id \in begun')
        /\ (\A t \in Transfers : sink'.commits[t] > 0 => t \in begun') /\ resets' \in Nat
        /\ outcome' \in [Transfers -> {"NONE", "COMPLETED", "ABORTED", "FAILED"}]
    BY <1>1, Zenon DEF RecordInv
  <2> QED BY <1>1, <1>4, <1>7, <1>8, <2>1, <2>2, <2>3, <2>4, Zenon DEF RecordInv
<1>12. StatusInv'
  BY <1>1, <1>3, <1>9, Zenon DEF StatusInv
<1>13. ASSUME ordered
       PROVE  OrderInv'
  <2>1. OrderInv
    BY <1>13, Zenon DEF Inv
  <2>2. /\ \A t \in Transfers : t \in Nat
        /\ rcv.id \in Nat /\ snd.id \in Nat
        /\ \A i \in DOMAIN q : q[i].id \in Transfers
    BY <1>1, <1>5, IdsAreNat, Zenon
  <2>3. \A i \in DOMAIN q : q[i].id <= snd.id
    BY <1>6, <1>10, Zenon
  <2>4. rcv.id <= snd.id
    BY <1>6, <1>10, <2>2
  <2>5. ASSUME NEW i \in DOMAIN p, NEW j \in DOMAIN p, i < j
        PROVE  p[i].id <= p[j].id
    <3>1. \A d, e \in DOMAIN q : d < e => q[d].id <= q[e].id
      BY <1>5, <2>1, Zenon DEF OrderInv
    <3>2. CASE p = q
      BY <2>5, <3>1, <3>2, Zenon
    <3>3. CASE p = Append(q, m)
      <4>1. /\ Len(q) \in Nat /\ DOMAIN q = 1 .. Len(q) /\ DOMAIN p = 1 .. Len(q) + 1
            /\ p[Len(q) + 1] = m /\ \A d \in 1 .. Len(q) : p[d] = q[d]
        BY <1>6, <1>7, <3>3
      <4>2. i \in DOMAIN q /\ p[i] = q[i]
        BY <2>5, <4>1
      <4>3. CASE j = Len(q) + 1
        BY <1>6, <2>3, <4>1, <4>2, <4>3, Zenon
      <4>4. CASE j # Len(q) + 1
        <5>1. j \in DOMAIN q /\ p[j] = q[j]
          BY <4>1, <4>4
        <5> QED BY <2>5, <3>1, <4>2, <5>1, Zenon
      <4> QED BY <4>3, <4>4, Zenon
    <3> QED BY <1>8, <1>13, <3>2, <3>3, Zenon
  <2>6. \A i \in DOMAIN p : rcv.id <= p[i].id
    BY <1>5, <1>6, <1>8, <2>1, <2>4 DEF OrderInv
  <2>7. ASSUME NEW t \in Transfers, Underway(t)'
        PROVE  Underway(t)
    <3>1. CASE snd'.id = t /\ snd'.phase \in {"CHUNK", "END"}
      BY <1>3, <3>1, Zenon DEF Underway
    <3>2. CASE \E i \in DOMAIN p : p[i].id = t /\ p[i].kind = "CHUNK"
      BY <1>5, <1>6, <1>8, <3>2 DEF Underway
    <3>3. CASE \E st \in Statuses' : st.id = t /\ st.phase = "BEGIN" /\ Acknowledges(st)
      BY <1>9, <3>3, Zenon DEF Underway
    <3> QED BY <1>7, <2>7, <3>1, <3>2, <3>3, Zenon DEF Underway, Acknowledges
  <2>8. ASSUME NEW t \in Transfers, Underway(t)'
        PROVE  /\ rcv.id = 0 \/ t <= rcv.id
               /\ \A i \in DOMAIN p : t <= p[i].id
               /\ rcv.id = t => rcv.off <= sink.reached[t]
    <3>1. Underway(t) /\ t <= snd.id
      BY <1>1, <1>6, <2>7, <2>8, UnderwayBegun, Zenon
    <3>2. /\ rcv.id = 0 \/ t <= rcv.id
          /\ \A i \in DOMAIN q : t <= q[i].id
          /\ rcv.id = t => rcv.off <= sink.reached[t]
      BY <1>5, <2>1, <3>1, Zenon DEF OrderInv
    <3>3. \A i \in DOMAIN p : t <= p[i].id
      BY <1>6, <1>8, <3>1, <3>2, Zenon
    <3> QED BY <3>2, <3>3, Zenon
  <2>9. \A st \in Statuses' : Acknowledges(st) => st.off <= sink'.reached[st.id]
    BY <1>1, <1>9, <2>1, Zenon DEF OrderInv
  <2>10. SenderActive' /\ snd'.phase # "ABORT" => snd'.off <= sink'.reached[snd'.id]
    BY <1>1, <1>3, <2>1, Zenon DEF OrderInv, SenderActive
  <2> QED BY <1>1, <1>7, <2>5, <2>6, <2>8, <2>9, <2>10, Zenon DEF OrderInv, Acknowledges
<1>14. ASSUME ordered, resets = 0
       PROVE  OnceInv'
  <2>1. OnceInv
    BY <1>14, Zenon DEF Inv
  <2>2. ASSUME NEW t, NoEnd(t), m.kind # "END" \/ t # m.id
        PROVE  NoEnd(t)'
    <3>1. \A i \in DOMAIN q : ~(q[i].id = t /\ q[i].kind = "END")
      BY <1>5, <2>2, Zenon DEF NoEnd
    <3>2. \A i \in DOMAIN p : ~(p[i].id = t /\ p[i].kind = "END")
      BY <1>8, <2>2, <3>1, Zenon
    <3> QED BY <1>1, <1>7, <2>2, <3>2, Zenon DEF NoEnd
  <2>3. ASSUME NEW t, Buried(t)
        PROVE  Buried(t)'
    BY <1>1, <2>3, Zenon DEF Buried
  <2>4. snd'.id # 0 /\ snd'.phase \in {"BEGIN", "CHUNK"} => NoEnd(snd.id)'
    <3>1. PICK u : u = snd.id
      BY Zenon
    <3>2. snd'.id # 0 /\ snd'.phase \in {"BEGIN", "CHUNK"} => NoEnd(u)'
      BY <1>3, <1>6, <2>1, <2>2, <3>1, Zenon DEF OnceInv
    <3> QED BY <1>3, <3>1, <3>2, Zenon DEF NoEnd
  <2>5. \A t \in Transfers : outcome'[t] = "ABORTED" => (NoEnd(t) \/ Buried(t))'
    <3>1. ASSUME NEW t \in Transfers, outcome[t] = "ABORTED"
          PROVE  (NoEnd(t) \/ Buried(t))'
      <4>1. snd.id # 0
        BY <1>6, BulkSizes, Zenon
      <4>2. t < snd.id /\ t \in Nat /\ snd.id \in Nat
        BY <1>1, <3>1, <4>1, IdsAreNat, Zenon DEF RecordInv
      <4>3. t # m.id
        BY <1>6, <4>2
      <4> QED BY <2>1, <2>2, <2>3, <3>1, <4>3, Zenon DEF OnceInv
    <3> QED BY <1>1, <3>1, Zenon
  <2>6. \A st \in Statuses' : st.code = "ABORTED" /\ st.phase \in {"END", "ABORT"} => Buried(st.id)'
    BY <1>9, <2>1, <2>3, Zenon DEF OnceInv
  <2>7. \A t \in Transfers : /\ sink'.commits[t] <= 1
                             /\ sink'.commits[t] > 0 => t < rcv'.id \/ (rcv'.id = t /\ rcv'.state = "COMPLETED")
    BY <1>1, <2>1, Zenon DEF OnceInv
  <2> QED BY <1>3, <2>4, <2>5, <2>6, <2>7, Zenon DEF OnceInv
<1> QED BY <1>1, <1>11, <1>12, <1>13, <1>14, Zenon DEF Inv

\* A sender that starts uses an identity nothing else has used.
LEMMA StartInv ==
    ASSUME Inv, NEW t \in Transfers, StartTransfer(t)
    PROVE  Inv'
<1>1. /\ snd.state = "IDLE" /\ (\A used \in begun : used < t) /\ begun' = begun \cup {t}
      /\ snd' = Prepared([Resting EXCEPT !.id = t], "BEGIN")
      /\ rcv' = rcv /\ sink' = sink /\ out' = out /\ toReceiver' = toReceiver /\ toSender' = toSender
      /\ ordered' = ordered /\ resets' = resets /\ outcome' = outcome /\ RecordInv /\ StatusInv
  BY Zenon DEF StartTransfer, Start, receiver, channel, Inv
<1>2. PICK s : s = [Resting EXCEPT !.id = t]
  BY Zenon
<1>3. FALSE \in BOOLEAN /\ 0 \in Nat /\ 0 \in Int /\ "BEGIN" \in Phase
  BY DEF Phase
<1>4. s \in Sender /\ s.id = t /\ s.off = 0
  BY <1>2, <1>3, Zenon DEF Resting, Sender
<1>5. snd' \in Sender /\ snd'.state = "READY" /\ snd'.phase = "BEGIN" /\ snd'.id = t /\ snd'.off = 0
  <2>1. PICK r : r = Prepared(s, "BEGIN")
    BY Zenon
  <2>2. r \in Sender /\ r.state = "READY" /\ r.phase = "BEGIN" /\ r.id = t /\ r.off = 0
    BY <1>3, <1>4, <2>1, PreparedFacts
  <2> QED BY <1>1, <1>2, <2>1, <2>2, Zenon
<1>6. Statuses' = Statuses
  BY <1>1, Zenon DEF Statuses
<1>7. /\ begun \subseteq Transfers /\ t \in Nat /\ t # 0 /\ t \notin begun
      /\ \A u \in Transfers : u \in Nat
  <2>1. begun \subseteq Transfers
    BY <1>1, Zenon DEF RecordInv, SenderInv
  <2>2. t \in Nat /\ t # 0 /\ \A u \in Transfers : u \in Nat
    BY BulkSizes, Zenon
  <2>3. t \notin begun
    BY <1>1, <2>2
  <2> QED BY <2>1, <2>2, <2>3, Zenon
<1>8. SenderInv(snd', begun')
  <2>1. begun' \subseteq Transfers /\ t \in begun'
    BY <1>1, <1>7, Zenon
  <2>2. \A u \in begun' : u <= t
    BY <1>1, <1>7
  <2> QED BY <1>5, <1>7, <2>1, <2>2, Zenon DEF SenderInv
<1>9. RecordInv'
  <2>1. /\ \A i \in DOMAIN toReceiver' : toReceiver'[i].id \in begun'
        /\ \A st \in Statuses' : st.id \in begun'
        /\ rcv'.id # 0 => rcv'.id \in begun'
        /\ \A u \in Transfers : sink'.commits[u] > 0 => u \in begun'
    BY <1>1, <1>6, Zenon DEF RecordInv
  <2>2. \A u \in Transfers : outcome'[u] # "NONE" => u \in begun' /\ (snd'.id # 0 => u < snd'.id)
    BY <1>1, <1>5, Zenon DEF RecordInv
  <2>3. /\ ReceiverInv(rcv', sink') /\ out' \in Outbound /\ (out'.pending => out'.status \in Status)
        /\ toReceiver' \in Seq(Message) /\ toSender' \in Seq(Status) /\ resets' \in Nat
        /\ outcome' \in [Transfers -> {"NONE", "COMPLETED", "ABORTED", "FAILED"}]
    BY <1>1, Zenon DEF RecordInv
  <2> QED BY <1>8, <2>1, <2>2, <2>3, Zenon DEF RecordInv
<1>10. StatusInv'
  BY <1>1, <1>5, <1>6, Zenon DEF StatusInv
<1>11. ASSUME ordered
       PROVE  OrderInv'
  <2>1. OrderInv
    BY <1>11, Zenon DEF Inv
  <2>2. \A u \in Transfers : Underway(u)' => Underway(u)
    BY <1>1, <1>5, <1>6, Zenon DEF Underway, Acknowledges
  <2>3. sink.reached[t] \in Nat
    BY <1>1, IdsAreNat, Zenon
  <2>4. SenderActive' /\ snd'.phase # "ABORT" => snd'.off <= sink'.reached[snd'.id]
    BY <1>1, <1>5, <2>3
  <2>5. \A u \in Transfers : Underway(u)' =>
          /\ rcv'.id = 0 \/ u <= rcv'.id
          /\ \A i \in DOMAIN toReceiver' : u <= toReceiver'[i].id
          /\ rcv'.id = u => rcv'.off <= sink'.reached[u]
    BY <1>1, <2>1, <2>2, Zenon DEF OrderInv
  <2>6. /\ \A i, j \in DOMAIN toReceiver' : i < j => toReceiver'[i].id <= toReceiver'[j].id
        /\ \A i \in DOMAIN toReceiver' : rcv'.id <= toReceiver'[i].id
        /\ \A st \in Statuses' : Acknowledges(st) => st.off <= sink'.reached[st.id]
    BY <1>1, <1>6, <2>1, Zenon DEF OrderInv
  <2> QED BY <2>4, <2>5, <2>6, Zenon DEF OrderInv, Acknowledges
<1>12. ASSUME ordered, resets = 0
       PROVE  OnceInv'
  <2>1. OnceInv
    BY <1>12, Zenon DEF Inv
  <2>2. ASSUME NEW u
        PROVE  NoEnd(u)' = NoEnd(u) /\ Buried(u)' = Buried(u)
    BY <1>1, Zenon DEF NoEnd, Buried
  <2>3. NoEnd(t)
    <3>1. sink.commits[t] \in 0 .. 2 /\ ~(sink.commits[t] > 0)
      BY <1>1, <1>7, IdsAreNat, Zenon DEF RecordInv
    <3>2. \A i \in DOMAIN toReceiver : toReceiver[i].id # t
      BY <1>1, <1>7, Zenon DEF RecordInv
    <3> QED BY <3>1, <3>2 DEF NoEnd
  <2>4. NoEnd(snd.id)'
    BY <1>1, <1>5, <2>3, Zenon DEF NoEnd
  <2>5. \A u \in Transfers : outcome'[u] = "ABORTED" => (NoEnd(u) \/ Buried(u))'
    BY <1>1, <2>1, <2>2, Zenon DEF OnceInv
  <2>6. \A st \in Statuses' : st.code = "ABORTED" /\ st.phase \in {"END", "ABORT"} => Buried(st.id)'
    BY <1>6, <2>1, <2>2, Zenon DEF OnceInv
  <2>7. \A u \in Transfers : /\ sink'.commits[u] <= 1
                             /\ sink'.commits[u] > 0 => u < rcv'.id \/ (rcv'.id = u /\ rcv'.state = "COMPLETED")
    BY <1>1, <2>1, Zenon DEF OnceInv
  <2> QED BY <1>5, <2>4, <2>5, <2>6, <2>7, Zenon DEF OnceInv
<1> QED BY <1>1, <1>9, <1>10, <1>11, <1>12, Zenon DEF Inv

\* A transfer that ends leaves its outcome.
LEMMA EndInv ==
    ASSUME Inv, EndTransfer
    PROVE  Inv'
<1>1. /\ snd' = Resting /\ begun' = begun /\ ~SenderActive
      /\ outcome' = IF snd.id = 0 THEN outcome ELSE [outcome EXCEPT ![snd.id] = snd.state]
      /\ rcv' = rcv /\ sink' = sink /\ out' = out /\ toReceiver' = toReceiver /\ toSender' = toSender
      /\ ordered' = ordered /\ resets' = resets /\ RecordInv /\ StatusInv
  BY Zenon DEF EndTransfer, SenderReset, receiver, channel, Inv
<1>2. FALSE \in BOOLEAN /\ 0 \in Nat /\ 0 \in Int
  OBVIOUS
<1>3. snd' \in Sender /\ snd'.state = "IDLE" /\ snd'.phase = "NONE" /\ snd'.id = 0
  BY <1>1, <1>2, Zenon DEF Resting, Sender
<1>4. Statuses' = Statuses
  BY <1>1, Zenon DEF Statuses
<1>5. SenderInv(snd', begun')
  BY <1>1, <1>3, Zenon DEF RecordInv, SenderInv
<1>6. /\ snd \in Sender /\ (snd.id # 0 => snd.id \in Transfers /\ snd.id \in begun)
      /\ snd.id # 0 => snd.state \in {"COMPLETED", "ABORTED", "FAILED"}
      /\ outcome \in [Transfers -> {"NONE", "COMPLETED", "ABORTED", "FAILED"}]
  BY <1>1, Zenon DEF RecordInv, SenderInv, Sender, SenderActive
<1>7. /\ outcome' \in [Transfers -> {"NONE", "COMPLETED", "ABORTED", "FAILED"}]
      /\ \A t \in Transfers : outcome'[t] = outcome[t] \/ (snd.id # 0 /\ t = snd.id /\ outcome'[t] = snd.state)
  BY <1>1, <1>6, Zenon
<1>8. RecordInv'
  <2>1. \A t \in Transfers : outcome'[t] # "NONE" => t \in begun'
    BY <1>1, <1>6, <1>7, Zenon DEF RecordInv
  <2> QED BY <1>1, <1>3, <1>4, <1>5, <1>7, <2>1, Zenon DEF RecordInv
<1>9. StatusInv'
  BY <1>1, <1>3, <1>4, <1>7, Zenon DEF StatusInv
<1>10. ASSUME ordered
       PROVE  OrderInv'
  <2>1. OrderInv
    BY <1>10, Zenon DEF Inv
  <2>2. \A u \in Transfers : Underway(u)' => Underway(u)
    BY <1>1, <1>3, <1>4, Zenon DEF Underway, Acknowledges
  <2>3. ~SenderActive'
    BY <1>3, Zenon DEF SenderActive
  <2>4. \A u \in Transfers : Underway(u)' =>
          /\ rcv'.id = 0 \/ u <= rcv'.id
          /\ \A i \in DOMAIN toReceiver' : u <= toReceiver'[i].id
          /\ rcv'.id = u => rcv'.off <= sink'.reached[u]
    BY <1>1, <2>1, <2>2, Zenon DEF OrderInv
  <2>5. /\ \A i, j \in DOMAIN toReceiver' : i < j => toReceiver'[i].id <= toReceiver'[j].id
        /\ \A i \in DOMAIN toReceiver' : rcv'.id <= toReceiver'[i].id
        /\ \A st \in Statuses' : Acknowledges(st) => st.off <= sink'.reached[st.id]
    BY <1>1, <1>4, <2>1, Zenon DEF OrderInv
  <2> QED BY <2>3, <2>4, <2>5, Zenon DEF OrderInv, Acknowledges
<1>11. ASSUME ordered, resets = 0
       PROVE  OnceInv'
  <2>1. OnceInv
    BY <1>11, Zenon DEF Inv
  <2>2. ASSUME NEW u
        PROVE  NoEnd(u)' = NoEnd(u) /\ Buried(u)' = Buried(u)
    BY <1>1, Zenon DEF NoEnd, Buried
  <2>3. \A u \in Transfers : outcome'[u] = "ABORTED" => NoEnd(u) \/ Buried(u)
    BY <1>7, <2>1, Zenon DEF OnceInv
  <2>4. \A u \in Transfers : outcome'[u] = "ABORTED" => (NoEnd(u) \/ Buried(u))'
    BY <2>2, <2>3, Zenon
  <2>5. \A st \in Statuses' : st.code = "ABORTED" /\ st.phase \in {"END", "ABORT"} => Buried(st.id)'
    BY <1>4, <2>1, <2>2, Zenon DEF OnceInv
  <2>6. \A u \in Transfers : /\ sink'.commits[u] <= 1
                             /\ sink'.commits[u] > 0 => u < rcv'.id \/ (rcv'.id = u /\ rcv'.state = "COMPLETED")
    BY <1>1, <2>1, Zenon DEF OnceInv
  <2> QED BY <1>3, <2>4, <2>5, <2>6, Zenon DEF OnceInv
<1> QED BY <1>1, <1>8, <1>9, <1>10, <1>11, Zenon DEF Inv

\* A reset forgets the receiver's record, never what the sink has done.
LEMMA ResetInv ==
    ASSUME Inv, ResetReceiver
    PROVE  Inv'
<1>1. /\ rcv' = Vacant /\ sink' = Vacated /\ out' = [pending |-> FALSE, held |-> FALSE, status |-> NoStatus]
      /\ resets' = resets + 1 /\ snd' = snd /\ begun' = begun /\ toReceiver' = toReceiver /\ toSender' = toSender
      /\ ordered' = ordered /\ outcome' = outcome /\ RecordInv /\ StatusInv /\ ReceiverInv(rcv, sink)
  BY Zenon DEF ResetReceiver, ReceiverReset, channel, Inv, RecordInv
<1>2. PICK k : k = Vacated
  BY Zenon
<1>3. k \in Sink /\ k.open = 0 /\ k.reached = sink.reached /\ k.commits = sink.commits /\ sink' = k
  BY <1>1, <1>2, VacatedFacts, Zenon
<1>4. FALSE \in BOOLEAN /\ 0 \in Nat /\ 0 \in Int /\ "OK" \in Code
  BY DEF Code
<1>5. rcv' \in Receiver /\ rcv'.state = "IDLE" /\ rcv'.id = 0 /\ rcv'.off = 0 /\ rcv'.sink = FALSE
  BY <1>1, <1>4, Zenon DEF Vacant, Receiver
<1>6. out' \in Outbound /\ out'.pending = FALSE
  BY <1>1, <1>4, Zenon DEF Outbound
<1>7. Statuses' \subseteq Statuses
  BY <1>1, <1>6, Zenon DEF Statuses
<1>8. ReceiverInv(rcv', sink')
  BY <1>3, <1>5, Zenon DEF ReceiverInv
<1>9. resets' \in Nat /\ resets' # 0
  BY <1>1 DEF RecordInv
<1>10. RecordInv'
  <2>1. /\ \A st \in Statuses' : st.id \in begun'
        /\ \A t \in Transfers : sink'.commits[t] > 0 => t \in begun'
    BY <1>1, <1>3, <1>7, Zenon DEF RecordInv
  <2>2. /\ SenderInv(snd', begun') /\ toReceiver' \in Seq(Message) /\ toSender' \in Seq(Status)
        /\ \A i \in DOMAIN toReceiver' : toReceiver'[i].id \in begun'
        /\ outcome' \in [Transfers -> {"NONE", "COMPLETED", "ABORTED", "FAILED"}]
        /\ \A t \in Transfers : outcome'[t] # "NONE" => t \in begun' /\ (snd'.id # 0 => t < snd'.id)
    BY <1>1, Zenon DEF RecordInv
  <2> QED BY <1>5, <1>6, <1>8, <1>9, <2>1, <2>2, Zenon DEF RecordInv
<1>11. StatusInv'
  BY <1>1, <1>3, <1>7, Zenon DEF StatusInv
<1>12. ASSUME ordered
       PROVE  OrderInv'
  <2>1. OrderInv
    BY <1>12, Zenon DEF Inv
  <2>2. \A u \in Transfers : Underway(u)' => Underway(u)
    BY <1>1, <1>7, Zenon DEF Underway, Acknowledges
  <2>3. \A i \in DOMAIN toReceiver' : rcv'.id <= toReceiver'[i].id
    BY <1>1, <1>5, IdsAreNat
  <2>4. \A u \in Transfers : Underway(u)' =>
          /\ rcv'.id = 0
          /\ \A i \in DOMAIN toReceiver' : u <= toReceiver'[i].id
          /\ rcv'.id # u
    BY <1>1, <1>5, <2>1, <2>2, BulkSizes, Zenon DEF OrderInv
  <2>5. /\ \A i, j \in DOMAIN toReceiver' : i < j => toReceiver'[i].id <= toReceiver'[j].id
        /\ \A st \in Statuses' : Acknowledges(st) => st.off <= sink'.reached[st.id]
        /\ SenderActive' /\ snd'.phase # "ABORT" => snd'.off <= sink'.reached[snd'.id]
    BY <1>1, <1>3, <1>7, <2>1, Zenon DEF OrderInv, SenderActive
  <2> QED BY <2>3, <2>4, <2>5, Zenon DEF OrderInv, Acknowledges
<1> QED BY <1>1, <1>9, <1>10, <1>11, <1>12, Zenon DEF Inv

-----------------------------------------------------------------------------
LEMMA InitInv ==
    ASSUME BulkInit
    PROVE  Inv
<1>1. FALSE \in BOOLEAN /\ 0 \in Nat /\ 0 \in Int /\ "OK" \in Code
  BY DEF Code
<1>2. snd \in Sender /\ snd.state = "IDLE" /\ snd.id = 0 /\ snd.phase = "NONE" /\ begun = {}
  BY <1>1, Zenon DEF BulkInit, SenderInit, Resting, Sender
<1>3. rcv \in Receiver /\ rcv.state = "IDLE" /\ rcv.id = 0 /\ rcv.off = 0 /\ rcv.sink = FALSE
  BY <1>1, Zenon DEF BulkInit, ReceiverInit, Vacant, Receiver
<1>4. out \in Outbound /\ out.pending = FALSE
  BY <1>1, Zenon DEF BulkInit, ReceiverInit, Outbound
<1>5. sink \in Sink /\ sink.open = 0 /\ \A t \in Transfers : sink.commits[t] = 0
  <2>1. PICK f : f = [t \in Transfers |-> 0]
    BY Zenon
  <2>2. f \in [Transfers -> Nat] /\ f \in [Transfers -> 0 .. 2] /\ \A t \in Transfers : f[t] = 0
    BY <2>1
  <2>3. sink = [open |-> 0, stored |-> 0, reached |-> f, commits |-> f]
    BY <2>1, Zenon DEF BulkInit, ReceiverInit
  <2> QED BY <2>2, <2>3, Zenon DEF Sink
<1>6. toReceiver = <<>> /\ toSender = <<>> /\ resets = 0 /\ outcome = [t \in Transfers |-> "NONE"]
  BY Zenon DEF BulkInit
<1>7. Statuses = {}
  BY <1>4, <1>6 DEF Statuses
<1>8. ReceiverInv(rcv, sink) /\ SenderInv(snd, begun)
  BY <1>2, <1>3, <1>5, Zenon DEF ReceiverInv, SenderInv
<1>9. toReceiver \in Seq(Message) /\ toSender \in Seq(Status) /\ DOMAIN toReceiver = {}
  BY <1>6
<1>10. /\ outcome \in [Transfers -> {"NONE", "COMPLETED", "ABORTED", "FAILED"}]
       /\ \A t \in Transfers : outcome[t] = "NONE"
  BY <1>6, Zenon
<1>11. RecordInv
  BY <1>3, <1>4, <1>5, <1>6, <1>7, <1>8, <1>9, <1>10 DEF RecordInv
<1>12. StatusInv
  BY <1>2, <1>7, <1>10, Zenon DEF StatusInv
<1>13. OrderInv
  BY <1>2, <1>7, <1>9, Zenon DEF OrderInv, Underway, SenderActive
<1>14. OnceInv
  BY <1>2, <1>5, <1>7, <1>10 DEF OnceInv
<1> QED BY <1>11, <1>12, <1>13, <1>14, Zenon DEF Inv

LEMMA NextInv ==
    ASSUME Inv, [BulkNext]_bulkVars
    PROVE  Inv'
<1>1. CASE UNCHANGED bulkVars
  BY <1>1 DEF bulkVars, Inv, RecordInv, StatusInv, OrderInv, OnceInv, Statuses, Underway, Acknowledges, NoEnd,
              Buried, SenderActive
<1>2. CASE BulkNext
  <2>1. CASE \E t \in Transfers : StartTransfer(t)
    BY <2>1, StartInv, Zenon
  <2>2. CASE AbortTransfer \/ TakeAction \/ PutBackAction \/ PollSender \/ TakeStatus \/ PutBackStatus \/ SubmitStatus
    BY <2>2, QuietNext, Zenon
  <2>3. CASE EndTransfer
    BY <2>3, EndInv, Zenon
  <2>4. CASE SubmitAction
    BY <2>4, SubmitInv, Zenon
  <2>5. CASE PollReceiver
    BY <2>5, PollReceiverInv, Zenon
  <2>6. CASE ResetReceiver
    BY <2>6, ResetInv, Zenon
  <2>7. CASE \E i \in 1 .. InFlight : DeliverToReceiver(i)
    BY <2>7, DeliverToReceiverInv, Zenon
  <2>8. CASE \E i \in 1 .. InFlight : DeliverToSender(i) \/ LoseStatus(i) \/ LoseMessage(i)
    BY <2>8, ChannelNext, Zenon
  <2> QED BY <1>2, <2>1, <2>2, <2>3, <2>4, <2>5, <2>6, <2>7, <2>8, Zenon DEF BulkNext
<1> QED BY <1>1, <1>2, Zenon

\* The records of both halves, the sink and what is on its way agree in every state.
THEOREM InvariantHolds == BulkSpec => []Inv
<1>1. BulkInit => Inv
  BY InitInv, Zenon
<1>2. Inv /\ [BulkNext]_bulkVars => Inv'
  BY NextInv, Zenon
<1> QED BY <1>1, <1>2, PTL DEF BulkSpec

\* The session the sink has open is the one the receiver will close, and it holds the bytes
\* the receiver counts, for any objects and whatever the sink and the channel do.
THEOREM SinkStaysInStep == BulkSpec => []SinkInStep
<1>1. Inv => SinkInStep
  BY Zenon DEF Inv, RecordInv, ReceiverInv, SinkInStep
<1> QED BY <1>1, InvariantHolds, PTL

\* An object reported COMPLETED is committed, on any channel; on an ordered one the offset
\* the sender continues from is stored.
THEOREM CompletionIsTrue == BulkSpec => []CompletedIsStored
<1>1. Inv => CompletedIsStored
  BY Zenon DEF Inv, StatusInv, OrderInv, CompletedIsStored
<1> QED BY <1>1, InvariantHolds, PTL

\* On an ordered channel with no reset, an object is committed at most once, and not at all
\* when its sender was told of its abort.
THEOREM CommittedAtMostOnce == BulkSpec => []CommitOnce
<1>1. Inv => CommitOnce
  BY Zenon DEF Inv, OnceInv, NoEnd, Buried, CommitOnce
<1> QED BY <1>1, InvariantHolds, PTL
=============================================================================
