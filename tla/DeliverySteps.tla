--------------------------- MODULE DeliverySteps ----------------------------
(***************************************************************************)
(* What one step of either context of the pair does to requests and units: *)
(* the first half of the argument that the pair implements Delivery, which *)
(* the module DeliveryProofs completes.                                    *)
(*                                                                         *)
(* Whatever context a puts on the line carries the identity of its newest  *)
(* request (AMoves).  Context b makes an ACK only of a unit its            *)
(* application has got or will get from the same poll (BMoves).            *)
(***************************************************************************)
EXTENDS LinkPair, TLAPS

-----------------------------------------------------------------------------
(* Identities in the order they are made: by session, then by number *)

Lt(x, y) == x.sid < y.sid \/ (x.sid = y.sid /\ x.seq < y.seq)
Le(x, y) == x.sid < y.sid \/ (x.sid = y.sid /\ x.seq <= y.seq)

NoneYet == [sid |-> 0, seq |-> 0]
LineId == [sid : Nat, seq : Nat]
LineUnit == [kind : {"REL", "UNREL", "ACK", "BAD"}, id : LineId, body : Int]

Open(t) == t.state \in {"SENDING", "WAITING_ACK"}

\* The newest request, or no identity at all.
Newest == IF asked = <<>> THEN NoneYet ELSE asked[Len(asked)]

\* The reliable units of s carry identity p.
Carries(s, p) == \A k \in DOMAIN s : s[k].kind = "REL" => s[k].id = p /\ p.sid # 0

\* Units leave the front of a queue, or all of it.
Shrinks(s, t) == t \in {s, <<>>} \/ (s # <<>> /\ t = Tail(s))

-----------------------------------------------------------------------------
(* Context a, which makes one request at a time and sends nothing else *)

\* What is open, waits or is with the adapter belongs to request q.
Sends(q) ==
    /\ a_io.inflight \/ a_io.queued => a_io.reliable
    /\ a_io.claim = "NONE"
    /\ Open(a_tx) => q = [sid |-> a_serial.session, seq |-> a_tx.seq]
    /\ A!ReliableLease(a_io) => a_mem.unit.id = q /\ q.sid # 0

\* What the invariants of Link say of context a.
AOk ==
    /\ a_tx \in A!TxType /\ a_io \in A!IoType /\ a_ctl \in A!CtlType /\ a_mem \in A!MemType
    /\ a_rx \in A!RxType /\ a_event \in A!Event
    /\ a_serial \in [session : Nat \ {0}, seq : 0 .. SeqMax, gen : 0 .. SeqMax]
    /\ a_wire \in Seq(A!Frame)
    /\ \A k \in DOMAIN a_wire : a_wire[k].kind = "REL" => a_wire[k].body = a_wire[k].id.seq
    /\ a_tx.handle = 0 => a_tx.state = "IDLE"
    /\ ~(a_io.inflight /\ a_io.queued)
    /\ ~(a_io.inflight /\ a_ctl.inflight)
    /\ a_tx.state = "SENDING" => A!ReliableLease(a_io) \/ (a_io.queued /\ a_io.reliable)
    /\ a_io.queued /\ a_io.reliable => a_tx.state = "SENDING"
    /\ Open(a_tx) => /\ A!Retained(a_mem) = a_tx.seq
                     /\ a_mem.encoded => a_mem.unit.id = [sid |-> a_serial.session, seq |-> a_tx.seq]
    /\ A!ReliableLease(a_io) /\ a_tx.state = "SENDING" => a_mem.encoded

\* A step of a leaves request p the newest: it makes p, or it belongs to the request q
\* that was the newest already.
Asks == a_tx'.handle # 0 /\ a_tx'.handle # a_tx.handle
Settles(q) ==
    \/ a_tx'.state = a_tx.state
    \/ Open(a_tx) /\ Open(a_tx')
    \/ Open(a_tx) /\ a_tx'.state \in {"FAILED", "CANCELLED"}
    \/ /\ Open(a_tx) /\ a_tx'.state = "SUCCESS"
       /\ a_rx.queue # <<>> /\ Head(a_rx.queue).kind = "ACK" /\ Head(a_rx.queue).id = q
    \/ a_tx.state \in A!Terminal /\ a_tx'.state = "IDLE"
AKeeps(q, p) ==
    /\ Sends(p)'
    /\ a_serial'.session = a_serial.session
    /\ Shrinks(a_rx.queue, a_rx'.queue)
    /\ \/ /\ Asks /\ a_tx.state = "IDLE" /\ Open(a_tx')
          /\ p = [sid |-> a_serial.session, seq |-> a_serial.seq]
          /\ a_serial'.seq = a_serial.seq + 1
       \/ ~Asks /\ p = q /\ a_serial'.seq >= a_serial.seq /\ Settles(q)
AMoves(q, p) == AKeeps(q, p) /\ Carries(a_wire', p)

-----------------------------------------------------------------------------
(* Context b, which receives and acknowledges and sends nothing else *)

RelEvent(e) == e.type = "RELIABLE_RX"

Receives ==
    /\ b_tx.state = "IDLE" /\ b_tx.pending = "NONE"
    /\ ~b_io.inflight /\ ~b_io.queued /\ b_io.compl = 0
    /\ b_event # B!NoEvent => B!IsRx(b_event) /\ b_pc \in {"queued", "timer", "finish"}
    /\ RelEvent(b_event) => b_event.frame.kind = "REL"

BOk ==
    /\ b_tx \in B!TxType /\ b_io \in B!IoType /\ b_ctl \in B!CtlType
    /\ b_rx \in B!RxType /\ b_event \in B!Event
    /\ b_wire \in Seq(B!Frame)
    /\ b_ctl.inflight => b_ctl.pending
    /\ b_rx.hold => b_rx.queue # <<>>
    /\ b_pc = "rx" => b_event = B!NoEvent

\* Only the ACK that was waiting goes on the line.
BQuiet ==
    /\ Shrinks(b_rx.queue, b_rx'.queue) /\ b_rx'.last = b_rx.last
    /\ b_event' = b_event
    /\ b_ctl'.pending => b_ctl.pending /\ b_ctl'.ack = b_ctl.ack
    /\ \A k \in DOMAIN b_wire' : b_wire'[k].kind = "ACK" => b_ctl.pending /\ b_wire'[k].id = b_ctl.ack
    /\ b_pc # "finish"
\* The unit at the head is routed.
BTakes(f) ==
    /\ b_event = B!NoEvent /\ b_rx.queue # <<>> /\ f = Head(b_rx.queue)
    /\ b_rx'.queue \in {b_rx.queue, Tail(b_rx.queue)}
    /\ IF f.kind = "REL" THEN b_rx'.last = f.id ELSE b_rx'.last = b_rx.last
    /\ IF f.kind = "REL" /\ f.id # b_rx.last
       THEN RelEvent(b_event') /\ b_event'.frame = f
       ELSE ~RelEvent(b_event')
    /\ b_ctl'.pending => \/ b_ctl.pending /\ b_ctl'.ack = b_ctl.ack
                         \/ f.kind = "REL" /\ b_ctl'.ack = f.id
    /\ \A k \in DOMAIN b_wire' : b_wire'[k].kind = "ACK" => f.kind = "REL" /\ b_wire'[k].id = f.id
    /\ b_pc # "finish"
BReturns ==
    /\ b_pc = "finish" /\ b_out' = b_event /\ b_event' = B!NoEvent
    /\ b_rx'.queue = b_rx.queue /\ b_rx'.last = b_rx.last
    /\ b_ctl' = b_ctl /\ b_wire' = <<>>
BMoves == Receives' /\ (BQuiet \/ (\E f \in LineUnit : BTakes(f)) \/ BReturns)

-----------------------------------------------------------------------------
(* The units between a's sink and b's record *)

\* The reliable units of queue and then line are sorted, between the record and the
\* newest request.
Within(s, lo, hi) ==
    \A k \in DOMAIN s : s[k].kind = "REL" => Le(lo, s[k].id) /\ Le(s[k].id, hi)
Sorted(s) ==
    \A j, k \in DOMAIN s : j < k /\ s[j].kind = "REL" /\ s[k].kind = "REL" => Le(s[j].id, s[k].id)
Ahead(s, t) ==
    \A j \in DOMAIN s, k \in DOMAIN t : s[j].kind = "REL" /\ t[k].kind = "REL" => Le(s[j].id, t[k].id)
Flow(queue, line, lo, hi) ==
    /\ Sorted(queue) /\ Sorted(line) /\ Ahead(queue, line)
    /\ Within(queue, lo, hi) /\ Within(line, lo, hi) /\ Le(lo, hi)

\* Every reliable unit of s belongs to a request.
Asked(s) ==
    \A k \in DOMAIN s : s[k].kind = "REL" => D!Among(s[k].id, asked) /\ s[k].body = s[k].id.seq

\* b's application has got request r, or gets it from the poll in progress.
Told(r) == D!Among(r, got) \/ (RelEvent(b_event) /\ r = b_event.frame.id)
TrueAcks(s) == \A k \in DOMAIN s : s[k].kind = "ACK" => Told(s[k].id)

\* Requests are numbered in the order they are made.
History ==
    /\ asked \in Seq(Request) /\ got \in Seq(Request)
    /\ verdict \in {"none", "open", "success", "failed"}
    /\ \A j, k \in DOMAIN asked : j < k => Lt(asked[j], asked[k])
    /\ \A k \in DOMAIN asked : Lt(asked[k], [sid |-> a_serial.session, seq |-> a_serial.seq])
    /\ a_serial.session \in 1 .. Restarts + 1

VerdictOk ==
    /\ verdict = "open" <=> Open(a_tx)
    /\ a_tx.state = "SUCCESS" => verdict = "success"
    /\ a_tx.state \in {"FAILED", "CANCELLED"} => verdict = "failed"

\* The duplicate record is the last request b's application got, or gets from the poll
\* in progress.
Record ==
    /\ b_rx.last # NoneYet => D!Among(b_rx.last, asked)
    /\ IF RelEvent(b_event)
       THEN /\ b_rx.last # NoneYet
            /\ b_event.frame.id = b_rx.last /\ b_event.frame.body = b_rx.last.seq
            /\ got # <<>> => D!Among(D!Latest(got), asked) /\ Lt(D!Latest(got), b_rx.last)
       ELSE b_rx.last = IF got = <<>> THEN NoneYet ELSE D!Latest(got)

\* The units between a and the duplicate record are sorted.
Pipe ==
    /\ toA \in Seq(LineUnit) /\ toB \in Seq(LineUnit)
    /\ Flow(b_rx.queue, toB, b_rx.last, Newest)
    /\ Asked(b_rx.queue) /\ Asked(toB)
\* The ACKs on their way tell the truth.
AckInv ==
    /\ b_ctl.pending => Told(b_ctl.ack)
    /\ TrueAcks(toA) /\ TrueAcks(a_rx.queue)

-----------------------------------------------------------------------------
(* The order of identities, and what keeps the units sorted *)

LEMMA OrderFacts ==
    /\ \A x \in LineId : Le(x, x) /\ ~Lt(x, x) /\ Le(NoneYet, x)
    /\ \A x, y \in LineId : (Lt(x, y) => Le(x, y) /\ x # y) /\ (Le(x, y) /\ x # y => Lt(x, y))
    /\ \A x, y, z \in LineId : Le(x, y) /\ Le(y, z) => Le(x, z)
    /\ \A x, y, z \in LineId : Le(x, y) /\ Lt(y, z) => Lt(x, z)
    /\ \A x, y, z \in LineId : Lt(x, y) /\ Le(y, z) => Lt(x, z)
<1>1. \A x, y \in LineId : Le(x, y) /\ x # y => Lt(x, y)
  <2> SUFFICES ASSUME NEW x \in LineId, NEW y \in LineId, Le(x, y), x # y PROVE Lt(x, y)
    OBVIOUS
  <2>1. x.sid = y.sid /\ x.seq = y.seq => x = y
    BY DEF LineId
  <2>2. x.sid \in Nat /\ x.seq \in Nat /\ y.sid \in Nat /\ y.seq \in Nat
    BY DEF LineId
  <2> QED BY <2>1, <2>2 DEF Le, Lt
<1>2. \A x \in LineId : x.sid \in Nat /\ x.seq \in Nat
  BY DEF LineId
<1>3. \A x \in LineId : Le(x, x) /\ ~Lt(x, x) /\ Le(NoneYet, x)
  BY <1>2 DEF Le, Lt, NoneYet
<1>4. \A x, y \in LineId : Lt(x, y) => Le(x, y) /\ x # y
  BY <1>2 DEF Le, Lt
<1>5. \A x, y, z \in LineId : Le(x, y) /\ Le(y, z) => Le(x, z)
  BY <1>2 DEF Le
<1>6. \A x, y, z \in LineId : Le(x, y) /\ Lt(y, z) => Lt(x, z)
  BY <1>2 DEF Le, Lt
<1>7. \A x, y, z \in LineId : Lt(x, y) /\ Le(y, z) => Lt(x, z)
  BY <1>2 DEF Le, Lt
<1> QED BY <1>1, <1>3, <1>4, <1>5, <1>6, <1>7, Zenon

\* Sequences of units: what is at each place after an append, a tail, a concatenation.
LEMMA UnitFacts ==
    ASSUME NEW s \in Seq(LineUnit)
    PROVE  /\ \A k \in DOMAIN s : s[k] \in LineUnit /\ s[k].id \in LineId
           /\ s # <<>> => /\ Head(s) = s[1] /\ 1 \in DOMAIN s /\ Tail(s) \in Seq(LineUnit)
                          /\ \A k \in DOMAIN Tail(s) : k + 1 \in DOMAIN s /\ Tail(s)[k] = s[k + 1]
<1>1. \A k \in DOMAIN s : s[k] \in LineUnit
  OBVIOUS
<1>2. \A u \in LineUnit : u.id \in LineId
  BY DEF LineUnit
<1>3. ASSUME s # <<>>
      PROVE  /\ Head(s) = s[1] /\ 1 \in DOMAIN s /\ Tail(s) \in Seq(LineUnit)
             /\ \A k \in DOMAIN Tail(s) : k + 1 \in DOMAIN s /\ Tail(s)[k] = s[k + 1]
  BY <1>3
<1> QED BY <1>1, <1>2, <1>3

\* Dropping the unit at the head of the queue keeps the units sorted.
LEMMA FlowTailQueue ==
    ASSUME NEW s \in Seq(LineUnit), NEW t, NEW lo, NEW hi, Flow(s, t, lo, hi), s # <<>>
    PROVE  Flow(Tail(s), t, lo, hi)
<1>1. \A k \in DOMAIN Tail(s) : k \in Int /\ k + 1 \in DOMAIN s /\ Tail(s)[k] = s[k + 1]
  OBVIOUS
<1>2. Sorted(Tail(s))
  BY <1>1 DEF Flow, Sorted
<1>3. Ahead(Tail(s), t)
  BY <1>1, Zenon DEF Flow, Ahead
<1>4. Within(Tail(s), lo, hi)
  BY <1>1, Zenon DEF Flow, Within
<1> QED BY <1>2, <1>3, <1>4, Zenon DEF Flow

\* So does losing the unit at the head of the line.
LEMMA FlowTailLine ==
    ASSUME NEW s, NEW t \in Seq(LineUnit), NEW lo, NEW hi, Flow(s, t, lo, hi), t # <<>>
    PROVE  Flow(s, Tail(t), lo, hi)
<1>1. \A k \in DOMAIN Tail(t) : k \in Int /\ k + 1 \in DOMAIN t /\ Tail(t)[k] = t[k + 1]
  OBVIOUS
<1>2. Sorted(Tail(t))
  BY <1>1 DEF Flow, Sorted
<1>3. Ahead(s, Tail(t))
  BY <1>1, Zenon DEF Flow, Ahead
<1>4. Within(Tail(t), lo, hi)
  BY <1>1, Zenon DEF Flow, Within
<1> QED BY <1>2, <1>3, <1>4, Zenon DEF Flow

\* So does emptying the queue.
LEMMA FlowEmptyQueue ==
    ASSUME NEW s, NEW t, NEW lo, NEW hi, Flow(s, t, lo, hi)
    PROVE  Flow(<<>>, t, lo, hi)
<1>1. Sorted(<<>>) /\ Ahead(<<>>, t) /\ Within(<<>>, lo, hi)
  BY DEF Sorted, Ahead, Within
<1> QED BY <1>1, Zenon DEF Flow

\* The unit that arrives keeps its place.
LEMMA FlowArrive ==
    ASSUME NEW s \in Seq(LineUnit), NEW t \in Seq(LineUnit), NEW lo, NEW hi, Flow(s, t, lo, hi), t # <<>>
    PROVE  Flow(Append(s, t[1]), Tail(t), lo, hi)
<1> DEFINE a == Append(s, t[1])
<1>1. /\ \A k \in DOMAIN a : k \in Int /\ ((k \in DOMAIN s /\ a[k] = s[k]) \/ (k = Len(s) + 1 /\ a[k] = t[1]))
      /\ \A k \in DOMAIN s : k <= Len(s)
      /\ 1 \in DOMAIN t
  OBVIOUS
<1>2. \A k \in DOMAIN Tail(t) : k \in Int /\ k + 1 \in DOMAIN t /\ Tail(t)[k] = t[k + 1] /\ 1 < k + 1
  OBVIOUS
<1> HIDE DEF a
<1>3. Flow(s, Tail(t), lo, hi)
  BY FlowTailLine
<1>4. Sorted(a)
  <2> SUFFICES ASSUME NEW j \in DOMAIN a, NEW k \in DOMAIN a, j < k, a[j].kind = "REL", a[k].kind = "REL"
               PROVE  Le(a[j].id, a[k].id)
    BY Zenon DEF Sorted
  <2>1. j \in DOMAIN s /\ a[j] = s[j]
    BY <1>1
  <2>2. CASE k \in DOMAIN s /\ a[k] = s[k]
    BY <2>1, <2>2, Zenon DEF Flow, Sorted
  <2>3. CASE a[k] = t[1]
    BY <1>1, <2>1, <2>3, Zenon DEF Flow, Ahead
  <2> QED BY <1>1, <2>2, <2>3, Zenon
<1>5. Ahead(a, Tail(t))
  <2> SUFFICES ASSUME NEW j \in DOMAIN a, NEW k \in DOMAIN Tail(t),
                      a[j].kind = "REL", Tail(t)[k].kind = "REL"
               PROVE  Le(a[j].id, Tail(t)[k].id)
    BY Zenon DEF Ahead
  <2>1. CASE j \in DOMAIN s /\ a[j] = s[j]
    BY <2>1, <1>3, Zenon DEF Flow, Ahead
  <2>2. CASE a[j] = t[1]
    BY <1>1, <1>2, <2>2, Zenon DEF Flow, Sorted
  <2> QED BY <1>1, <2>1, <2>2, Zenon
<1>6. Within(a, lo, hi)
  <2> SUFFICES ASSUME NEW k \in DOMAIN a, a[k].kind = "REL" PROVE Le(lo, a[k].id) /\ Le(a[k].id, hi)
    BY Zenon DEF Within
  <2>1. CASE k \in DOMAIN s /\ a[k] = s[k]
    BY <2>1, Zenon DEF Flow, Within
  <2>2. CASE a[k] = t[1]
    BY <1>1, <2>2, Zenon DEF Flow, Within
  <2> QED BY <1>1, <2>1, <2>2, Zenon
<1> QED BY <1>3, <1>4, <1>5, <1>6, Zenon DEF Flow, a

\* So does a repetition of the unit at the head of the line.
LEMMA FlowRepeat ==
    ASSUME NEW s, NEW t \in Seq(LineUnit), NEW lo, NEW hi, Flow(s, t, lo, hi), t # <<>>
    PROVE  Flow(s, <<Head(t)>> \o t, lo, hi)
<1> DEFINE a == <<Head(t)>> \o t
<1>1. /\ \A k \in DOMAIN a : k \in Int /\ ((k = 1 /\ a[k] = t[1]) \/ (k > 1 /\ k - 1 \in DOMAIN t /\ a[k] = t[k - 1]))
      /\ 1 \in DOMAIN t /\ \A k \in DOMAIN t : k \in Int /\ k >= 1
  OBVIOUS
<1> HIDE DEF a
<1>2. Within(a, lo, hi)
  BY <1>1, Zenon DEF Flow, Within
<1>3. Ahead(s, a)
  BY <1>1, Zenon DEF Flow, Ahead
<1>4. Sorted(a)
  <2> SUFFICES ASSUME NEW j \in DOMAIN a, NEW k \in DOMAIN a, j < k, a[j].kind = "REL", a[k].kind = "REL"
               PROVE  Le(a[j].id, a[k].id)
    BY Zenon DEF Sorted
  <2>1. k > 1 /\ k - 1 \in DOMAIN t /\ a[k] = t[k - 1]
    BY <1>1
  <2>2. CASE k - 1 = 1 /\ a[j] = t[1]
    <3>1. t[1].id \in LineId
      BY <1>1, UnitFacts
    <3> QED BY <2>1, <2>2, <3>1, OrderFacts
  <2>3. CASE k - 1 > 1 /\ a[j] = t[1]
    BY <1>1, <2>1, <2>3 DEF Flow, Sorted
  <2>4. CASE j > 1 /\ j - 1 \in DOMAIN t /\ a[j] = t[j - 1]
    <3>1. j - 1 < k - 1
      BY <1>1
    <3> QED BY <2>1, <2>4, <3>1, Zenon DEF Flow, Sorted
  <2>5. j \in Int /\ k \in Int
    BY <1>1
  <2> QED BY <1>1, <2>1, <2>2, <2>3, <2>4, <2>5
<1> QED BY <1>2, <1>3, <1>4, Zenon DEF Flow, a

\* What a puts on the line is the newest request, or no request at all.
LEMMA FlowCarry ==
    ASSUME NEW s \in Seq(LineUnit), NEW t \in Seq(LineUnit), NEW u \in Seq(LineUnit),
           NEW lo \in LineId, NEW hi \in LineId, NEW p \in LineId,
           Flow(s, t, lo, hi), Le(hi, p), Carries(u, p)
    PROVE  Flow(s, t \o u, lo, p) /\ Flow(s, t, lo, p)
<1>1. \A x \in LineId : Le(x, hi) => Le(x, p)
  BY OrderFacts
<1>2. /\ \A k \in DOMAIN s : s[k].id \in LineId
      /\ \A k \in DOMAIN t : t[k].id \in LineId
  BY UnitFacts, Zenon
<1>3. Within(s, lo, p) /\ Within(t, lo, p) /\ Le(lo, p)
  BY <1>1, <1>2, Zenon DEF Flow, Within
<1> DEFINE a == t \o u
<1>4. /\ \A k \in DOMAIN a :
            /\ k \in Int
            /\ \/ k \in DOMAIN t /\ a[k] = t[k]
               \/ k > Len(t) /\ k - Len(t) \in DOMAIN u /\ a[k] = u[k - Len(t)]
      /\ \A k \in DOMAIN t : k <= Len(t) /\ k \in Int
      /\ Len(t) \in Nat
  OBVIOUS
<1> HIDE DEF a
<1>5. \A k \in DOMAIN a : a[k].kind = "REL" => (k \in DOMAIN t /\ a[k] = t[k]) \/ (k > Len(t) /\ a[k].id = p)
  BY <1>4, Zenon DEF Carries
<1>6. Le(p, p)
  BY OrderFacts
<1>7. Within(a, lo, p)
  BY <1>3, <1>5, <1>6, Zenon DEF Within
<1>8. Ahead(s, a)
  BY <1>3, <1>5, Zenon DEF Flow, Ahead, Within
<1>9. Sorted(a)
  <2> SUFFICES ASSUME NEW j \in DOMAIN a, NEW k \in DOMAIN a, j < k, a[j].kind = "REL", a[k].kind = "REL"
               PROVE  Le(a[j].id, a[k].id)
    BY Zenon DEF Sorted
  <2>1. CASE k \in DOMAIN t /\ a[k] = t[k]
    <3>1. ~(j > Len(t))
      BY <1>4, <2>1
    <3>2. j \in DOMAIN t /\ a[j] = t[j]
      BY <1>5, <3>1, Zenon
    <3> QED BY <2>1, <3>2, Zenon DEF Flow, Sorted
  <2>2. CASE a[k].id = p
    BY <1>7, <2>2, Zenon DEF Within
  <2> QED BY <1>5, <2>1, <2>2, Zenon
<1> QED BY <1>3, <1>7, <1>8, <1>9, Zenon DEF Flow, a

\* The record moves up to the unit that is routed.
LEMMA FlowRecord ==
    ASSUME NEW s \in Seq(LineUnit), NEW t \in Seq(LineUnit), NEW lo \in LineId, NEW hi \in LineId,
           Flow(s, t, lo, hi), s # <<>>, Head(s).kind = "REL"
    PROVE  Flow(s, t, Head(s).id, hi)
<1> DEFINE x == Head(s).id
<1>1. x = s[1].id /\ x \in LineId /\ s[1].kind = "REL" /\ 1 \in DOMAIN s
      /\ \A k \in DOMAIN s : k = 1 \/ 1 < k
  BY UnitFacts
<1> HIDE DEF x
<1>2. Le(x, x)
  BY <1>1, OrderFacts
<1>3. \A k \in DOMAIN s : s[k].kind = "REL" => Le(x, s[k].id)
  BY <1>1, <1>2, Zenon DEF Flow, Sorted
<1>4. \A k \in DOMAIN t : t[k].kind = "REL" => Le(x, t[k].id)
  BY <1>1, Zenon DEF Flow, Ahead
<1>5. Le(x, hi)
  BY <1>1, Zenon DEF Flow, Within
<1> QED BY <1>3, <1>4, <1>5, Zenon DEF Flow, Within, x

-----------------------------------------------------------------------------
(* The history of requests *)

\* A request is an identity that can be on the line, and is not the empty one.
LEMMA RequestFacts ==
    /\ \A r \in Request : r \in LineId /\ r.sid # 0 /\ r # NoneYet
    /\ NoneYet \in LineId /\ NoneYet.sid = 0
BY PairAssumption DEF Request, LineId, NoneYet

\* The newest request is one of those asked, and is not below any of them.
LEMMA NewestFacts ==
    ASSUME History
    PROVE  /\ Newest \in LineId
           /\ asked = <<>> => Newest = NoneYet
           /\ asked # <<>> => Newest = D!Latest(asked) /\ D!Among(Newest, asked) /\ Newest \in Request
           /\ \A r : D!Among(r, asked) => r \in Request
<1>1. asked \in Seq(Request)
  BY DEF History
<1>2. CASE asked = <<>>
  BY <1>2, RequestFacts DEF Newest, D!Among
<1>3. CASE asked # <<>>
  <2>1. Len(asked) \in DOMAIN asked /\ asked[Len(asked)] \in Request
    BY <1>1, <1>3
  <2>2. \A k \in DOMAIN asked : asked[k] \in Request
    BY <1>1
  <2> QED BY <1>3, <2>1, <2>2, RequestFacts, Zenon DEF Newest, D!Among, D!Latest
<1> QED BY <1>2, <1>3

\* What stays true of a longer history.
LEMMA AppendFacts ==
    ASSUME NEW S, NEW s \in Seq(S), NEW r \in S
    PROVE  /\ Append(s, r) \in Seq(S) /\ Append(s, r) # <<>>
           /\ Append(s, r)[Len(Append(s, r))] = r
           /\ \A k \in DOMAIN s : k \in DOMAIN Append(s, r) /\ Append(s, r)[k] = s[k] /\ k < Len(s) + 1
           /\ Len(s) + 1 \in DOMAIN Append(s, r) /\ Append(s, r)[Len(s) + 1] = r
           /\ \A k \in DOMAIN Append(s, r) : k \in DOMAIN s \/ k = Len(s) + 1
OBVIOUS

\* Later requests have larger identities, so the order of two is the order they were made.
LEMMA BeforeFacts ==
    ASSUME History, NEW x \in LineId, NEW y \in LineId, D!Among(x, asked), D!Among(y, asked), Lt(x, y)
    PROVE  D!Before(x, y)
<1>1. PICK j \in DOMAIN asked : asked[j] = x
  BY Zenon DEF D!Among
<1>2. PICK k \in DOMAIN asked : asked[k] = y
  BY Zenon DEF D!Among
<1>3. j # k
  BY <1>1, <1>2, OrderFacts
<1>4. ~(k < j)
  <2>1. ~Lt(y, x)
    BY OrderFacts, SMTT(30)
  <2> QED BY <1>1, <1>2, <2>1, Zenon DEF History
<1>5. j \in Int /\ k \in Int
  BY DEF History
<1>6. j < k
  BY <1>3, <1>4, <1>5
<1> QED BY <1>1, <1>2, <1>6, Zenon DEF D!Before

\* What a puts on the line are units of its newest request.
LEMMA CarriedUnits ==
    ASSUME NEW s \in Seq(LineUnit), NEW u \in Seq(LineUnit)
    PROVE  /\ Carry(s, u) \in Seq(LineUnit) /\ Carry(s, u) \in {s, s \o u}
           /\ \A k \in DOMAIN Carry(s, u) : \/ \E j \in DOMAIN s : Carry(s, u)[k] = s[j]
                                            \/ \E j \in DOMAIN u : Carry(s, u)[k] = u[j]
<1>1. s \o u \in Seq(LineUnit)
  OBVIOUS
<1>2. \A k \in DOMAIN (s \o u) : \/ k \in DOMAIN s /\ (s \o u)[k] = s[k]
                                 \/ k - Len(s) \in DOMAIN u /\ (s \o u)[k] = u[k - Len(s)]
  OBVIOUS
<1>3. Carry(s, u) = s \/ Carry(s, u) = s \o u
  BY Zenon DEF Carry
<1> QED BY <1>1, <1>2, <1>3, Zenon

\* The units of a queue that shrinks, and of a line that loses or repeats its oldest.
LEMMA ShrunkUnits ==
    ASSUME NEW s \in Seq(LineUnit), NEW t, Shrinks(s, t)
    PROVE  t \in Seq(LineUnit) /\ \A k \in DOMAIN t : \E j \in DOMAIN s : t[k] = s[j]
<1>1. CASE t = s
  BY <1>1, Zenon
<1>2. CASE t = <<>>
  BY <1>2
<1>3. CASE s # <<>> /\ t = Tail(s)
  BY <1>3, UnitFacts, Zenon
<1> QED BY <1>1, <1>2, <1>3 DEF Shrinks

\* A repeated unit is one that was there.
LEMMA RepeatedUnits ==
    ASSUME NEW s \in Seq(LineUnit), s # <<>>
    PROVE  /\ <<Head(s)>> \o s \in Seq(LineUnit)
           /\ \A k \in DOMAIN (<<Head(s)>> \o s) : \E j \in DOMAIN s : (<<Head(s)>> \o s)[k] = s[j]
<1>1. <<Head(s)>> \o s \in Seq(LineUnit)
  OBVIOUS
<1>2. \A k \in DOMAIN (<<Head(s)>> \o s) :
        \/ k = 1 /\ (<<Head(s)>> \o s)[k] = s[1]
        \/ k - 1 \in DOMAIN s /\ (<<Head(s)>> \o s)[k] = s[k - 1]
  OBVIOUS
<1>3. 1 \in DOMAIN s
  OBVIOUS
<1> QED BY <1>1, <1>2, <1>3, Zenon

-----------------------------------------------------------------------------
(* What Delivery itself promises: nothing is delivered twice *)

Seen == <<asked, got, verdict>>

Ordered ==
    /\ asked \in Seq(Request) /\ got \in Seq(Request)
    /\ \A j, k \in DOMAIN asked : asked[j] = asked[k] => j = k
    /\ \A j, k \in DOMAIN got : j < k => D!Before(got[j], got[k])

\* Requests received in the order they were made are received once.
LEMMA OrderedOnce == Ordered => DeliveredOnce
<1> SUFFICES ASSUME Ordered, NEW j \in DOMAIN got, NEW k \in DOMAIN got, got[j] = got[k] PROVE j = k
  BY Zenon DEF DeliveredOnce
<1>1. j \in Int /\ k \in Int
  BY DEF Ordered
<1>2. ~D!Before(got[j], got[j])
  <2> SUFFICES ASSUME D!Before(got[j], got[j]) PROVE FALSE
    OBVIOUS
  <2>1. PICK m, n \in DOMAIN asked : asked[m] = got[j] /\ asked[n] = got[j] /\ m < n
    BY Zenon DEF D!Before
  <2>2. m = n /\ m \in Int
    BY <2>1 DEF Ordered
  <2> QED BY <2>1, <2>2
<1>3. ~(j < k) /\ ~(k < j)
  BY <1>2, Zenon DEF Ordered
<1> QED BY <1>1, <1>3

\* What b receives stays in the order a asked for it.
LEMMA OrderedStep == Ordered /\ [D!DeliveryNext]_Seen => Ordered'
<1> SUFFICES ASSUME Ordered, [D!DeliveryNext]_Seen PROVE Ordered'
  BY Zenon
<1>0. asked \in Seq(Request) /\ got \in Seq(Request)
  BY DEF Ordered
<1>1. ASSUME NEW r \in Request, D!Ask(r) PROVE Ordered'
  <2>1. got' = got /\ ~D!Among(r, asked)
    BY <1>1, Zenon DEF D!Ask
  <2>2. PICK s \in Seq(Request) : s = asked'
    BY <1>0, <1>1, AppendFacts, ZenonT(60) DEF D!Ask
  <2>3. /\ Len(asked) + 1 \in DOMAIN s /\ s[Len(asked) + 1] = r
        /\ \A k \in DOMAIN asked : k \in DOMAIN s /\ s[k] = asked[k]
        /\ \A k \in DOMAIN s : k \in DOMAIN asked \/ k = Len(asked) + 1
    BY <1>0, <1>1, <2>2, AppendFacts DEF D!Ask
  <2>4. \A j, k \in DOMAIN s : s[j] = s[k] => j = k
    <3>1. \A k \in DOMAIN asked : s[k] # r
      BY <2>1, <2>3, Zenon DEF D!Among
    <3> QED BY <2>3, <3>1, Zenon DEF Ordered
  <2>5. \A x, y : D!Before(x, y) => D!Before(x, y)'
    <3>1. \A x, y : D!Before(x, y) => \E j, k \in DOMAIN s : s[j] = x /\ s[k] = y /\ j < k
      BY <2>3, Zenon DEF D!Before
    <3> QED BY <2>2, <3>1 DEF D!Before
  <2>6. \A j, k \in DOMAIN got : j < k => \A x, y : got[j] = x /\ got[k] = y => D!Before(x, y)'
    BY <2>5, Zenon DEF Ordered
  <2>7. (\A j, k \in DOMAIN got : j < k => D!Before(got[j], got[k]))'
    BY <2>1, <2>6, Zenon
  <2> QED BY <1>0, <2>1, <2>2, <2>4, <2>7, Zenon DEF Ordered
<1>2. ASSUME NEW r \in Request, D!Deliver(r) PROVE Ordered'
  <2>1. asked' = asked /\ (got # <<>> => D!Before(D!Latest(got), r))
    BY <1>2, Zenon DEF D!Deliver
  <2>2. PICK s \in Seq(Request) : s = got'
    BY <1>0, <1>2, AppendFacts, Zenon DEF D!Deliver
  <2>3. /\ s[Len(got) + 1] = r
        /\ \A k \in DOMAIN got : k \in DOMAIN s /\ s[k] = got[k]
        /\ \A k \in DOMAIN s : k \in DOMAIN got \/ k = Len(got) + 1
    BY <1>0, <1>2, <2>2, AppendFacts DEF D!Deliver
  <2>4. \A j \in DOMAIN got : D!Before(got[j], r)
    <3> SUFFICES ASSUME NEW j \in DOMAIN got PROVE D!Before(got[j], r)
      OBVIOUS
    <3>1. /\ got # <<>> /\ Len(got) \in DOMAIN got /\ j \in Int /\ j <= Len(got) /\ Len(got) \in Int
      BY <1>0
    <3>2. D!Before(got[Len(got)], r)
      BY <2>1, <3>1, Zenon DEF D!Latest
    <3>3. CASE j = Len(got)
      BY <3>2, <3>3
    <3>4. CASE j < Len(got)
      <4>1. D!Before(got[j], got[Len(got)])
        BY <3>1, <3>4, Zenon DEF Ordered
      <4>2. PICK m, n \in DOMAIN asked : asked[m] = got[j] /\ asked[n] = got[Len(got)] /\ m < n
        BY <4>1, Zenon DEF D!Before
      <4>3. PICK p, q \in DOMAIN asked : asked[p] = got[Len(got)] /\ asked[q] = r /\ p < q
        BY <3>2, Zenon DEF D!Before
      <4>4. n = p /\ m \in Int /\ n \in Int /\ q \in Int
        BY <1>0, <4>2, <4>3, SMTT(30) DEF Ordered
      <4>5. m < q
        BY <4>2, <4>3, <4>4
      <4> QED BY <4>2, <4>3, <4>5, Zenon DEF D!Before
    <3> QED BY <3>1, <3>3, <3>4
  <2>5. \A j, k \in DOMAIN s : j < k => D!Before(s[j], s[k])
    <3> SUFFICES ASSUME NEW j \in DOMAIN s, NEW k \in DOMAIN s, j < k PROVE D!Before(s[j], s[k])
      OBVIOUS
    <3>1. j \in DOMAIN got
      BY <1>0, <2>2, <2>3
    <3>2. CASE k \in DOMAIN got
      BY <2>3, <3>1, <3>2, Zenon DEF Ordered
    <3>3. CASE k = Len(got) + 1
      BY <2>3, <2>4, <3>1, <3>3, Zenon
    <3> QED BY <2>3, <3>2, <3>3, Zenon
  <2>6. (\A j, k \in DOMAIN got : j < k => D!Before(got[j], got[k]))'
    BY <2>1, <2>2, <2>5, ZenonT(60) DEF D!Before
  <2> QED BY <1>0, <2>1, <2>2, <2>6, Zenon DEF Ordered
<1>3. CASE UNCHANGED <<asked, got>>
  BY <1>3, Zenon DEF Ordered, D!Before
<1> QED BY <1>1, <1>2, <1>3, Zenon DEF D!DeliveryNext, D!Succeed, D!GiveUp, Seen

-----------------------------------------------------------------------------
(* The pieces of a step of context a *)

LEMMA CarriesFacts ==
    /\ \A p : Carries(<<>>, p)
    /\ \A p, f : (f.kind = "REL" => f.id = p /\ p.sid # 0) => Carries(<<f>>, p)
    /\ \A s, t \in Seq(LineUnit) : \A p : Carries(s, p) /\ Carries(t, p) => Carries(s \o t, p)
<1>1. \A p : Carries(<<>>, p)
  BY DEF Carries
<1>2. \A p, f : (f.kind = "REL" => f.id = p /\ p.sid # 0) => Carries(<<f>>, p)
  BY DEF Carries
<1>3. ASSUME NEW s \in Seq(LineUnit), NEW t \in Seq(LineUnit), NEW p, Carries(s, p), Carries(t, p)
      PROVE  Carries(s \o t, p)
  <2>1. \A k \in DOMAIN (s \o t) : \/ k \in DOMAIN s /\ (s \o t)[k] = s[k]
                                   \/ k - Len(s) \in DOMAIN t /\ (s \o t)[k] = t[k - Len(s)]
    OBVIOUS
  <2> QED BY <1>3, <2>1, Zenon DEF Carries
<1> QED BY <1>1, <1>2, <1>3, Zenon

\* The types of Link are the same in both contexts.
LEMMA UnitTypes == A!Frame = LineUnit /\ B!Frame = LineUnit
BY DEF A!Frame, B!Frame, LineUnit, A!Id, B!Id, LineId

\* wl_submit_control puts at most the waiting ACK on the line.
LEMMA AControl ==
    ASSUME NEW c \in A!CtlType, NEW i \in A!IoType, NEW r \in A!SubmitControl(c, i)
    PROVE  /\ r.io.inflight = i.inflight /\ r.io.queued = i.queued /\ r.io.reliable = i.reliable
           /\ r.io.claim = i.claim
           /\ r.sent \in Seq(LineUnit) /\ \A p : Carries(r.sent, p)
<1>0. A!AckFrame(c.ack) \in LineUnit /\ A!AckFrame(c.ack).kind = "ACK"
  BY DEF A!AckFrame, LineUnit, LineId, A!CtlType, A!Id, A!Scrap
<1>1. /\ r.sent = <<>> \/ r.sent = <<A!AckFrame(c.ack)>>
      /\ r.io = i \/ r.io = [i EXCEPT !.writable = FALSE]
  <2>1. CASE r = [ctl |-> c, io |-> i, sent |-> <<>>]
    BY <2>1
  <2>2. CASE \E res \in SinkResults : r = A!ControlAnswer(c, i, res)
    BY <2>2 DEF A!ControlAnswer
  <2> QED BY <2>1, <2>2, Zenon DEF A!SubmitControl
<1>2. r.io.inflight = i.inflight /\ r.io.queued = i.queued /\ r.io.reliable = i.reliable /\ r.io.claim = i.claim
  BY <1>1 DEF A!IoType
<1>3. <<>> \in Seq(LineUnit) /\ <<A!AckFrame(c.ack)>> \in Seq(LineUnit)
  BY <1>0
<1>4. \A p : Carries(<<>>, p) /\ Carries(<<A!AckFrame(c.ack)>>, p)
  BY <1>0, CarriesFacts, Zenon
<1> QED BY <1>1, <1>2, <1>3, <1>4, Zenon

\* wl_submit_data for a transaction puts at most its encoded unit on the line.
LEMMA AReliable ==
    ASSUME NEW t \in A!TxType, NEW i \in A!IoType, NEW m, NEW r \in A!SendTxPayload(t, i, m)
    PROVE  /\ r.io \in A!IoType /\ r.tx \in A!TxType /\ r.ok \in BOOLEAN
           /\ r.io.claim = i.claim /\ (r.io.inflight \/ r.io.queued => r.io.reliable)
           /\ r.tx.handle = t.handle /\ r.tx.seq = t.seq
           /\ r.ok => Open(r.tx)
           /\ ~r.ok => r.tx = t /\ r.sent = <<>> /\ ~r.io.inflight /\ ~r.io.queued
           /\ r.sent = <<>> \/ r.sent = <<A!Encoded(m, t).unit>>
<1>1. PICK res \in SinkResults : r = A!ReliableAnswer(t, i, A!Encoded(m, t).unit, res)
  BY DEF A!SendTxPayload
<1>2. CASE res = "STARTED"
  BY <1>1, <1>2, Zenon DEF A!ReliableAnswer, A!TxType, A!IoType, A!TxStates, Open
<1>3. CASE res = "BUSY"
  BY <1>1, <1>3, Zenon DEF A!ReliableAnswer, A!TxType, A!IoType, A!TxStates, Open
<1>4. CASE res = "SENT"
  BY <1>1, <1>4, Zenon DEF A!ReliableAnswer, A!TxType, A!IoType, A!TxStates, Open
<1>5. CASE res \notin {"STARTED", "BUSY", "SENT"}
  BY <1>1, <1>5, ZenonT(60) DEF A!ReliableAnswer, A!TxType, A!IoType
<1> QED BY <1>2, <1>3, <1>4, <1>5

\* The unit of an open transaction is its request's.
LEMMA AEncoded ==
    ASSUME NEW q, AOk, Sends(q), Open(a_tx)
    PROVE  /\ A!Encoded(a_mem, a_tx).unit.id = q /\ q.sid # 0
           /\ A!Encoded(a_mem, a_tx).unit \in LineUnit
<1>1. q = [sid |-> a_serial.session, seq |-> a_tx.seq] /\ q.sid # 0 /\ q \in LineId
  BY PairAssumption DEF Sends, AOk, A!TxType, LineId
<1>2. A!Retained(a_mem) \in Int
  BY PairAssumption DEF AOk, A!TxType
<1>3. CASE a_mem.encoded
  <2>1. A!Encoded(a_mem, a_tx) = a_mem
    BY <1>3 DEF A!Encoded
  <2>2. a_mem.unit \in LineUnit
    BY DEF AOk, A!MemType, LineUnit, LineId, A!Id, A!Body, A!Scrap
  <2> QED BY <1>1, <1>3, <2>1, <2>2 DEF AOk
<1>4. CASE ~a_mem.encoded
  <2>1. A!Encoded(a_mem, a_tx).unit = [kind |-> "REL", id |-> q, body |-> A!Retained(a_mem)]
    BY <1>1, <1>4 DEF A!Encoded, A!DataFrame, AOk, A!MemType
  <2> QED BY <1>1, <1>2, <2>1 DEF LineUnit
<1> QED BY <1>3, <1>4

\* The event of a transaction's end leaves state and handle alone,
LEMMA APushes ==
    ASSUME NEW t \in A!TxType, NEW i, NEW e, NEW type
    PROVE  /\ A!PushTxEvent(t, i, e, type).tx.state = t.state
           /\ A!PushTxEvent(t, i, e, type).tx.handle = t.handle
           /\ A!PushTxEvent(t, i, e, type).tx.seq = t.seq
<1>1. A!PushTxEvent(t, i, e, type).tx = t \/ A!PushTxEvent(t, i, e, type).tx = [t EXCEPT !.pending = type]
  BY DEF A!PushTxEvent
<1>2. [t EXCEPT !.pending = type].state = t.state /\ [t EXCEPT !.pending = type].handle = t.handle
      /\ [t EXCEPT !.pending = type].seq = t.seq
  BY DEF A!TxType
<1> QED BY <1>1, <1>2, Zenon

\* and so does the end itself with the handle.
LEMMA AEnds ==
    ASSUME NEW t \in A!TxType, NEW i, NEW e, NEW type,
           NEW state \in {"SUCCESS", "FAILED", "CANCELLED"}, NEW result
    PROVE  /\ A!Ended(t, state, result).state = state /\ A!Ended(t, state, result).handle = t.handle
           /\ A!PushTxEvent(t, i, e, type).tx.state = t.state
           /\ A!PushTxEvent(t, i, e, type).tx.handle = t.handle
           /\ A!PushTxEvent(t, i, e, type).tx.seq = t.seq
<1>1. A!Ended(t, state, result).state = state /\ A!Ended(t, state, result).handle = t.handle
  BY DEF A!Ended, A!TxType
<1> QED BY <1>1, APushes

\* A transaction that fails keeps its lease.
LEMMA AFails ==
    ASSUME NEW t \in A!TxType, NEW i
    PROVE  A!FailIo(t, i).tx.state = "FAILED" /\ A!FailIo(t, i).tx.handle = t.handle
<1>1. 0 \in 0 .. SeqMax
  BY PairAssumption
<1>2. A!Ended(t, "FAILED", "IO") \in A!TxType
  BY <1>1, Zenon DEF A!Ended, A!TxType, A!TxStates
<1> QED BY <1>2, AEnds DEF A!FailIo

\* A step that makes no request.
LEMMA AKeptOn ==
    ASSUME NEW q, a_tx'.handle \in {0, a_tx.handle}, Sends(q), Settles(q),
           Open(a_tx') => Open(a_tx) /\ a_tx'.seq = a_tx.seq,
           a_serial'.session = a_serial.session, a_serial'.seq >= a_serial.seq,
           a_io'.claim = "NONE", a_io'.inflight \/ a_io'.queued => a_io'.reliable,
           A!ReliableLease(a_io') => a_mem'.unit.id = q /\ q.sid # 0,
           Shrinks(a_rx.queue, a_rx'.queue)
    PROVE  AKeeps(q, q)
<1>1. Sends(q)'
  BY DEF Sends, A!ReliableLease
<1>2. ~Asks
  BY DEF Asks
<1> QED BY <1>1, <1>2 DEF AKeeps

\* One that keeps the sequence counter too.
LEMMA AKept ==
    ASSUME NEW q, a_tx'.handle = 0 \/ a_tx'.handle = a_tx.handle, Sends(q), Settles(q),
           Open(a_tx') => Open(a_tx) /\ a_tx'.seq = a_tx.seq, a_serial' = a_serial, a_serial.seq \in Int,
           a_io'.claim = "NONE", a_io'.inflight \/ a_io'.queued => a_io'.reliable,
           A!ReliableLease(a_io') => a_mem'.unit.id = q /\ q.sid # 0,
           Shrinks(a_rx.queue, a_rx'.queue)
    PROVE  AKeeps(q, q)
<1>1. a_serial'.session = a_serial.session /\ a_serial'.seq >= a_serial.seq
  OBVIOUS
<1>2. a_tx'.handle \in {0, a_tx.handle}
  BY Zenon
<1> QED BY <1>1, <1>2, AKeptOn

\* A step that leaves the transaction closed and the line as it was.
LEMMA AClosed ==
    ASSUME NEW q, Sends(q), Settles(q), a_serial.seq \in Int, a_serial' = a_serial,
           a_tx'.handle = a_tx.handle, ~Open(a_tx'), a_mem' = a_mem,
           a_io'.inflight = a_io.inflight, a_io'.queued = a_io.queued,
           a_io'.reliable = a_io.reliable, a_io'.claim = a_io.claim,
           Shrinks(a_rx.queue, a_rx'.queue)
    PROVE  AKeeps(q, q)
<1>1. /\ a_io'.claim = "NONE" /\ (a_io'.inflight \/ a_io'.queued => a_io'.reliable)
      /\ A!ReliableLease(a_io') => a_mem'.unit.id = q /\ q.sid # 0
  BY Zenon DEF Sends, A!ReliableLease
<1> QED BY <1>1, AKept, Zenon

-----------------------------------------------------------------------------
(* The steps of context a *)

LEMMA ATickKeeps ==
    ASSUME NEW q, AOk, Sends(q), A!Tick
    PROVE  AKeeps(q, q)
<1>1. a_tx \in A!TxType /\ a_serial.seq \in Int
  BY DEF AOk
<1>2. a_tx'.state = a_tx.state /\ a_tx'.handle = a_tx.handle /\ a_tx'.seq = a_tx.seq
  BY <1>1 DEF A!Tick, A!TxType
<1>3. UNCHANGED <<a_io, a_mem, a_rx, a_serial>> /\ Shrinks(a_rx.queue, a_rx'.queue)
  BY DEF A!Tick, Shrinks
<1>4. Settles(q)
  BY <1>2 DEF Settles
<1>5. Open(a_tx') => Open(a_tx)
  BY <1>2 DEF Open
<1> QED BY <1>1, <1>2, <1>3, <1>4, <1>5, AKept, ZenonT(60) DEF Sends

\* The calls of the application other than a reliable send.
LEMMA ACallMoves ==
    ASSUME NEW q, AOk, Sends(q), A!Cancel \/ A!Take \/ A!Writable
    PROVE  AMoves(q, q)
<1>1. /\ a_tx \in A!TxType /\ a_io \in A!IoType /\ a_mem \in A!MemType /\ a_serial.seq \in Int
      /\ a_io.claim = "NONE"
      /\ a_wire' = <<>> /\ Carries(a_wire', q)
      /\ UNCHANGED <<a_rx, a_serial>> /\ Shrinks(a_rx.queue, a_rx'.queue)
  BY CarriesFacts DEF AOk, Sends, A!Cancel, A!Take, A!Writable, Shrinks
<1>2. CASE A!Cancel
  <2>1. a_tx'.state = "CANCELLED" /\ a_tx'.handle = a_tx.handle /\ Open(a_tx)
    BY <1>1, <1>2 DEF A!Cancel, A!Ended, A!TxType, Open
  <2>2. /\ a_io'.claim = "NONE" /\ (a_io'.inflight \/ a_io'.queued => a_io'.reliable)
        /\ A!ReliableLease(a_io') => A!ReliableLease(a_io)
        /\ a_mem' = a_mem
    BY <1>1, <1>2, ZenonT(60) DEF A!Cancel, A!IoType, A!ReliableLease, Sends
  <2>3. Settles(q) /\ ~Open(a_tx')
    BY <2>1, ZenonT(60) DEF Settles, Open
  <2> QED BY <1>1, <2>1, <2>2, <2>3, AKept, ZenonT(60) DEF Sends, AMoves
<1>3. CASE A!Take
  <2>1. a_tx'.state = "IDLE" /\ a_tx'.handle = 0 /\ a_tx.state \in A!Terminal /\ ~A!ReliableLease(a_io)
    BY <1>1, <1>3 DEF A!Take, A!TxType, A!CanTake
  <2>2. a_io' = a_io
    BY <1>3 DEF A!Take
  <2>3. Settles(q) /\ ~Open(a_tx')
    BY <2>1, SMTT(30) DEF Settles, Open
  <2> QED BY <1>1, <2>1, <2>2, <2>3, AKept, ZenonT(60) DEF Sends, AMoves
<1>4. CASE A!Writable
  <2>1. /\ a_io'.claim = "NONE" /\ a_io'.inflight = a_io.inflight /\ a_io'.queued = a_io.queued
        /\ a_io'.reliable = a_io.reliable
        /\ UNCHANGED <<a_tx, a_mem>>
    BY <1>1, <1>4 DEF A!Writable, A!IoType
  <2>2. Settles(q)
    BY <2>1 DEF Settles
  <2>3. a_tx'.handle \in {0, a_tx.handle} /\ (Open(a_tx') => Open(a_tx) /\ a_tx'.seq = a_tx.seq)
    BY <2>1
  <2> QED BY <1>1, <2>1, <2>2, <2>3, AKept DEF Sends, A!ReliableLease, AMoves
<1> QED BY <1>2, <1>3, <1>4, ZenonT(60)

\* A reliable send makes the newest request.
LEMMA ARequestMoves ==
    ASSUME NEW q, NEW p, AOk, Sends(q), A!SendReliable,
           p = IF Asks THEN [sid |-> a_serial.session, seq |-> a_serial.seq] ELSE q
    PROVE  AMoves(q, p)
<1>1. /\ a_tx \in A!TxType /\ a_io \in A!IoType /\ a_mem \in A!MemType /\ a_serial.seq \in Nat
      /\ a_serial \in [session : Nat \ {0}, seq : 0 .. SeqMax, gen : 0 .. SeqMax]
      /\ a_io.claim = "NONE" /\ Carries(<<>>, q) /\ Carries(<<>>, p)
      /\ UNCHANGED a_rx /\ Shrinks(a_rx.queue, a_rx'.queue)
  BY CarriesFacts DEF AOk, Sends, A!SendReliable, Shrinks
<1>2. CASE A!DataBusy(TRUE)
  <2>1. UNCHANGED <<a_tx, a_io, a_mem>> /\ a_wire' = <<>> /\ a_serial' = [a_serial EXCEPT !.seq = @ + 1]
    BY <1>2 DEF A!SendReliable
  <2>2. a_serial'.session = a_serial.session /\ a_serial'.seq >= a_serial.seq
    BY <1>1, <2>1
  <2>3. Settles(q) /\ ~Asks /\ (Open(a_tx') => Open(a_tx))
    BY <2>1 DEF Settles, Asks
  <2>4. AKeeps(q, q)
    <3>1. a_tx'.handle \in {0, a_tx.handle} /\ (Open(a_tx') => Open(a_tx) /\ a_tx'.seq = a_tx.seq)
      BY <2>1, Zenon
    <3>2. /\ a_io'.claim = "NONE" /\ (a_io'.inflight \/ a_io'.queued => a_io'.reliable)
          /\ A!ReliableLease(a_io') => a_mem'.unit.id = q /\ q.sid # 0
      BY <2>1, ZenonT(60) DEF Sends
    <3> QED BY <1>1, <2>2, <2>3, <3>1, <3>2, AKeptOn
  <2> QED BY <1>1, <2>1, <2>3, <2>4 DEF AMoves
<1>3. CASE ~A!DataBusy(TRUE)
  <2> DEFINE m == [a_mem EXCEPT !.payload = a_serial.seq, !.at = "payload", !.encoded = FALSE]
             gen == A!NextGeneration(a_serial.gen)
             t == [a_tx EXCEPT !.handle = gen, !.seq = a_serial.seq, !.wait = "NONE", !.left = MaxRetries,
                               !.used = 0]
  <2>1. a_tx.handle = 0 /\ a_tx.state = "IDLE" /\ ~a_io.inflight /\ ~a_io.queued
    BY <1>3, SMTT(30) DEF A!DataBusy, AOk
  <2>2. PICK r \in A!SendTxPayload(t, a_io, m) :
           /\ a_io' = r.io /\ a_wire' = r.sent
           /\ a_serial' = [a_serial EXCEPT !.seq = a_serial.seq + 1, !.gen = gen]
           /\ IF r.ok
              THEN /\ a_tx' = [r.tx EXCEPT !.result = "BUSY"]
                   /\ a_mem' = A!Encoded(m, t)
              ELSE /\ a_tx' = [r.tx EXCEPT !.handle = 0, !.state = "IDLE", !.seq = 0, !.wait = "NONE",
                                           !.left = 0]
    BY <1>1, <1>3, Zenon DEF A!SendReliable, A!StartReliable, A!Put
  <2>3. gen \in 0 .. SeqMax /\ gen # 0
    BY <1>1, PairAssumption DEF A!NextGeneration
  <2>4. t \in A!TxType /\ t.handle = gen /\ t.seq = a_serial.seq
    <3>1. MaxRetries \in 0 .. MaxRetries /\ 0 \in 0 .. MaxRetries /\ a_serial.seq \in 0 .. SeqMax
      BY <1>1, PairAssumption
    <3> HIDE DEF gen
    <3> QED BY <1>1, <2>3, <3>1, Zenon DEF A!TxType
  <2>5. A!Encoded(m, t).unit.id = [sid |-> a_serial.session, seq |-> a_serial.seq]
    BY <1>1, <2>4 DEF A!Encoded, A!DataFrame, A!MemType
  <2> HIDE DEF m, t, gen
  <2>6. /\ r.io \in A!IoType /\ r.tx \in A!TxType /\ r.ok \in BOOLEAN
        /\ r.io.claim = "NONE" /\ (r.io.inflight \/ r.io.queued => r.io.reliable)
        /\ r.tx.handle = gen /\ r.tx.seq = a_serial.seq
        /\ r.ok => Open(r.tx)
        /\ ~r.ok => r.sent = <<>> /\ ~r.io.inflight /\ ~r.io.queued
        /\ r.sent = <<>> \/ r.sent = <<A!Encoded(m, t).unit>>
    BY <1>1, <2>2, <2>4, AReliable
  <2>7. a_serial'.session = a_serial.session /\ a_serial'.seq = a_serial.seq + 1
    BY <1>1, <2>2
  <2>8. CASE r.ok
    <3>1. a_tx'.handle = gen /\ a_tx'.seq = a_serial.seq /\ a_tx'.state = r.tx.state
      BY <2>2, <2>6, <2>8, ZenonT(60) DEF A!TxType
    <3>2. Asks /\ Open(a_tx')
      BY <2>1, <2>3, <2>6, <2>8, <3>1, ZenonT(60) DEF Asks, Open
    <3>3. p = [sid |-> a_serial.session, seq |-> a_serial.seq] /\ p.sid # 0
      BY <1>1, <3>2
    <3>4. Carries(a_wire', p)
      <4>1. PICK f : f = A!Encoded(m, t).unit
        OBVIOUS
      <4>2. f.id = p
        BY <2>5, <3>3, <4>1
      <4>3. Carries(<<f>>, p)
        BY <3>3, <4>2, CarriesFacts, Zenon
      <4> QED BY <1>1, <2>2, <2>6, <4>1, <4>3, Zenon
    <3>5. Sends(p)'
      BY <2>2, <2>5, <2>6, <2>7, <2>8, <3>1, <3>3, ZenonT(60) DEF Sends
    <3> QED BY <1>1, <2>1, <2>7, <3>2, <3>3, <3>4, <3>5, ZenonT(60) DEF AMoves, AKeeps
  <2>9. CASE ~r.ok
    <3>1. a_tx'.handle = 0 /\ a_tx'.state = "IDLE"
      BY <2>2, <2>6, <2>9, ZenonT(60) DEF A!TxType
    <3>2. Settles(q) /\ ~Asks /\ ~Open(a_tx') /\ a_serial'.seq >= a_serial.seq
      BY <1>1, <2>1, <2>7, <3>1 DEF Settles, Asks, Open
    <3>3. AKeeps(q, q)
      <4>1. a_tx'.handle \in {0, a_tx.handle}
        BY <3>1, Zenon
      <4>2. /\ a_io'.claim = "NONE" /\ (a_io'.inflight \/ a_io'.queued => a_io'.reliable)
            /\ ~A!ReliableLease(a_io')
        BY <2>2, <2>6, <2>9, ZenonT(60) DEF A!ReliableLease
      <4> QED BY <1>1, <2>7, <3>2, <4>1, <4>2, AKeptOn
    <3> QED BY <1>1, <2>2, <2>6, <2>9, <3>2, <3>3, ZenonT(60) DEF AMoves
  <2> QED BY <2>6, <2>8, <2>9
<1> QED BY <1>2, <1>3, Zenon

\* What a completion leaves of the line, and the ACK that may follow it.
LEMMA AFreed ==
    ASSUME AOk, NEW ok \in BOOLEAN
    PROVE  /\ A!Reported(ok) \in A!IoType /\ A!Freed(ok) \in A!IoType
           /\ A!Reported(ok).inflight = a_io.inflight /\ A!Reported(ok).queued = a_io.queued
           /\ A!Reported(ok).reliable = a_io.reliable /\ A!Reported(ok).claim = a_io.claim
           /\ ~A!Freed(ok).inflight /\ A!Freed(ok).queued = a_io.queued /\ A!Freed(ok).claim = a_io.claim
<1>1. a_io \in A!IoType /\ DrainRequired \in BOOLEAN
  BY PairAssumption DEF AOk
<1>2. /\ A!Reported(ok) \in A!IoType
      /\ A!Reported(ok).inflight = a_io.inflight /\ A!Reported(ok).queued = a_io.queued
      /\ A!Reported(ok).reliable = a_io.reliable /\ A!Reported(ok).claim = a_io.claim
  BY <1>1, ZenonT(60) DEF A!Reported, A!IoType, A!ReliableLease
<1> QED BY <1>2, Zenon DEF A!Freed, A!IoType

\* What the adapter is given is what the sink carries.
LEMMA AOnLine ==
    ASSUME NEW f \in LineUnit, NEW ok, NEW line \in A!OnLine(f, ok), NEW q, f.kind = "REL" => f.id = q /\ q.sid # 0
    PROVE  line \in Seq(LineUnit) /\ Carries(line, q)
<1>1. line = <<>> \/ line = <<f>>
  BY DEF A!OnLine
<1>2. <<>> \in Seq(LineUnit) /\ <<f>> \in Seq(LineUnit)
  OBVIOUS
<1>3. Carries(<<>>, q) /\ Carries(<<f>>, q)
  BY CarriesFacts, Zenon
<1> QED BY <1>1, <1>2, <1>3, Zenon

\* The control frame follows, and is no reliable unit.
LEMMA AThenControl ==
    ASSUME AOk, NEW q, NEW i \in A!IoType, NEW line \in Seq(LineUnit), Carries(line, q), A!ThenControl(i, line)
    PROVE  /\ a_io'.inflight = i.inflight /\ a_io'.queued = i.queued /\ a_io'.reliable = i.reliable
           /\ a_io'.claim = i.claim /\ Carries(a_wire', q)
<1>1. PICK r \in A!SubmitControl(a_ctl, i) : a_io' = r.io /\ a_wire' = line \o r.sent
  BY DEF A!ThenControl
<1>2. a_ctl \in A!CtlType
  BY DEF AOk
<1>3. /\ r.io.inflight = i.inflight /\ r.io.queued = i.queued /\ r.io.reliable = i.reliable
      /\ r.io.claim = i.claim /\ r.sent \in Seq(LineUnit) /\ Carries(r.sent, q)
  BY <1>2, AControl
<1> QED BY <1>1, <1>3, CarriesFacts

\* A completed submission leaves the lease.
LEMMA ASpent ==
    ASSUME NEW t \in A!TxType
    PROVE  A!Spent(t).state = t.state /\ A!Spent(t).handle = t.handle /\ A!Spent(t).seq = t.seq
BY DEF A!Spent, A!TxType

\* The unit with the adapter is the newest request's.
LEMMA AUnit ==
    ASSUME NEW q, AOk, Sends(q), a_io.inflight
    PROVE  a_mem.unit \in LineUnit /\ a_mem.unit.id = q /\ q.sid # 0
<1>1. a_mem.unit \in LineUnit
  BY PairAssumption, SMTT(30) DEF AOk, A!MemType, LineUnit, LineId, A!Id, A!Body, A!Scrap
<1> QED BY <1>1, SMTT(30) DEF Sends, A!ReliableLease

\* A retry submits the bytes of the same request again.
LEMMA AResubmit ==
    ASSUME NEW q, AOk, Sends(q), Open(a_tx), NEW i \in A!IoType, i.claim = "NONE",
           NEW r \in A!SendTxPayload(a_tx, i, a_mem),
           a_io' = r.io, a_mem' = A!Encoded(a_mem, a_tx),
           IF r.ok THEN a_tx' \in {r.tx, A!Spent(r.tx)} ELSE a_tx' = A!FailIo(r.tx, r.io).tx,
           UNCHANGED <<a_rx, a_serial>>
    PROVE  AKeeps(q, q) /\ r.sent \in Seq(LineUnit) /\ Carries(r.sent, q)
<1>1. a_tx \in A!TxType /\ a_serial.seq \in Int /\ Shrinks(a_rx.queue, a_rx'.queue)
  BY DEF AOk, Shrinks
<1>2. A!Encoded(a_mem, a_tx).unit.id = q /\ q.sid # 0 /\ A!Encoded(a_mem, a_tx).unit \in LineUnit
  BY AEncoded, ZenonT(60)
<1>3. /\ r.io \in A!IoType /\ r.tx \in A!TxType /\ r.ok \in BOOLEAN
      /\ r.io.claim = "NONE" /\ (r.io.inflight \/ r.io.queued => r.io.reliable)
      /\ r.tx.handle = a_tx.handle /\ r.tx.seq = a_tx.seq
      /\ r.ok => Open(r.tx)
      /\ ~r.ok => r.tx = a_tx
      /\ r.sent = <<>> \/ r.sent = <<A!Encoded(a_mem, a_tx).unit>>
  BY <1>1, AReliable
<1>4. r.sent \in Seq(LineUnit) /\ Carries(r.sent, q)
  <2>1. PICK f : f = A!Encoded(a_mem, a_tx).unit
    OBVIOUS
  <2>2. Carries(<<>>, q) /\ Carries(<<f>>, q) /\ <<f>> \in Seq(LineUnit) /\ <<>> \in Seq(LineUnit)
    BY <1>2, <2>1, CarriesFacts, SMTT(30)
  <2> QED BY <1>3, <2>1, <2>2, Zenon
<1>5. CASE r.ok
  <2>1. a_tx'.state = r.tx.state /\ a_tx'.handle = a_tx.handle /\ a_tx'.seq = a_tx.seq
    BY <1>3, <1>5, ASpent, ZenonT(60)
  <2>2. Settles(q) /\ Open(a_tx')
    BY <1>3, <1>5, <2>1, ZenonT(60) DEF Settles, Open
  <2> QED BY <1>1, <1>2, <1>3, <1>4, <2>1, <2>2, AKept, ZenonT(60)
<1>6. CASE ~r.ok
  <2>1. a_tx'.state = "FAILED" /\ a_tx'.handle = a_tx.handle
    BY <1>3, <1>6, AFails
  <2>2. Settles(q) /\ ~Open(a_tx')
    BY <2>1 DEF Settles, Open
  <2> QED BY <1>1, <1>2, <1>3, <1>4, <2>1, <2>2, AKept, ZenonT(60)
<1> QED BY <1>3, <1>5, <1>6, ZenonT(60)

\* The adapter consumes the reliable unit.
LEMMA AConsumedMoves ==
    ASSUME NEW q, AOk, Sends(q), A!TxConsumed
    PROVE  AMoves(q, q)
<1>1. /\ a_tx \in A!TxType /\ a_io \in A!IoType /\ a_mem \in A!MemType /\ a_ctl \in A!CtlType
      /\ a_serial.seq \in Int /\ a_io.claim = "NONE"
      /\ UNCHANGED <<a_rx, a_serial>> /\ Shrinks(a_rx.queue, a_rx'.queue)
  BY DEF AOk, Sends, A!TxConsumed, Shrinks
<1>2. ASSUME NEW ok \in BOOLEAN, A!ConsumedControl(ok) PROVE AMoves(q, q)
  <2>1. /\ a_io'.inflight = a_io.inflight /\ a_io'.queued = a_io.queued
        /\ a_io'.reliable = a_io.reliable /\ a_io'.claim = a_io.claim
        /\ UNCHANGED <<a_tx, a_mem>>
    BY <1>2, AFreed DEF A!ConsumedControl
  <2>2. A!AckFrame(a_ctl.ack) \in LineUnit /\ A!AckFrame(a_ctl.ack).kind # "REL"
    BY <1>1 DEF A!AckFrame, LineUnit, LineId, A!CtlType, A!Id, A!Scrap
  <2>3. a_wire' \in A!OnLine(A!AckFrame(a_ctl.ack), ok)
    BY <1>2 DEF A!ConsumedControl
  <2>4. Carries(a_wire', q)
    BY <2>2, <2>3, AOnLine
  <2>5. Settles(q) /\ a_tx'.handle \in {0, a_tx.handle} /\ (Open(a_tx') => Open(a_tx) /\ a_tx'.seq = a_tx.seq)
    BY <2>1, ZenonT(60) DEF Settles
  <2>6. AKeeps(q, q)
    BY <1>1, <2>1, <2>5, AKept, ZenonT(60) DEF Sends, A!ReliableLease
  <2> QED BY <2>4, <2>6 DEF AMoves
<1>3. CASE a_ctl.inflight
  BY <1>2, <1>3 DEF A!TxConsumed, A!ConsumedUnreliable, A!ConsumedSettled, A!ConsumedSent,
     A!ConsumedErrorQueue, A!ConsumedErrorRetry, A!ConsumedErrorFail, A!ReliableReport, A!ConsumedControl
<1>4. ASSUME ~a_ctl.inflight PROVE AMoves(q, q)
  <2>0. a_io.inflight /\ a_io.reliable /\ ~a_io.queued
    BY <1>4 DEF A!TxConsumed, Sends, AOk
  <2>1. a_mem.unit \in LineUnit /\ a_mem.unit.id = q /\ q.sid # 0
    BY <2>0, AUnit
  <2>2. ASSUME NEW i \in A!IoType, NEW line, NEW ok \in BOOLEAN, line \in A!OnLine(a_mem.unit, ok),
               A!ThenControl(i, line)
        PROVE  /\ a_io'.inflight = i.inflight /\ a_io'.queued = i.queued /\ a_io'.reliable = i.reliable
               /\ a_io'.claim = i.claim /\ Carries(a_wire', q)
    <3>1. line \in Seq(LineUnit) /\ Carries(line, q)
      BY <2>1, <2>2, AOnLine
    <3> QED BY <2>2, <3>1, AThenControl, ZenonT(60)
  <2>3. \A ok \in BOOLEAN : /\ A!Freed(ok) \in A!IoType /\ ~A!Freed(ok).inflight
                            /\ ~A!Freed(ok).queued /\ A!Freed(ok).claim = "NONE"
    BY <1>1, <2>0, AFreed, Zenon
  <2>4. ASSUME NEW ok \in BOOLEAN, A!ConsumedSettled(ok) PROVE AMoves(q, q)
    <3>1. a_tx'.state = a_tx.state /\ a_tx'.handle = a_tx.handle /\ a_tx'.seq = a_tx.seq
      BY <1>1, <2>4 DEF A!ConsumedSettled, A!TxType
    <3>2. PICK line \in A!OnLine(a_mem.unit, ok) : A!ThenControl(A!Freed(ok), line)
      BY <2>4 DEF A!ConsumedSettled
    <3>3. ~a_io'.inflight /\ ~a_io'.queued /\ a_io'.claim = "NONE" /\ Carries(a_wire', q)
      BY <2>2, <2>3, <3>2
    <3>4. Settles(q) /\ (Open(a_tx') => Open(a_tx))
      BY <3>1, ZenonT(60) DEF Settles, Open
    <3>5. AKeeps(q, q)
      BY <1>1, <3>1, <3>3, <3>4, AKept, ZenonT(60) DEF A!ReliableLease
    <3> QED BY <3>3, <3>5 DEF AMoves
  <2>5. ASSUME A!ConsumedSent PROVE AMoves(q, q)
    <3>1. Open(a_tx) /\ Open(a_tx') /\ a_tx'.handle = a_tx.handle /\ a_tx'.seq = a_tx.seq
      BY <1>1, <2>5 DEF A!ConsumedSent, A!ReliableReport, A!TxType, Open
    <3>2. <<a_mem.unit>> \in A!OnLine(a_mem.unit, TRUE) /\ A!ThenControl(A!Freed(TRUE), <<a_mem.unit>>)
      BY <2>5, Zenon DEF A!ConsumedSent, A!OnLine
    <3>3. ~a_io'.inflight /\ ~a_io'.queued /\ a_io'.claim = "NONE" /\ Carries(a_wire', q)
      BY <2>2, <2>3, <3>2, Zenon
    <3>4. Settles(q)
      BY <3>1, ZenonT(60) DEF Settles
    <3>5. AKeeps(q, q)
      BY <1>1, <3>1, <3>3, <3>4, AKept, ZenonT(60) DEF A!ReliableLease
    <3> QED BY <3>3, <3>5 DEF AMoves
  <2>6. ASSUME A!ConsumedErrorQueue PROVE AMoves(q, q)
    <3>1. a_tx'.state = a_tx.state /\ a_tx'.handle = a_tx.handle /\ a_tx'.seq = a_tx.seq
      BY <1>1, <2>6, ASpent DEF A!ConsumedErrorQueue
    <3>2. PICK line \in A!OnLine(a_mem.unit, FALSE) :
             A!ThenControl([A!Freed(FALSE) EXCEPT !.queued = TRUE, !.reliable = TRUE], line)
      BY <2>6, Zenon DEF A!ConsumedErrorQueue
    <3>3. PICK i : i = [A!Freed(FALSE) EXCEPT !.queued = TRUE, !.reliable = TRUE]
      OBVIOUS
    <3>4. i \in A!IoType /\ ~i.inflight /\ i.reliable /\ i.claim = "NONE"
      BY <2>3, <3>3, Zenon DEF A!IoType
    <3>5. ~a_io'.inflight /\ a_io'.reliable /\ a_io'.claim = "NONE" /\ Carries(a_wire', q)
      BY <2>2, <3>2, <3>3, <3>4, Zenon
    <3>6. Settles(q) /\ (Open(a_tx') => Open(a_tx))
      BY <3>1 DEF Settles, Open
    <3>7. AKeeps(q, q)
      BY <1>1, <3>1, <3>5, <3>6, AKept, ZenonT(60) DEF A!ReliableLease
    <3> QED BY <3>5, <3>7 DEF AMoves
  <2>7. ASSUME A!ConsumedErrorRetry PROVE AMoves(q, q)
    <3>1. PICK line \in A!OnLine(a_mem.unit, FALSE), r \in A!SendTxPayload(a_tx, A!Freed(FALSE), a_mem) :
             /\ a_io' = r.io /\ a_wire' = line \o r.sent
             /\ IF r.ok THEN a_tx' = A!Spent(r.tx) ELSE a_tx' = A!FailIo(r.tx, r.io).tx
      BY <2>7, Zenon DEF A!ConsumedErrorRetry
    <3>2. Open(a_tx) /\ a_mem' = A!Encoded(a_mem, a_tx)
      BY <2>7 DEF A!ConsumedErrorRetry, A!ReliableReport, Open
    <3>3. AKeeps(q, q) /\ r.sent \in Seq(LineUnit) /\ Carries(r.sent, q)
      <4>1. PICK i \in A!IoType : i = A!Freed(FALSE)
        BY <2>3, Zenon
      <4> QED BY <1>1, <2>3, <3>1, <3>2, <4>1, AResubmit, Zenon
    <3>4. line \in Seq(LineUnit) /\ Carries(line, q)
      BY <2>1, AOnLine, Zenon
    <3>5. Carries(a_wire', q)
      BY <3>1, <3>3, <3>4, CarriesFacts, ZenonT(60)
    <3> QED BY <3>3, <3>5 DEF AMoves
  <2>8. ASSUME A!ConsumedErrorFail PROVE AMoves(q, q)
    <3>1. a_tx'.state = "FAILED" /\ a_tx'.handle = a_tx.handle /\ Open(a_tx)
      BY <1>1, <2>8, AFails, Zenon DEF A!ConsumedErrorFail, A!ReliableReport, Open
    <3>2. PICK line \in A!OnLine(a_mem.unit, FALSE) : A!ThenControl(A!Freed(FALSE), line)
      BY <2>8, Zenon DEF A!ConsumedErrorFail
    <3>3. ~a_io'.inflight /\ ~a_io'.queued /\ a_io'.claim = "NONE" /\ Carries(a_wire', q)
      BY <2>2, <2>3, <3>2, Zenon
    <3>4. Settles(q) /\ ~Open(a_tx')
      BY <3>1, ZenonT(60) DEF Settles, Open
    <3>5. AKeeps(q, q)
      BY <1>1, <3>1, <3>3, <3>4, AKept, ZenonT(60) DEF A!ReliableLease
    <3> QED BY <3>3, <3>5 DEF AMoves
  <2> QED BY <1>4, <2>0, <2>4, <2>5, <2>6, <2>7, <2>8, ZenonT(60) DEF A!TxConsumed, A!ConsumedControl, A!ConsumedUnreliable
<1> QED BY <1>3, <1>4, ZenonT(60)

\* The adapter drains what was queued.
LEMMA ADrainedMoves ==
    ASSUME NEW q, AOk, Sends(q), A!TxDrained
    PROVE  AMoves(q, q)
<1>1. /\ a_tx \in A!TxType /\ a_io \in A!IoType /\ a_serial.seq \in Int /\ a_io.claim = "NONE"
      /\ UNCHANGED <<a_rx, a_serial, a_mem>> /\ Shrinks(a_rx.queue, a_rx'.queue)
      /\ a_wire' = <<>> /\ Carries(a_wire', q)
  BY CarriesFacts DEF AOk, Sends, A!TxDrained, Shrinks
<1>2. /\ a_io'.inflight = a_io.inflight /\ a_io'.queued = a_io.queued
      /\ a_io'.reliable = a_io.reliable /\ a_io'.claim = a_io.claim
  BY <1>1 DEF A!TxDrained, A!IoType
<1>3. CASE a_tx' = a_tx
  <2>1. Settles(q) /\ a_tx'.handle \in {0, a_tx.handle} /\ (Open(a_tx') => Open(a_tx) /\ a_tx'.seq = a_tx.seq)
    BY <1>3, ZenonT(60) DEF Settles
  <2>2. AKeeps(q, q)
    BY <1>1, <1>2, <2>1, AKept, ZenonT(60) DEF Sends, A!ReliableLease
  <2> QED BY <1>1, <2>2 DEF AMoves
<1>4. CASE a_tx.state = "WAITING_ACK" /\ a_tx' = [a_tx EXCEPT !.wait = "ACK", !.due = FALSE]
  <2>1. a_tx'.state = a_tx.state /\ a_tx'.handle = a_tx.handle /\ a_tx'.seq = a_tx.seq
    BY <1>1, <1>4, ZenonT(60) DEF A!TxType
  <2>2. Settles(q) /\ (Open(a_tx') => Open(a_tx))
    BY <2>1, ZenonT(60) DEF Settles, Open
  <2>3. AKeeps(q, q)
    BY <1>1, <1>2, <2>1, <2>2, AKept, ZenonT(60) DEF Sends, A!ReliableLease
  <2> QED BY <1>1, <2>3 DEF AMoves
<1>5. CASE a_tx.state = "WAITING_ACK"
           /\ a_tx' = A!PushTxEvent([a_tx EXCEPT !.state = "FAILED", !.wait = "NONE", !.result = "IO",
                                                 !.due = FALSE], a_io, a_event, "TX_FAILED").tx
  <2>1. PICK t : t = [a_tx EXCEPT !.state = "FAILED", !.wait = "NONE", !.result = "IO", !.due = FALSE]
    OBVIOUS
  <2>2. t \in A!TxType /\ t.state = "FAILED" /\ t.handle = a_tx.handle
    BY <1>1, <2>1, Zenon DEF A!TxType, A!TxStates
  <2>3. a_tx'.state = "FAILED" /\ a_tx'.handle = a_tx.handle
    <3>1. a_tx' = A!PushTxEvent(t, a_io, a_event, "TX_FAILED").tx
      BY <1>5, <2>1, Zenon
    <3>2. /\ A!PushTxEvent(t, a_io, a_event, "TX_FAILED").tx.state = t.state
          /\ A!PushTxEvent(t, a_io, a_event, "TX_FAILED").tx.handle = t.handle
      BY <2>2, AEnds
    <3> QED BY <2>2, <3>1, <3>2, Zenon
  <2>4. Settles(q) /\ ~Open(a_tx')
    BY <1>5, <2>3, SMTT(30) DEF Settles, Open
  <2>5. AKeeps(q, q)
    BY <1>1, <1>2, <2>3, <2>4, AClosed, Zenon
  <2> QED BY <1>1, <2>5 DEF AMoves
<1> QED BY <1>3, <1>4, <1>5, ZenonT(60) DEF A!TxDrained

\* A step that leaves the transaction's state and the physical unit alone.
LEMMA AIdle ==
    ASSUME NEW q, AOk, Sends(q),
           a_tx'.state = a_tx.state, a_tx'.handle = a_tx.handle, a_tx'.seq = a_tx.seq,
           a_io'.inflight = a_io.inflight, a_io'.queued = a_io.queued,
           a_io'.reliable = a_io.reliable, a_io'.claim = a_io.claim,
           UNCHANGED <<a_mem, a_serial>>, Shrinks(a_rx.queue, a_rx'.queue)
    PROVE  AKeeps(q, q)
<1>1. Settles(q) /\ (Open(a_tx') => Open(a_tx))
  BY ZenonT(60) DEF Settles, Open
<1>2. a_serial \in [session : Nat \ {0}, seq : 0 .. SeqMax, gen : 0 .. SeqMax]
  BY Zenon DEF AOk
<1>3. a_serial.seq \in Int
  BY <1>2
<1> QED BY <1>1, <1>3, AKept, ZenonT(60) DEF Sends, A!ReliableLease

\* The begin phase of a poll.
LEMMA APollBeginMoves ==
    ASSUME NEW q, AOk, Sends(q), A!PollBegin
    PROVE  AMoves(q, q)
<1>1. /\ a_tx \in A!TxType /\ a_io \in A!IoType /\ a_ctl \in A!CtlType /\ a_rx \in A!RxType
      /\ UNCHANGED <<a_mem, a_serial>>
  BY DEF AOk, A!PollBegin
<1>2. CASE A!NeedsProgress
  <2>1. PICK r \in A!SubmitControl(a_ctl, a_io) :
           /\ a_io' = r.io /\ a_wire' = r.sent
           /\ a_tx' = a_tx \/ a_tx' = [a_tx EXCEPT !.pending = "NONE"]
           /\ a_rx' = a_rx \/ a_rx' = [a_rx EXCEPT !.overflow = FALSE, !.queue = <<>>]
    BY <1>2 DEF A!PollBegin, A!Put
  <2>2. /\ r.io.inflight = a_io.inflight /\ r.io.queued = a_io.queued /\ r.io.reliable = a_io.reliable
        /\ r.io.claim = a_io.claim /\ Carries(r.sent, q)
    BY <1>1, AControl
  <2>3. a_tx'.state = a_tx.state /\ a_tx'.handle = a_tx.handle /\ a_tx'.seq = a_tx.seq
    BY <1>1, <2>1 DEF A!TxType
  <2>4. Shrinks(a_rx.queue, a_rx'.queue)
    BY <1>1, <2>1, Zenon DEF A!RxType, Shrinks
  <2> QED BY <1>1, <2>1, <2>2, <2>3, <2>4, AIdle, ZenonT(60) DEF AMoves
<1>3. CASE ~A!NeedsProgress
  <2>1. UNCHANGED <<a_tx, a_io, a_rx>> /\ a_wire' = <<>>
    BY <1>3 DEF A!PollBegin
  <2>2. Shrinks(a_rx.queue, a_rx'.queue) /\ Carries(a_wire', q)
    BY <2>1, CarriesFacts DEF Shrinks
  <2> QED BY <1>1, <2>1, <2>2, AIdle DEF AMoves
<1> QED BY <1>2, <1>3

\* The receive phase: an ACK of the newest request settles it.
LEMMA APollReceiveMoves ==
    ASSUME NEW q, AOk, Sends(q), A!PollReceive
    PROVE  AMoves(q, q)
<1>1. /\ a_tx \in A!TxType /\ a_io \in A!IoType /\ a_ctl \in A!CtlType /\ a_rx \in A!RxType
      /\ UNCHANGED <<a_mem, a_serial>> /\ a_rx.queue # <<>> /\ a_io.claim = "NONE" /\ a_serial.seq \in Int
  BY DEF AOk, Sends, A!PollReceive
<1>2. PICK frame : frame = Head(a_rx.queue) /\ frame \in LineUnit
  <2>1. a_rx.queue \in Seq(LineUnit)
    BY <1>1, UnitTypes, ZenonT(60) DEF A!RxType
  <2> QED BY <1>1, <2>1
<1>3. A!Route(frame)
  BY <1>2, ZenonT(60) DEF A!PollReceive
<1>4. Shrinks(a_rx.queue, a_rx'.queue)
  <2>1. A!Remember(frame) \in A!RxType /\ A!Remember(frame).queue = a_rx.queue
    BY <1>1, <1>2, ZenonT(60) DEF A!Remember, A!RxType, LineUnit, LineId, A!Id
  <2>2. a_rx' = [A!Remember(frame) EXCEPT !.hold = TRUE] \/ a_rx' = [A!Remember(frame) EXCEPT !.queue = Tail(@)]
    BY <1>2 DEF A!PollReceive
  <2>3. a_rx'.queue = a_rx.queue \/ a_rx'.queue = Tail(a_rx.queue)
    BY <2>1, <2>2, ZenonT(60) DEF A!RxType
  <2> QED BY <1>1, <2>3 DEF Shrinks
<1>5. CASE frame.kind = "REL"
  <2>1. PICK r \in A!SendAck(frame.id) : a_io' = r.io /\ a_wire' = r.sent /\ UNCHANGED a_tx
    BY <1>3, <1>5, ZenonT(60) DEF A!Route, A!Put
  <2>2. /\ r.io.inflight = a_io.inflight /\ r.io.queued = a_io.queued /\ r.io.reliable = a_io.reliable
        /\ r.io.claim = a_io.claim /\ Carries(r.sent, q)
    <3>1. CASE a_ctl.pending
      BY <3>1, CarriesFacts, SMTT(30) DEF A!SendAck
    <3>2. CASE ~a_ctl.pending
      <4>1. PICK c : c = [a_ctl EXCEPT !.pending = TRUE, !.ack = frame.id]
        OBVIOUS
      <4>2. c \in A!CtlType
        BY <1>1, <1>2, <4>1, Zenon DEF A!CtlType, A!Id, LineUnit, LineId
      <4>3. r \in A!SubmitControl(c, a_io)
        BY <3>2, <4>1, Zenon DEF A!SendAck
      <4> QED BY <1>1, <4>2, <4>3, AControl, ZenonT(60)
    <3> QED BY <3>1, <3>2
  <2> QED BY <1>1, <1>4, <2>1, <2>2, AIdle, ZenonT(60) DEF AMoves
<1>6. CASE frame.kind = "ACK" /\ A!AckMatches(frame.id)
  <2>1. PICK i : i = IF a_io.queued /\ a_io.reliable THEN [a_io EXCEPT !.queued = FALSE, !.reliable = FALSE] ELSE a_io
    OBVIOUS
  <2>2. PICK t : t = [A!Ended(a_tx, "SUCCESS", "OK") EXCEPT !.left = 0]
    BY Zenon
  <2>3. a_io' = i /\ a_tx' = A!PushTxEvent(t, i, a_event, "TX_SUCCESS").tx /\ a_wire' = <<>>
    BY <1>3, <1>6, <2>1, <2>2, ZenonT(60) DEF A!Route, A!HandleAck
  <2>4. t \in A!TxType /\ t.state = "SUCCESS" /\ t.handle = a_tx.handle
    <3>1. 0 \in 0 .. SeqMax /\ 0 \in 0 .. MaxRetries
      BY PairAssumption
    <3> QED BY <1>1, <2>2, <3>1, Zenon DEF A!Ended, A!TxType, A!TxStates
  <2>5. a_tx'.state = "SUCCESS" /\ a_tx'.handle = a_tx.handle
    <3>1. /\ A!PushTxEvent(t, i, a_event, "TX_SUCCESS").tx.state = t.state
          /\ A!PushTxEvent(t, i, a_event, "TX_SUCCESS").tx.handle = t.handle
      BY <2>4, APushes
    <3> QED BY <2>3, <2>4, <3>1, Zenon
  <2>6. Open(a_tx) /\ frame.id = q
    BY <1>6 DEF A!AckMatches, Open, Sends
  <2>7. Settles(q) /\ ~Open(a_tx')
    BY <1>1, <1>2, <1>6, <2>5, <2>6, ZenonT(60) DEF Settles, Open
  <2>8. /\ a_io'.claim = "NONE" /\ (a_io'.inflight \/ a_io'.queued => a_io'.reliable)
        /\ A!ReliableLease(a_io') => A!ReliableLease(a_io)
    BY <1>1, <2>1, <2>3, ZenonT(60) DEF A!IoType, A!ReliableLease, Sends, AOk
  <2>9. AKeeps(q, q)
    BY <1>1, <1>4, <2>5, <2>7, <2>8, AKept, ZenonT(60) DEF Sends
  <2> QED BY <2>3, <2>9, CarriesFacts, ZenonT(60) DEF AMoves
<1>7. CASE UNCHANGED <<a_tx, a_io>> /\ a_wire' = <<>>
  BY <1>1, <1>4, <1>7, AIdle, CarriesFacts, ZenonT(60) DEF AMoves
<1> QED BY <1>2, <1>3, <1>5, <1>6, <1>7, ZenonT(60) DEF A!Route, A!HandleAck, LineUnit

\* The remaining phases of a poll.
LEMMA APollMoves ==
    ASSUME NEW q, AOk, Sends(q), A!Poll
    PROVE  AMoves(q, q)
<1>1. /\ a_tx \in A!TxType /\ a_io \in A!IoType /\ a_mem \in A!MemType /\ a_rx \in A!RxType
      /\ a_io.claim = "NONE" /\ Carries(<<>>, q) /\ a_serial.seq \in Int
  <2>1. a_serial \in [session : Nat \ {0}, seq : 0 .. SeqMax, gen : 0 .. SeqMax]
    BY ZenonT(60) DEF AOk
  <2>2. a_serial.seq \in Int
    BY <2>1
  <2>3. Carries(<<>>, q)
    BY CarriesFacts, Zenon
  <2> QED BY <2>2, <2>3, ZenonT(60) DEF AOk, Sends
<1>2. CASE UNCHANGED <<a_tx, a_io, a_mem, a_rx, a_serial>> /\ a_wire' = <<>>
  <2>1. Shrinks(a_rx.queue, a_rx'.queue)
    BY <1>2, ZenonT(60) DEF Shrinks
  <2> QED BY <1>1, <1>2, <2>1, AIdle, ZenonT(60) DEF AMoves
<1>3. CASE A!PollReceived
  BY <1>2, <1>3, SMTT(30) DEF A!PollReceived
<1>4. ASSUME NEW r \in A!SendTxPayload(a_tx, a_io, a_mem), Open(a_tx),
             a_io' = r.io, a_wire' = r.sent, a_mem' = A!Encoded(a_mem, a_tx),
             IF r.ok THEN a_tx' \in {r.tx, A!Spent(r.tx)} ELSE a_tx' = A!FailIo(r.tx, r.io).tx,
             UNCHANGED <<a_rx, a_serial>>
      PROVE  AMoves(q, q)
  BY <1>1, <1>4, AResubmit, Zenon DEF AMoves
<1>5. CASE A!PollQueued
  <2>1. CASE ~A!QueuedReady
    BY <1>2, <1>5, <2>1, ZenonT(60) DEF A!PollQueued
  <2>2. CASE A!QueuedReady
    <3>1. a_io.reliable /\ Open(a_tx)
      BY <2>2, ZenonT(60) DEF A!QueuedReady, Sends, AOk, Open
    <3>2. PICK r \in A!SendTxPayload(a_tx, a_io, a_mem) :
             /\ a_io' = r.io /\ a_wire' = r.sent /\ a_mem' = A!Encoded(a_mem, a_tx)
             /\ IF r.ok THEN a_tx' = r.tx ELSE a_tx' = A!FailIo(r.tx, r.io).tx
      BY <1>5, <2>2, <3>1, ZenonT(60) DEF A!PollQueued, A!Put
    <3>3. UNCHANGED <<a_rx, a_serial>>
      BY <1>5 DEF A!PollQueued
    <3> QED BY <1>4, <3>1, <3>2, <3>3, ZenonT(60)
  <2> QED BY <2>1, <2>2, ZenonT(60)
<1>6. CASE A!PollTimer
  <2>1. CASE ~A!TimerReady
    BY <1>2, <1>6, <2>1, ZenonT(60) DEF A!PollTimer
  <2>2. Open(a_tx) \/ ~A!TimerReady
    BY ZenonT(60) DEF A!TimerReady, A!RetryDue, Open
  <2>3. UNCHANGED <<a_rx, a_serial>>
    BY <1>6 DEF A!PollTimer
  <2>4. CASE A!TimerReady /\ a_tx.left = 0
    <3>1. /\ a_tx' = A!PushTxEvent(A!Ended(a_tx, "FAILED", "TIMEOUT"), a_io, a_event, "TX_TIMEOUT").tx
          /\ a_wire' = <<>> /\ UNCHANGED <<a_io, a_mem>>
      BY <1>6, <2>4, ZenonT(60) DEF A!PollTimer
    <3>2. PICK t : t = A!Ended(a_tx, "FAILED", "TIMEOUT")
      OBVIOUS
    <3>3. t \in A!TxType /\ t.state = "FAILED" /\ t.handle = a_tx.handle
      <4>1. 0 \in 0 .. SeqMax
        BY PairAssumption
      <4> QED BY <1>1, <3>2, <4>1, ZenonT(60) DEF A!Ended, A!TxType, A!TxStates
    <3>4. a_tx'.state = "FAILED" /\ a_tx'.handle = a_tx.handle
      <4>1. /\ A!PushTxEvent(t, a_io, a_event, "TX_TIMEOUT").tx.state = t.state
            /\ A!PushTxEvent(t, a_io, a_event, "TX_TIMEOUT").tx.handle = t.handle
        BY <3>3, APushes
      <4> QED BY <3>1, <3>2, <3>3, <4>1, Zenon
    <3>5. Settles(q) /\ ~Open(a_tx') /\ Shrinks(a_rx.queue, a_rx'.queue)
      BY <2>2, <2>3, <2>4, <3>4, ZenonT(60) DEF Settles, Open, Shrinks
    <3>6. AKeeps(q, q)
      BY <1>1, <2>3, <3>1, <3>4, <3>5, AClosed, Zenon
    <3> QED BY <1>1, <3>1, <3>6, ZenonT(60) DEF AMoves
  <2>5. CASE A!TimerReady /\ a_tx.left # 0
    <3>1. PICK r \in A!SendTxPayload(a_tx, a_io, a_mem) :
             /\ a_io' = r.io /\ a_wire' = r.sent /\ a_mem' = A!Encoded(a_mem, a_tx)
             /\ IF r.ok THEN a_tx' = A!Spent(r.tx) ELSE a_tx' = A!FailIo(r.tx, r.io).tx
      BY <1>6, <2>5, Zenon DEF A!PollTimer, A!Put
    <3> QED BY <1>4, <2>2, <2>3, <2>5, <3>1, ZenonT(60)
  <2> QED BY <2>1, <2>4, <2>5, ZenonT(60)
<1>7. CASE A!PollReturn
  <2>1. /\ UNCHANGED <<a_tx, a_mem, a_serial>> /\ a_wire' = <<>>
        /\ a_io' = a_io \/ a_io' = [a_io EXCEPT !.compl = @ - 1]
        /\ a_rx' = a_rx \/ a_rx' = [a_rx EXCEPT !.leased = TRUE]
    BY <1>7 DEF A!PollReturn
  <2>2. /\ a_io'.inflight = a_io.inflight /\ a_io'.queued = a_io.queued
        /\ a_io'.reliable = a_io.reliable /\ a_io'.claim = a_io.claim
    BY <1>1, <2>1 DEF A!IoType
  <2>3. Shrinks(a_rx.queue, a_rx'.queue)
    BY <1>1, <2>1, ZenonT(60) DEF A!RxType, Shrinks
  <2> QED BY <1>1, <2>1, <2>2, <2>3, AIdle, ZenonT(60) DEF AMoves
<1> QED BY <1>3, <1>5, <1>6, <1>7, APollBeginMoves, APollReceiveMoves, ZenonT(60) DEF A!Poll

-----------------------------------------------------------------------------
(* The steps of context b *)

LEMMA BControl ==
    ASSUME NEW c \in B!CtlType, NEW i \in B!IoType, NEW r \in B!SubmitControl(c, i)
    PROVE  /\ r.io.inflight = i.inflight /\ r.io.queued = i.queued /\ r.io.compl = i.compl
           /\ r.ctl.pending => c.pending /\ r.ctl.ack = c.ack
           /\ \A k \in DOMAIN r.sent : r.sent[k].kind = "ACK" => c.pending /\ r.sent[k].id = c.ack
<1>1. CASE r = [ctl |-> c, io |-> i, sent |-> <<>>]
  <2>1. r.ctl = c /\ r.io = i /\ r.sent = <<>>
    BY <1>1, Zenon
  <2>2. \A k \in DOMAIN r.sent : FALSE
    BY <2>1
  <2> QED BY <2>1, <2>2, Zenon
<1>2. CASE c.pending /\ \E res \in SinkResults : r = B!ControlAnswer(c, i, res)
  <2>1. /\ r.io = i \/ r.io = [i EXCEPT !.writable = FALSE]
        /\ r.ctl \in {c, [c EXCEPT !.pending = FALSE], [c EXCEPT !.inflight = TRUE]}
        /\ r.sent = <<>> \/ r.sent = <<B!AckFrame(c.ack)>>
    BY <1>2 DEF B!ControlAnswer
  <2>2. \A k \in DOMAIN r.sent : r.sent[k].kind = "ACK" => r.sent[k].id = c.ack
    BY <2>1 DEF B!AckFrame
  <2>3. r.io.inflight = i.inflight /\ r.io.queued = i.queued /\ r.io.compl = i.compl
    BY <2>1 DEF B!IoType
  <2>4. r.ctl.ack = c.ack
    BY <2>1, ZenonT(60) DEF B!CtlType
  <2> QED BY <1>2, <2>2, <2>3, <2>4, ZenonT(60)
<1> QED BY <1>1, <1>2, Zenon DEF B!SubmitControl

\* A step that leaves the event alone.
LEMMA BKept ==
    ASSUME Receives, b_tx'.state = b_tx.state, b_tx'.pending = b_tx.pending,
           b_io'.inflight = b_io.inflight, b_io'.queued = b_io.queued, b_io'.compl = b_io.compl,
           b_event' = b_event, b_event = B!NoEvent \/ b_pc' \in {"queued", "timer", "finish"}
    PROVE  Receives'
BY DEF Receives, RelEvent, B!IsRx, B!NoEvent, B!BadFrame, B!NoId, B!Scrap

\* The calls of the application on b.
LEMMA BCallMoves ==
    ASSUME BOk, Receives, B!EventRelease \/ B!Adapter
    PROVE  BMoves
<1>1. /\ b_tx \in B!TxType /\ b_io \in B!IoType /\ b_ctl \in B!CtlType /\ b_rx \in B!RxType
      /\ b_pc = "idle" /\ b_pc' = b_pc /\ b_event = B!NoEvent /\ ~b_io.inflight
      /\ b_tx.state = "IDLE"
  BY ZenonT(60) DEF BOk, Receives, B!EventRelease, B!Adapter, B!Writable, B!TxConsumed, B!TxDrained, B!Calling
<1>2. CASE B!EventRelease
  <2>1. UNCHANGED <<b_tx, b_io, b_ctl, b_event>> /\ b_wire' = <<>>
    BY <1>2 DEF B!EventRelease
  <2>2. b_rx' = [b_rx EXCEPT !.leased = FALSE, !.hold = FALSE, !.queue = IF b_rx.hold THEN Tail(@) ELSE @]
    BY <1>2 DEF B!EventRelease
  <2>3. b_rx'.last = b_rx.last /\ b_rx'.queue \in {b_rx.queue, Tail(b_rx.queue)}
    BY <1>1, <2>2, ZenonT(60) DEF B!RxType
  <2>4. b_rx.queue = <<>> => b_rx'.queue = <<>>
    BY <1>1, <2>2 DEF B!RxType, BOk
  <2>5. Shrinks(b_rx.queue, b_rx'.queue)
    BY <2>3, <2>4, Zenon DEF Shrinks
  <2>6. BQuiet
    BY <1>1, <2>1, <2>3, <2>5 DEF BQuiet
  <2> QED BY <1>1, <2>1, <2>6, BKept, ZenonT(60) DEF BMoves
<1>3. CASE B!Writable
  <2>1. UNCHANGED <<b_tx, b_rx, b_ctl, b_event>> /\ b_wire' = <<>>
    BY <1>3 DEF B!Writable
  <2>2. b_io'.inflight = b_io.inflight /\ b_io'.queued = b_io.queued /\ b_io'.compl = b_io.compl
    BY <1>1, <1>3, ZenonT(60) DEF B!Writable, B!IoType
  <2>3. BQuiet
    BY <1>1, <2>1 DEF BQuiet, Shrinks
  <2> QED BY <1>1, <2>1, <2>2, <2>3, BKept, ZenonT(60) DEF BMoves
<1>4. CASE B!TxConsumed
  <2>1. PICK ok \in BOOLEAN : B!ConsumedControl(ok)
    BY <1>1, <1>4, ZenonT(60) DEF B!TxConsumed, B!ConsumedUnreliable, B!ConsumedSettled, B!ConsumedSent,
       B!ConsumedErrorQueue, B!ConsumedErrorRetry, B!ConsumedErrorFail, B!ReliableReport
  <2>2. /\ UNCHANGED <<b_tx, b_event, b_rx>> /\ b_ctl.inflight
        /\ b_ctl' = [b_ctl EXCEPT !.pending = FALSE, !.inflight = FALSE]
        /\ b_io' = B!Reported(ok) /\ b_wire' \in B!OnLine(B!AckFrame(b_ctl.ack), ok)
    BY <1>4, <2>1, ZenonT(60) DEF B!TxConsumed, B!ConsumedControl
  <2>3. b_io'.inflight = b_io.inflight /\ b_io'.queued = b_io.queued /\ b_io'.compl = b_io.compl
    BY <1>1, <2>2 DEF B!Reported, B!IoType
  <2>4. ~b_ctl'.pending /\ b_ctl.pending
    BY <1>1, <2>2, ZenonT(60) DEF B!CtlType, BOk
  <2>5. \A k \in DOMAIN b_wire' : b_wire'[k].kind = "ACK" => b_wire'[k].id = b_ctl.ack
    <3>1. b_wire' = <<>> \/ b_wire' = <<B!AckFrame(b_ctl.ack)>>
      BY <2>2 DEF B!OnLine
    <3> QED BY <3>1 DEF B!AckFrame
  <2>6. BQuiet
    BY <1>1, <2>2, <2>4, <2>5, ZenonT(60) DEF BQuiet, Shrinks
  <2> QED BY <1>1, <2>2, <2>3, <2>6, BKept, ZenonT(60) DEF BMoves
<1>5. CASE B!TxDrained
  <2>1. UNCHANGED <<b_tx, b_rx, b_ctl, b_event>> /\ b_wire' = <<>>
    BY <1>1, <1>5 DEF B!TxDrained
  <2>2. b_io'.inflight = b_io.inflight /\ b_io'.queued = b_io.queued /\ b_io'.compl = b_io.compl
    BY <1>1, <1>5, ZenonT(60) DEF B!TxDrained, B!IoType
  <2>3. BQuiet
    BY <1>1, <2>1 DEF BQuiet, Shrinks
  <2> QED BY <1>1, <2>1, <2>2, <2>3, BKept, ZenonT(60) DEF BMoves
<1> QED BY <1>2, <1>3, <1>4, <1>5, ZenonT(60) DEF B!Adapter

\* The begin phase of a poll.
LEMMA BPollBeginMoves ==
    ASSUME BOk, Receives, B!PollBegin
    PROVE  BMoves
<1>1. /\ b_tx \in B!TxType /\ b_io \in B!IoType /\ b_ctl \in B!CtlType /\ b_rx \in B!RxType
      /\ b_pc = "idle" /\ b_event = B!NoEvent /\ b_tx.pending = "NONE"
  BY DEF BOk, Receives, B!PollBegin
<1>2. CASE B!NeedsProgress
  <2>1. PICK r \in B!SubmitControl(b_ctl, b_io) :
           /\ b_ctl' = r.ctl /\ b_io' = r.io /\ b_wire' = r.sent /\ UNCHANGED <<b_tx, b_event>>
           /\ b_rx' = b_rx \/ b_rx' = [b_rx EXCEPT !.overflow = FALSE, !.queue = <<>>]
    BY <1>1, <1>2, ZenonT(60) DEF B!PollBegin, B!Put
  <2>2. /\ r.io.inflight = b_io.inflight /\ r.io.queued = b_io.queued /\ r.io.compl = b_io.compl
        /\ r.ctl.pending => b_ctl.pending /\ r.ctl.ack = b_ctl.ack
        /\ \A k \in DOMAIN r.sent : r.sent[k].kind = "ACK" => b_ctl.pending /\ r.sent[k].id = b_ctl.ack
    BY <1>1, BControl
  <2>3. Shrinks(b_rx.queue, b_rx'.queue) /\ b_rx'.last = b_rx.last
    BY <1>1, <2>1, Zenon DEF B!RxType, Shrinks
  <2>4. BQuiet
    BY <1>1, <2>1, <2>2, <2>3, ZenonT(60) DEF BQuiet
  <2> QED BY <1>1, <2>1, <2>2, <2>4, BKept, ZenonT(60) DEF BMoves
<1>3. CASE ~B!NeedsProgress
  <2>1. UNCHANGED <<b_tx, b_io, b_ctl, b_event, b_rx>> /\ b_wire' = <<>>
    BY <1>3, ZenonT(60) DEF B!PollBegin
  <2>2. BQuiet
    BY <1>1, <2>1 DEF BQuiet, Shrinks
  <2> QED BY <1>1, <2>1, <2>2, BKept, ZenonT(60) DEF BMoves
<1> QED BY <1>2, <1>3, ZenonT(60)

\* The receive phase routes the unit at the head.
LEMMA BPollReceiveMoves ==
    ASSUME BOk, Receives, B!PollReceive
    PROVE  BMoves
<1>1. /\ b_tx \in B!TxType /\ b_io \in B!IoType /\ b_ctl \in B!CtlType /\ b_rx \in B!RxType
      /\ b_pc = "rx" /\ b_event = B!NoEvent /\ b_tx.state = "IDLE" /\ b_rx.queue # <<>>
  BY DEF BOk, Receives, B!PollReceive
<1>2. PICK f \in LineUnit : f = Head(b_rx.queue)
  <2>1. b_rx.queue \in Seq(LineUnit)
    BY <1>1, UnitTypes, ZenonT(60) DEF B!RxType
  <2> QED BY <1>1, <2>1
<1>3. B!Route(f)
  BY <1>2, ZenonT(60) DEF B!PollReceive
<1>4. /\ b_rx'.queue \in {b_rx.queue, Tail(b_rx.queue)}
      /\ IF f.kind = "REL" THEN b_rx'.last = f.id ELSE b_rx'.last = b_rx.last
  <2>1. /\ B!Remember(f) \in B!RxType /\ B!Remember(f).queue = b_rx.queue
        /\ IF f.kind = "REL" THEN B!Remember(f).last = f.id ELSE B!Remember(f).last = b_rx.last
    BY <1>1, <1>2, ZenonT(60) DEF B!Remember, B!RxType, LineUnit, LineId, B!Id
  <2>2. b_rx' = [B!Remember(f) EXCEPT !.hold = TRUE] \/ b_rx' = [B!Remember(f) EXCEPT !.queue = Tail(@)]
    BY <1>2 DEF B!PollReceive
  <2>3. b_rx'.queue \in {b_rx.queue, Tail(b_rx.queue)} /\ b_rx'.last = B!Remember(f).last
    BY <2>1, <2>2 DEF B!RxType
  <2> QED BY <2>1, <2>3, ZenonT(60)
<1>5. B!NoEvent.type = "NONE"
  BY ZenonT(60) DEF B!NoEvent
<1>6. /\ UNCHANGED b_tx /\ b_io'.inflight = b_io.inflight /\ b_io'.queued = b_io.queued
      /\ b_io'.compl = b_io.compl
      /\ b_ctl'.pending => \/ b_ctl.pending /\ b_ctl'.ack = b_ctl.ack
                           \/ f.kind = "REL" /\ b_ctl'.ack = f.id
      /\ \A k \in DOMAIN b_wire' : b_wire'[k].kind = "ACK" => f.kind = "REL" /\ b_wire'[k].id = f.id
      /\ IF f.kind = "REL" /\ f.id # b_rx.last THEN b_event' = B!RxEvent(f) /\ b_event'.type = "RELIABLE_RX"
                                                   /\ b_event'.frame = f
         ELSE b_event' = B!NoEvent \/ b_event'.type = "UNRELIABLE_RX"
  <2>1. CASE f.kind = "REL"
    <3>1. PICK r \in B!SendAck(f.id) : b_ctl' = r.ctl /\ b_io' = r.io /\ b_wire' = r.sent
      BY <1>3, <2>1 DEF B!Route, B!Put
    <3>2. UNCHANGED b_tx /\ b_event' = IF f.id = b_rx.last THEN b_event ELSE B!RxEvent(f)
      BY <1>3, <2>1, ZenonT(60) DEF B!Route
    <3>3. B!RxEvent(f).type = "RELIABLE_RX" /\ B!RxEvent(f).frame = f
      BY <2>1, ZenonT(60) DEF B!RxEvent
    <3>4. CASE b_ctl.pending
      <4>1. b_ctl' = b_ctl /\ b_io' = b_io /\ b_wire' = <<>>
        BY <3>1, <3>4 DEF B!SendAck
      <4>2. \A k \in DOMAIN b_wire' : b_wire'[k].kind = "ACK" => f.kind = "REL" /\ b_wire'[k].id = f.id
        BY <4>1
      <4>3. /\ f.id # b_rx.last => b_event' = B!RxEvent(f) /\ b_event'.type = "RELIABLE_RX" /\ b_event'.frame = f
            /\ f.id = b_rx.last => b_event' = B!NoEvent
        BY <1>1, <3>2, <3>3, Zenon
      <4>4. UNCHANGED b_tx /\ UNCHANGED b_ctl /\ UNCHANGED b_io
        BY <3>2, <4>1, Zenon
      <4> QED BY <2>1, <3>4, <4>2, <4>3, <4>4, ZenonT(60)
    <3>5. CASE ~b_ctl.pending
      <4>1. PICK c : c = [b_ctl EXCEPT !.pending = TRUE, !.ack = f.id]
        OBVIOUS
      <4>2. c \in B!CtlType /\ c.ack = f.id
        BY <1>1, <1>2, <4>1, Zenon DEF B!CtlType, B!Id, LineUnit, LineId
      <4>3. r \in B!SubmitControl(c, b_io)
        BY <3>1, <3>5, <4>1, Zenon DEF B!SendAck
      <4>4. /\ r.io.inflight = b_io.inflight /\ r.io.queued = b_io.queued /\ r.io.compl = b_io.compl
            /\ r.ctl.pending => r.ctl.ack = c.ack
            /\ \A k \in DOMAIN r.sent : r.sent[k].kind = "ACK" => r.sent[k].id = c.ack
        BY <1>1, <4>2, <4>3, BControl, ZenonT(60)
      <4> QED BY <1>1, <2>1, <3>1, <3>2, <3>3, <4>2, <4>4, ZenonT(60)
    <3> QED BY <3>4, <3>5, Zenon
  <2>2. CASE f.kind = "UNREL"
    <3>1. b_event' = B!RxEvent(f) /\ b_wire' = <<>> /\ UNCHANGED <<b_tx, b_io, b_ctl>>
      BY <1>3, <2>2, ZenonT(60) DEF B!Route
    <3>2. \A k \in DOMAIN b_wire' : FALSE
      BY <3>1
    <3> QED BY <2>2, <3>1, <3>2 DEF B!RxEvent
  <2>3. CASE f.kind \notin {"REL", "UNREL"}
    <3>1. UNCHANGED <<b_tx, b_io, b_ctl, b_event>> /\ b_wire' = <<>>
      BY <1>1, <1>3, <2>3, ZenonT(60) DEF B!Route, B!HandleAck, B!AckMatches
    <3> QED BY <1>1, <2>3, <3>1
  <2> QED BY <2>1, <2>2, <2>3, ZenonT(60)
<1>7. BTakes(f)
  BY <1>1, <1>2, <1>4, <1>5, <1>6, ZenonT(60) DEF BTakes, RelEvent
<1>8. b_event' # B!NoEvent => b_pc' = "queued"
  BY <1>2, <1>5, <1>6, ZenonT(60) DEF B!PollReceive, B!IsRx
<1>9. Receives'
  BY <1>5, <1>6, <1>8 DEF Receives, RelEvent, B!IsRx, B!NoEvent, B!BadFrame, B!NoId, B!Scrap
<1> QED BY <1>7, <1>9, ZenonT(60) DEF BMoves

\* The remaining phases of a poll; the last one hands the event over.
LEMMA BPollMoves ==
    ASSUME BOk, Receives, B!Poll
    PROVE  BMoves
<1>1. /\ b_tx \in B!TxType /\ b_io \in B!IoType /\ b_ctl \in B!CtlType /\ b_rx \in B!RxType
      /\ b_tx.state = "IDLE" /\ ~b_io.queued /\ b_io.compl = 0
      /\ b_pc = "rx" => b_event = B!NoEvent
  BY DEF BOk, Receives
<1>2. CASE B!PollReceived \/ B!PollQueued \/ B!PollTimer
  <2>1. UNCHANGED <<b_tx, b_io, b_ctl, b_event, b_rx>> /\ b_wire' = <<>>
    BY <1>1, <1>2, ZenonT(60) DEF B!PollReceived, B!PollQueued, B!PollTimer, B!QueuedReady, B!TimerReady, B!RetryDue
  <2>2. b_pc # "finish" /\ b_pc' \in {"queued", "timer", "finish"}
    BY <1>2, ZenonT(60) DEF B!PollReceived, B!PollQueued, B!PollTimer
  <2>3. BQuiet
    BY <2>1, <2>2 DEF BQuiet, Shrinks
  <2> QED BY <2>1, <2>2, <2>3, BKept, ZenonT(60) DEF BMoves
<1>3. CASE B!PollReturn
  <2>1. /\ UNCHANGED <<b_tx, b_ctl, b_io>> /\ b_wire' = <<>> /\ b_event' = B!NoEvent
        /\ b_out' = b_event /\ b_pc = "finish"
        /\ b_rx' = b_rx \/ b_rx' = [b_rx EXCEPT !.leased = TRUE]
    BY <1>1, <1>3 DEF B!PollReturn
  <2>2. b_rx'.queue = b_rx.queue /\ b_rx'.last = b_rx.last
    BY <1>1, <2>1 DEF B!RxType
  <2>3. BReturns
    BY <2>1, <2>2 DEF BReturns
  <2>4. ~RelEvent(b_event')
    BY <2>1 DEF RelEvent, B!NoEvent
  <2>5. Receives'
    BY <2>1, <2>4 DEF Receives, RelEvent, B!NoEvent, B!BadFrame, B!NoId, B!Scrap
  <2> QED BY <2>3, <2>5 DEF BMoves
<1> QED BY <1>2, <1>3, BPollBeginMoves, BPollReceiveMoves, ZenonT(60) DEF B!Poll
=============================================================================
