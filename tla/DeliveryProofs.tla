--------------------------- MODULE DeliveryProofs ---------------------------
(***************************************************************************)
(* On a line that keeps the order of units, two contexts implement         *)
(* Delivery, whatever the line loses and repeats, however often context a  *)
(* restarts, and for every configuration.                                  *)
(*                                                                         *)
(* The argument follows a request.  What context a puts on the line        *)
(* carries the identity of its newest request, and identities only grow.   *)
(* The units between a's sink and b's duplicate record are therefore       *)
(* sorted, and the record is not above any of them: a unit that differs    *)
(* from the record is newer than everything b's application got.  An ACK   *)
(* is only ever made of a unit b's application has got or will get from    *)
(* the same poll, so the ACK that settles a transaction tells the truth.   *)
(***************************************************************************)
EXTENDS DeliverySteps

-----------------------------------------------------------------------------
(* Both contexts and the line *)

\* What relates the two contexts, the line and the history.
Rest ==
    /\ Sends(Newest) /\ Receives
    /\ History /\ VerdictOk /\ Record /\ Pipe /\ AckInv

\* A step of a, once it is known to which request it belongs.
StepOfA(p) ==
    /\ AMoves(Newest, p)
    /\ b_pc = "idle"
    /\ toB' = Carry(toB, a_wire')
    /\ asked' = IF Asks THEN Append(asked, [sid |-> a_serial.session, seq |-> a_serial.seq]) ELSE asked
    /\ verdict' = Verdict(a_tx')
    /\ UNCHANGED <<bVars, toA, got>>

\* A step of a keeps the order of the requests.
LEMMA StepAHistory ==
    ASSUME NEW p, AOk, AOk', Rest, StepOfA(p)
    PROVE  /\ History' /\ p = Newest' /\ p \in LineId /\ Le(Newest, p)
           /\ p.sid # 0 => D!Among(p, asked)'
           /\ \A r : D!Among(r, asked) => D!Among(r, asked)'
<1>0. /\ asked \in Seq(Request) /\ History /\ got' = got /\ Newest \in LineId
      /\ a_serial.seq \in 0 .. SeqMax /\ a_serial.session \in 1 .. Restarts + 1
      /\ a_serial'.session = a_serial.session /\ a_serial'.seq \in Nat
      /\ got \in Seq(Request)
  BY NewestFacts, PairAssumption, SMTT(60) DEF Rest, History, StepOfA, AMoves, AKeeps, AOk
<1>1. verdict' \in {"none", "open", "success", "failed"}
  BY DEF StepOfA, Verdict, Rest, History
<1>2. CASE Asks
  <2>1. PICK r : r = [sid |-> a_serial.session, seq |-> a_serial.seq]
    BY ZenonT(60)
  <2>2. p = r /\ asked' = Append(asked, r) /\ a_serial'.seq = a_serial.seq + 1
    BY <1>2, <2>1, Zenon DEF StepOfA, AMoves, AKeeps
  <2>3. r \in Request /\ r \in LineId
    BY <1>0, <2>1, RequestFacts, ZenonT(60) DEF Request
  <2>4. \A k \in DOMAIN asked : Lt(asked[k], r)
    BY <1>0, <2>1, SMTT(30) DEF History
  <2>5. PICK s \in Seq(Request) : s = asked'
    BY <1>0, <2>2, <2>3, AppendFacts, Zenon
  <2>6. /\ s # <<>> /\ s[Len(s)] = r /\ Len(asked) + 1 \in DOMAIN s /\ s[Len(asked) + 1] = r
        /\ \A k \in DOMAIN asked : k \in DOMAIN s /\ s[k] = asked[k] /\ k < Len(asked) + 1
        /\ \A k \in DOMAIN s : k \in DOMAIN asked \/ k = Len(asked) + 1
    BY <1>0, <2>2, <2>3, <2>5, AppendFacts, SMTT(30)
  <2>7. PICK n : n = [sid |-> a_serial'.session, seq |-> a_serial'.seq]
    BY Zenon
  <2>8. n \in LineId /\ Lt(r, n)
    BY <1>0, <2>1, <2>2, <2>7 DEF Lt, LineId
  <2>9. \A k \in DOMAIN asked : asked[k] \in LineId
    BY <1>0, RequestFacts
  <2>10. \A k \in DOMAIN s : Lt(s[k], n)
    <3>1. \A x \in LineId : Lt(x, r) => Lt(x, n)
      BY <2>3, <2>8, OrderFacts, ZenonT(60)
    <3> QED BY <2>4, <2>6, <2>8, <2>9, <3>1, Zenon
  <2>11. \A j, k \in DOMAIN s : j < k => Lt(s[j], s[k])
    <3> SUFFICES ASSUME NEW j \in DOMAIN s, NEW k \in DOMAIN s, j < k PROVE Lt(s[j], s[k])
      OBVIOUS
    <3>1. j \in DOMAIN asked
      BY <2>5, <2>6, <1>0
    <3>2. CASE k \in DOMAIN asked
      BY <1>0, <2>6, <3>1, <3>2, Zenon DEF History
    <3>3. CASE k = Len(asked) + 1
      BY <2>4, <2>6, <3>1, <3>3, Zenon
    <3> QED BY <2>6, <3>2, <3>3, Zenon
  <2>12. History'
    <3>1. got' \in Seq(Request) /\ a_serial'.session \in 1 .. Restarts + 1
      BY <1>0
    <3> QED BY <1>1, <2>5, <2>7, <2>10, <2>11, <3>1, ZenonT(60) DEF History
  <2>13. p = Newest'
    BY <2>2, <2>5, <2>6 DEF Newest
  <2>14. D!Among(p, asked)' /\ \A x : D!Among(x, asked) => D!Among(x, asked)'
    BY <2>2, <2>5, <2>6, Zenon DEF D!Among
  <2>15. Le(Newest, p)
    <3>1. CASE asked = <<>>
      BY <2>2, <2>3, <3>1, OrderFacts, ZenonT(60) DEF Newest
    <3>2. CASE asked # <<>>
      <4>1. D!Among(Newest, asked)
        BY <1>0, <3>2, NewestFacts
      <4>2. Lt(Newest, r)
        BY <2>4, <4>1, Zenon DEF D!Among
      <4> QED BY <1>0, <2>2, <2>3, <4>2, OrderFacts, ZenonT(60)
    <3> QED BY <3>1, <3>2
  <2> QED BY <2>2, <2>3, <2>12, <2>13, <2>14, <2>15, ZenonT(60)
<1>3. CASE ~Asks
  <2>1. asked' = asked /\ p = Newest /\ a_serial'.seq >= a_serial.seq
    BY <1>3, Zenon DEF StepOfA, AMoves, AKeeps
  <2>2. p = Newest'
    BY <2>1 DEF Newest
  <2>3. Le(Newest, p)
    BY <1>0, <2>1, OrderFacts, ZenonT(60)
  <2>4. p.sid # 0 => D!Among(p, asked)'
    BY <1>0, <2>1, NewestFacts, RequestFacts, ZenonT(60) DEF D!Among
  <2>5. PICK m, n : m = [sid |-> a_serial.session, seq |-> a_serial.seq] /\ n = [sid |-> a_serial'.session, seq |-> a_serial'.seq]
    BY Zenon
  <2>6. m \in LineId /\ n \in LineId /\ Le(m, n)
    BY <1>0, <2>1, <2>5 DEF Le, LineId
  <2>7. \A k \in DOMAIN asked : asked[k] \in LineId
    BY <1>0, RequestFacts
  <2>8. \A k \in DOMAIN asked : Lt(asked[k], n)
    <3>1. \A x \in LineId : Lt(x, m) => Lt(x, n)
      BY <2>6, OrderFacts
    <3>2. \A k \in DOMAIN asked : Lt(asked[k], m)
      BY <1>0, <2>5, Zenon DEF History
    <3> QED BY <2>7, <3>1, <3>2, Zenon
  <2>9. History'
    BY <1>0, <1>1, <2>1, <2>5, <2>8, Zenon DEF History
  <2>10. \A r : D!Among(r, asked) => D!Among(r, asked)'
    BY <2>1, Zenon DEF D!Among
  <2> QED BY <1>0, <2>1, <2>2, <2>3, <2>4, <2>9, <2>10, Zenon
<1> QED BY <1>2, <1>3, ZenonT(60)

\* A step of a keeps the verdict true, and success means that b was told.
LEMMA StepAVerdict ==
    ASSUME NEW p, AOk, AOk', Receives, Rest, StepOfA(p)
    PROVE  VerdictOk' /\ [D!DeliveryNext]_Seen
<1>1. /\ a_tx.state \in A!TxStates /\ a_tx'.state \in A!TxStates /\ got' = got
      /\ VerdictOk /\ History /\ verdict' = Verdict(a_tx')
  BY Zenon DEF AOk, A!TxType, Rest, StepOfA
<1>2. /\ Open(a_tx') => verdict' = "open"
      /\ a_tx'.state = "SUCCESS" => verdict' = "success"
      /\ a_tx'.state \in {"FAILED", "CANCELLED"} => verdict' = "failed"
      /\ a_tx'.state = "IDLE" => verdict' = verdict
  BY <1>1 DEF Verdict, Open
<1>3. CASE Asks
  <2>1. a_tx.state = "IDLE" /\ Open(a_tx')
    BY <1>3, Zenon DEF StepOfA, AMoves, AKeeps
  <2>2. verdict' = "open" /\ verdict # "open" /\ VerdictOk'
    BY <1>1, <1>2, <2>1 DEF VerdictOk, Open
  <2>3. PICK r : r = [sid |-> a_serial.session, seq |-> a_serial.seq]
    BY Zenon
  <2>4. asked' = Append(asked, r)
    BY <1>3, <2>3 DEF StepOfA
  <2>5. r \in Request /\ r \in LineId
    BY <1>1, <2>3, RequestFacts, Zenon DEF History, Request, AOk
  <2>6. ~D!Among(r, asked)
    <3>1. \A k \in DOMAIN asked : Lt(asked[k], r)
      BY <1>1, <2>3, Zenon DEF History
    <3>2. ~Lt(r, r)
      BY <2>5, OrderFacts
    <3> QED BY <3>1, <3>2, Zenon DEF D!Among
  <2>7. D!Ask(r)
    BY <1>1, <2>2, <2>4, <2>6, Zenon DEF D!Ask
  <2> QED BY <2>2, <2>5, <2>7, Zenon DEF D!DeliveryNext
<1>4. CASE ~Asks
  <2>1. asked' = asked /\ Settles(Newest)
    BY <1>4 DEF StepOfA, AMoves, AKeeps
  <2>2. CASE (a_tx'.state = a_tx.state) \/ (Open(a_tx) /\ Open(a_tx')) \/ (a_tx.state \in A!Terminal /\ a_tx'.state = "IDLE")
    <3>1. verdict' = verdict /\ VerdictOk'
      BY <1>1, <1>2, <2>2, ZenonT(60) DEF VerdictOk, Open, A!TxStates, A!Terminal
    <3> QED BY <1>1, <2>1, <3>1, ZenonT(60) DEF Seen
  <2>3. CASE Open(a_tx) /\ a_tx'.state \in {"FAILED", "CANCELLED"}
    <3>1. verdict = "open" /\ verdict' = "failed" /\ VerdictOk'
      BY <1>1, <1>2, <2>3 DEF VerdictOk, Open
    <3> QED BY <1>1, <2>1, <3>1, ZenonT(60) DEF D!DeliveryNext, D!GiveUp
  <2>4. CASE /\ Open(a_tx) /\ a_tx'.state = "SUCCESS"
             /\ a_rx.queue # <<>> /\ Head(a_rx.queue).kind = "ACK" /\ Head(a_rx.queue).id = Newest
    <3>1. verdict = "open" /\ verdict' = "success" /\ VerdictOk'
      BY <1>1, <1>2, <2>4, SMTT(30) DEF VerdictOk, Open
    <3>2. a_rx.queue \in Seq(LineUnit)
      BY UnitTypes, Zenon DEF AOk, A!RxType
    <3>3. Told(Newest)
      <4>1. 1 \in DOMAIN a_rx.queue /\ Head(a_rx.queue) = a_rx.queue[1]
        BY <2>4, <3>2, UnitFacts, ZenonT(60)
      <4> QED BY <2>4, <4>1, Zenon DEF Rest, AckInv, TrueAcks
    <3>4. ~RelEvent(b_event)
      BY DEF Receives, StepOfA, RelEvent, B!NoEvent
    <3>5. D!Among(Newest, got)
      BY <3>3, <3>4, Zenon DEF Told
    <3>6. Newest.sid # 0
      BY <2>4, SMTT(60) DEF Rest, Sends, AOk
    <3>7. Newest = D!Latest(asked)
      BY <1>1, <3>6, NewestFacts, RequestFacts
    <3>8. D!Succeed
      BY <1>1, <2>1, <3>1, <3>5, <3>7, Zenon DEF D!Succeed
    <3> QED BY <3>1, <3>8, Zenon DEF D!DeliveryNext
  <2> QED BY <2>1, <2>2, <2>3, <2>4, ZenonT(60) DEF Settles
<1> QED BY <1>3, <1>4, SMTT(30)

\* A step of a keeps the rest of the invariant.
LEMMA StepAInv ==
    ASSUME NEW p, AOk, AOk', BOk, Rest, StepOfA(p)
    PROVE  Rest' /\ [D!DeliveryNext]_Seen
<1>1. /\ UNCHANGED <<b_tx, b_io, b_ctl, b_rx, b_event, b_pc, toA, got>>
      /\ toB' = Carry(toB, a_wire')
  BY DEF StepOfA, bVars
<1>2. /\ History' /\ p = Newest' /\ p \in LineId /\ Le(Newest, p)
      /\ p.sid # 0 => D!Among(p, asked)'
      /\ \A r : D!Among(r, asked) => D!Among(r, asked)'
  BY StepAHistory
<1>3. VerdictOk' /\ [D!DeliveryNext]_Seen
  BY StepAVerdict, ZenonT(60) DEF Rest
<1>4. Sends(Newest)'
  <2>1. Sends(p)'
    BY SMTT(30) DEF StepOfA, AMoves, AKeeps
  <2> QED BY <1>2, <2>1, ZenonT(60) DEF Sends
<1>5. Receives'
  BY <1>1, SMTT(30) DEF Rest, Receives
<1>6. Record'
  <2>1. (b_rx.last # NoneYet => D!Among(b_rx.last, asked))'
    BY <1>1, <1>2, Zenon DEF Rest, Record
  <2>2. RelEvent(b_event)' = RelEvent(b_event)
    BY <1>1 DEF RelEvent
  <2>3. D!Latest(got)' = D!Latest(got)
    BY <1>1, SMTT(30) DEF D!Latest
  <2>4. D!Among(D!Latest(got), asked) => D!Among(D!Latest(got), asked)'
    <3>1. PICK x : x = D!Latest(got)
      OBVIOUS
    <3>2. D!Among(x, asked) => D!Among(x, asked)'
      BY <1>2
    <3> QED BY <1>1, <3>1, <3>2 DEF D!Among, D!Latest
  <2> QED BY <1>1, <2>1, <2>2, <2>3, <2>4, Zenon DEF Rest, Record
<1>7. Pipe'
  <2>1. b_rx.queue \in Seq(LineUnit) /\ b_rx.last \in LineId /\ toB \in Seq(LineUnit) /\ toA \in Seq(LineUnit)
    BY UnitTypes, SMTT(30) DEF BOk, B!RxType, Rest, Pipe, LineId, B!Id
  <2>2. a_wire' \in Seq(LineUnit)
    <3>1. A!Frame' = A!Frame
      BY DEF A!Frame, A!Id
    <3> QED BY <3>1, UnitTypes, Zenon DEF AOk
  <2>3. PICK u \in Seq(LineUnit) : u = a_wire'
    BY <2>2, SMTT(30)
  <2>4. Carries(u, p) /\ \A k \in DOMAIN u : u[k].kind = "REL" => u[k].body = u[k].id.seq
    BY <2>3, Zenon DEF AOk, StepOfA, AMoves, Carries
  <2>5. Newest \in LineId
    BY NewestFacts, SMTT(30) DEF Rest
  <2>6. Flow(b_rx.queue, toB \o u, b_rx.last, p) /\ Flow(b_rx.queue, toB, b_rx.last, p)
    BY <1>2, <2>1, <2>4, <2>5, FlowCarry, ZenonT(60) DEF Rest, Pipe
  <2>7. PICK t \in Seq(LineUnit) :
          /\ t = toB' /\ t \in {toB, toB \o u}
          /\ \A k \in DOMAIN t : (\E j \in DOMAIN toB : t[k] = toB[j]) \/ (\E j \in DOMAIN u : t[k] = u[j])
    <3>0. /\ Carry(toB, u) \in Seq(LineUnit) /\ Carry(toB, u) \in {toB, toB \o u}
          /\ \A k \in DOMAIN Carry(toB, u) : \/ \E j \in DOMAIN toB : Carry(toB, u)[k] = toB[j]
                                             \/ \E j \in DOMAIN u : Carry(toB, u)[k] = u[j]
      BY <2>1, CarriedUnits, Zenon
    <3>1. PICK t : t = Carry(toB, u)
      OBVIOUS
    <3>2. /\ t \in Seq(LineUnit) /\ t \in {toB, toB \o u}
          /\ \A k \in DOMAIN t : (\E j \in DOMAIN toB : t[k] = toB[j]) \/ (\E j \in DOMAIN u : t[k] = u[j])
      BY <3>0, <3>1, Zenon
    <3>3. t = toB'
      BY <1>1, <2>3, <3>1, Zenon
    <3> QED BY <3>2, <3>3, Zenon
  <2>8. Flow(b_rx.queue, t, b_rx.last, p)
    BY <2>6, <2>7, ZenonT(60)
  <2>9. Flow(b_rx.queue, toB, b_rx.last, Newest)'
    BY <1>1, <1>2, <2>7, <2>8, Zenon DEF Flow, Within, Sorted, Ahead
  <2>10. Asked(b_rx.queue)'
    BY <1>1, <1>2, Zenon DEF Rest, Pipe, Asked
  <2>11. \A k \in DOMAIN t : t[k].kind = "REL" => D!Among(t[k].id, asked)' /\ t[k].body = t[k].id.seq
    <3> SUFFICES ASSUME NEW k \in DOMAIN t, t[k].kind = "REL"
                 PROVE  D!Among(t[k].id, asked)' /\ t[k].body = t[k].id.seq
      OBVIOUS
    <3>1. (\E j \in DOMAIN toB : t[k] = toB[j]) \/ (\E j \in DOMAIN u : t[k] = u[j])
      BY <2>7, Zenon
    <3>2. CASE \E j \in DOMAIN toB : t[k] = toB[j]
      BY <1>2, <3>2, Zenon DEF Rest, Pipe, Asked
    <3>3. CASE \E j \in DOMAIN u : t[k] = u[j]
      <4>1. t[k].id = p /\ p.sid # 0 /\ t[k].body = t[k].id.seq
        BY <2>4, <3>3, Zenon DEF Carries
      <4> QED BY <1>2, <4>1 DEF D!Among
    <3> QED BY <3>1, <3>2, <3>3, ZenonT(60)
  <2>12. Asked(toB)'
    BY <2>7, <2>11, Zenon DEF Asked
  <2>13. toA' \in Seq(LineUnit) /\ toB' \in Seq(LineUnit)
    BY <1>1, <2>1, <2>7
  <2> QED BY <2>9, <2>10, <2>12, <2>13, ZenonT(60) DEF Pipe
<1>8. AckInv'
  <2>1. \A r : Told(r)' = Told(r)
    BY <1>1, SMTT(30) DEF Told, D!Among, RelEvent
  <2>2. a_rx.queue \in Seq(LineUnit) /\ Shrinks(a_rx.queue, a_rx'.queue)
    BY UnitTypes, Zenon DEF AOk, A!RxType, StepOfA, AMoves, AKeeps
  <2>3. \A k \in DOMAIN a_rx'.queue : \E j \in DOMAIN a_rx.queue : a_rx'.queue[k] = a_rx.queue[j]
    BY <2>2, ShrunkUnits
  <2>4. TrueAcks(a_rx.queue)'
    BY <2>1, <2>3, Zenon DEF Rest, AckInv, TrueAcks
  <2>5. TrueAcks(toA)' /\ (b_ctl.pending => Told(b_ctl.ack))'
    BY <1>1, <2>1, Zenon DEF Rest, AckInv, TrueAcks
  <2> QED BY <2>4, <2>5 DEF AckInv
<1> QED BY <1>2, <1>3, <1>4, <1>5, <1>6, <1>7, <1>8, ZenonT(60) DEF Rest

\* A step of b.
StepOfB ==
    /\ BMoves
    /\ toA' = Carry(toA, b_wire')
    /\ got' = IF b_pc = "finish" /\ b_out'.type = "RELIABLE_RX"
              THEN Append(got, [sid |-> b_out'.frame.id.sid, seq |-> b_out'.frame.body]) ELSE got
    /\ UNCHANGED <<aVars, toB, asked, verdict>>

\* What the three kinds of step of b have in common.
LEMMA StepBRest ==
    ASSUME BOk, BOk', AOk, Rest, StepOfB,
           got' \in Seq(Request), Record', Flow(b_rx.queue, toB, b_rx.last, Newest)',
           \A r : Told(r) => Told(r)',
           \A r : b_ctl'.pending /\ b_ctl'.ack = r => Told(r)',
           \A r : \A k \in DOMAIN b_wire' : b_wire'[k].kind = "ACK" /\ b_wire'[k].id = r => Told(r)',
           Shrinks(b_rx.queue, b_rx'.queue)
    PROVE  Rest'
<1>1. UNCHANGED <<a_tx, a_io, a_mem, a_rx, a_serial, toB, asked, verdict>> /\ toA' = Carry(toA, b_wire')
  BY ZenonT(60) DEF StepOfB, aVars
<1>2. Newest' = Newest
  BY <1>1, ZenonT(60) DEF Newest
<1>3. Sends(Newest)' /\ Receives'
  BY <1>1, <1>2, Zenon DEF Rest, Sends, StepOfB, BMoves, A!ReliableLease, Open
<1>4. History' /\ VerdictOk'
  BY <1>1, Zenon DEF Rest, History, VerdictOk, Open
<1>5. b_rx.queue \in Seq(LineUnit) /\ toB \in Seq(LineUnit) /\ toA \in Seq(LineUnit)
  BY UnitTypes, ZenonT(60) DEF BOk, B!RxType, Rest, Pipe
<1>6. PICK u \in Seq(LineUnit) : u = b_wire'
  <2>1. B!Frame' = B!Frame
    BY DEF B!Frame, B!Id
  <2> QED BY <2>1, UnitTypes, ZenonT(60) DEF BOk
<1>7. PICK t \in Seq(LineUnit) :
        /\ t = toA'
        /\ \A k \in DOMAIN t : (\E j \in DOMAIN toA : t[k] = toA[j]) \/ (\E j \in DOMAIN u : t[k] = u[j])
  <2>1. /\ Carry(toA, u) \in Seq(LineUnit)
        /\ \A k \in DOMAIN Carry(toA, u) : \/ \E j \in DOMAIN toA : Carry(toA, u)[k] = toA[j]
                                           \/ \E j \in DOMAIN u : Carry(toA, u)[k] = u[j]
    BY <1>5, CarriedUnits, ZenonT(60)
  <2>2. toA' = Carry(toA, u)
    BY <1>1, <1>6, Zenon
  <2> QED BY <2>1, <2>2, Zenon
<1>8. Pipe'
  <2>1. \A k \in DOMAIN b_rx'.queue : \E j \in DOMAIN b_rx.queue : b_rx'.queue[k] = b_rx.queue[j]
    BY <1>5, ShrunkUnits, SMTT(60)
  <2>2. \A r : D!Among(r, asked)' = D!Among(r, asked)
    BY <1>1 DEF D!Among
  <2>3. Asked(b_rx.queue)' /\ Asked(toB)'
    BY <1>1, <2>1, <2>2, Zenon DEF Rest, Pipe, Asked
  <2>4. toA' \in Seq(LineUnit) /\ toB' \in Seq(LineUnit)
    BY <1>1, <1>5, <1>7
  <2> QED BY <2>3, <2>4, ZenonT(60) DEF Pipe
<1>9. AckInv'
  <2>1. \A r : \A k \in DOMAIN t : t[k].kind = "ACK" /\ t[k].id = r => Told(r)'
    <3>1. \A r : \A j \in DOMAIN toA : toA[j].kind = "ACK" /\ toA[j].id = r => Told(r)'
      BY Zenon DEF Rest, AckInv, TrueAcks
    <3>2. \A r : \A j \in DOMAIN u : u[j].kind = "ACK" /\ u[j].id = r => Told(r)'
      BY <1>6, Zenon
    <3> QED BY <1>7, <3>1, <3>2, Zenon
  <2>2. TrueAcks(toA)'
    BY <1>7, <2>1, Zenon DEF TrueAcks
  <2>3. TrueAcks(a_rx.queue)'
    BY <1>1, Zenon DEF Rest, AckInv, TrueAcks
  <2> QED BY <2>2, <2>3, Zenon DEF AckInv
<1> QED BY <1>3, <1>4, <1>8, <1>9, ZenonT(60) DEF Rest

\* A step of b that routes nothing.
LEMMA StepBQuiet ==
    ASSUME BOk, BOk', AOk, Rest, StepOfB, BQuiet
    PROVE  Rest' /\ UNCHANGED Seen
<1>1. /\ UNCHANGED <<toB, asked, verdict>> /\ got' = got /\ b_event' = b_event
      /\ b_rx'.last = b_rx.last /\ Shrinks(b_rx.queue, b_rx'.queue)
  BY DEF StepOfB, BQuiet
<1>2. Newest' = Newest
  BY <1>1, ZenonT(60) DEF Newest
<1>3. \A r : Told(r)' = Told(r)
  BY <1>1 DEF Told, D!Among, RelEvent
<1>4. Record'
  BY <1>1, Zenon DEF Rest, Record, RelEvent, D!Among, D!Latest
<1>5. Flow(b_rx.queue, toB, b_rx.last, Newest)'
  <2>1. b_rx.queue \in Seq(LineUnit)
    BY UnitTypes DEF BOk, B!RxType
  <2>2. PICK t : t = b_rx'.queue
    BY ZenonT(60)
  <2>3. Flow(t, toB, b_rx.last, Newest)
    BY <1>1, <2>1, <2>2, FlowTailQueue, FlowEmptyQueue, ZenonT(60) DEF Rest, Pipe, Shrinks
  <2> QED BY <1>1, <1>2, <2>2, <2>3, ZenonT(60) DEF Flow, Within, Sorted, Ahead
<1>6. got' \in Seq(Request)
  BY <1>1 DEF Rest, History
<1>7. /\ \A r : b_ctl'.pending /\ b_ctl'.ack = r => Told(r)'
      /\ \A r : \A k \in DOMAIN b_wire' : b_wire'[k].kind = "ACK" /\ b_wire'[k].id = r => Told(r)'
  <2>1. \A r : b_ctl.pending /\ b_ctl.ack = r => Told(r)'
    BY <1>3, Zenon DEF Rest, AckInv
  <2> QED BY <2>1, Zenon DEF BQuiet
<1> QED BY <1>1, <1>3, <1>4, <1>5, <1>6, <1>7, StepBRest, ZenonT(60) DEF Seen

\* The unit at the head is routed: it is the next delivery, a duplicate, or no request.
LEMMA StepBTakes ==
    ASSUME BOk, BOk', AOk, Rest, StepOfB, NEW f \in LineUnit, BTakes(f)
    PROVE  Rest' /\ UNCHANGED Seen
<1>1. /\ UNCHANGED <<toB, asked, verdict>> /\ got' = got /\ ~RelEvent(b_event)
      /\ b_rx.queue # <<>> /\ f = Head(b_rx.queue)
      /\ b_rx'.queue \in {b_rx.queue, Tail(b_rx.queue)}
  BY Zenon DEF StepOfB, BTakes, RelEvent, B!NoEvent
<1>2. /\ f.kind = "REL" => b_rx'.last = f.id
      /\ f.kind # "REL" => b_rx'.last = b_rx.last
      /\ f.kind = "REL" /\ f.id # b_rx.last => RelEvent(b_event') /\ b_event'.frame = f
      /\ f.kind # "REL" \/ f.id = b_rx.last => ~RelEvent(b_event')
  BY Zenon DEF BTakes
<1>3. Newest' = Newest
  BY <1>1, SMTT(30) DEF Newest
<1>4. /\ b_rx.queue \in Seq(LineUnit) /\ b_rx.last \in LineId /\ toB \in Seq(LineUnit) /\ f.id \in LineId
      /\ got \in Seq(Request) /\ Newest \in LineId
  BY UnitTypes, NewestFacts, ZenonT(60) DEF BOk, B!RxType, Rest, Pipe, LineId, B!Id, LineUnit, History
<1>5. 1 \in DOMAIN b_rx.queue /\ f = b_rx.queue[1]
  BY <1>1, <1>4, UnitFacts, ZenonT(60)
<1>6. f.kind = "REL" => /\ D!Among(f.id, asked) /\ f.body = f.id.seq /\ f.id \in Request /\ f.id # NoneYet
                        /\ Le(b_rx.last, f.id)
  <2>1. f.kind = "REL" => D!Among(f.id, asked) /\ f.body = f.id.seq /\ Le(b_rx.last, f.id)
    BY <1>5, Zenon DEF Rest, Pipe, Asked, Flow, Within
  <2>2. \A r : D!Among(r, asked) => r \in Request
    BY NewestFacts, ZenonT(60) DEF Rest
  <2> QED BY <2>1, <2>2, RequestFacts, Zenon
<1>7. /\ got = <<>> => b_rx.last = NoneYet
      /\ got # <<>> => /\ b_rx.last = D!Latest(got) /\ b_rx.last # NoneYet
                       /\ D!Among(b_rx.last, asked) /\ D!Among(b_rx.last, got)
  <2>1. b_rx.last = IF got = <<>> THEN NoneYet ELSE D!Latest(got)
    BY <1>1, Zenon DEF Rest, Record
  <2>2. got # <<>> => D!Latest(got) \in Request /\ D!Among(D!Latest(got), got)
    BY <1>4 DEF D!Latest, D!Among
  <2>3. got # <<>> => b_rx.last # NoneYet
    BY <2>1, <2>2, RequestFacts, ZenonT(60)
  <2> QED BY <2>1, <2>2, <2>3 DEF Rest, Record
<1>8. \A r : D!Among(r, asked)' = D!Among(r, asked)
  BY <1>1, ZenonT(60) DEF D!Among
<1>9. Record'
  <2>1. D!Latest(got)' = D!Latest(got) /\ RelEvent(b_event)' = RelEvent(b_event')
    BY <1>1 DEF D!Latest, RelEvent
  <2>2. CASE f.kind = "REL" /\ f.id # b_rx.last
    <3>1. got # <<>> => Lt(D!Latest(got), f.id)
      BY <1>4, <1>6, <1>7, <2>2, OrderFacts, SMTT(60)
    <3>2. /\ b_rx'.last = f.id /\ RelEvent(b_event') /\ b_event'.frame = f /\ f.id # NoneYet
          /\ f.body = f.id.seq
      BY <1>2, <1>6, <2>2, Zenon
    <3>3. D!Among(b_rx'.last, asked')
      BY <1>1, <1>6, <2>2, <3>2, Zenon
    <3>4. got # <<>> => D!Among(D!Latest(got), asked)
      BY <1>7, Zenon
    <3> QED BY <1>1, <2>1, <3>1, <3>2, <3>3, <3>4, Zenon DEF Record, RelEvent, D!Among, D!Latest
  <2>3. CASE f.kind # "REL" \/ f.id = b_rx.last
    <3>1. b_rx'.last = b_rx.last /\ ~RelEvent(b_event')
      BY <1>2, <2>3
    <3>2. b_rx.last # NoneYet => D!Among(b_rx.last, asked)
      BY Zenon DEF Rest, Record
    <3>3. b_rx.last = IF got = <<>> THEN NoneYet ELSE D!Latest(got)
      BY <1>7, SMTT(30)
    <3> QED BY <1>1, <2>1, <3>1, <3>2, <3>3, ZenonT(60) DEF Record, RelEvent, D!Among, D!Latest
  <2> QED BY <2>2, <2>3, ZenonT(60)
<1>10. Flow(b_rx.queue, toB, b_rx.last, Newest)'
  <2>1. PICK t, l : t = b_rx'.queue /\ l = b_rx'.last
    OBVIOUS
  <2>2. Flow(b_rx.queue, toB, b_rx.last, Newest)
    BY DEF Rest, Pipe
  <2>3. Flow(b_rx.queue, toB, l, Newest)
    <3>1. CASE f.kind = "REL"
      <4>1. Flow(b_rx.queue, toB, f.id, Newest)
        BY <1>1, <1>4, <2>2, <3>1, FlowRecord, ZenonT(60)
      <4> QED BY <1>2, <2>1, <3>1, <4>1, Zenon
    <3>2. CASE f.kind # "REL"
      BY <1>2, <2>1, <2>2, <3>2, Zenon
    <3> QED BY <3>1, <3>2, ZenonT(60)
  <2>4. Flow(t, toB, l, Newest)
    BY <1>1, <1>4, <2>1, <2>3, FlowTailQueue, Zenon
  <2> QED BY <1>1, <1>3, <2>1, <2>4, Zenon DEF Flow, Within, Sorted, Ahead
<1>11. \A r : Told(r) => Told(r)'
  BY <1>1, Zenon DEF Told, D!Among
<1>12. \A r : f.kind = "REL" /\ f.id = r => Told(r)'
  <2> SUFFICES ASSUME NEW r, f.kind = "REL", f.id = r PROVE Told(r)'
    OBVIOUS
  <2>1. CASE f.id # b_rx.last
    BY <1>2, <2>1, Zenon DEF Told, RelEvent
  <2>2. CASE f.id = b_rx.last
    <3>1. D!Among(r, got)
      BY <1>6, <1>7, <2>2, Zenon
    <3> QED BY <1>11, <3>1, Zenon DEF Told
  <2> QED BY <2>1, <2>2, ZenonT(60)
<1>13. /\ \A r : b_ctl'.pending /\ b_ctl'.ack = r => Told(r)'
       /\ \A r : \A k \in DOMAIN b_wire' : b_wire'[k].kind = "ACK" /\ b_wire'[k].id = r => Told(r)'
  <2>1. \A r : b_ctl.pending /\ b_ctl.ack = r => Told(r)'
    BY <1>11, Zenon DEF Rest, AckInv
  <2> QED BY <1>12, <2>1, Zenon DEF BTakes
<1>14. Shrinks(b_rx.queue, b_rx'.queue)
  BY <1>1, Zenon DEF Shrinks
<1>15. got' \in Seq(Request)
  BY <1>1, <1>4
<1> QED BY <1>1, <1>9, <1>10, <1>11, <1>13, <1>14, <1>15, StepBRest, ZenonT(60) DEF Seen


\* The poll returns: what it shows the application is the next delivery.
LEMMA StepBReturns ==
    ASSUME BOk, BOk', AOk, Rest, StepOfB, BReturns
    PROVE  Rest' /\ [D!DeliveryNext]_Seen
<1>1. /\ UNCHANGED <<toB, asked, verdict>> /\ b_pc = "finish" /\ b_out' = b_event
      /\ b_event' = B!NoEvent /\ ~RelEvent(b_event')
      /\ b_rx'.queue = b_rx.queue /\ b_rx'.last = b_rx.last
      /\ b_ctl' = b_ctl /\ b_wire' = <<>>
  BY DEF StepOfB, BReturns, RelEvent, B!NoEvent
<1>2. Newest' = Newest
  BY <1>1, ZenonT(60) DEF Newest
<1>3. /\ got \in Seq(Request) /\ History /\ b_rx.last \in LineId /\ b_rx.last = [sid |-> b_rx.last.sid, seq |-> b_rx.last.seq]
  BY SMTT(30) DEF Rest, History, BOk, B!RxType, B!Id, LineId
<1>4. Flow(b_rx.queue, toB, b_rx.last, Newest)'
  BY <1>1, <1>2, ZenonT(60) DEF Rest, Pipe, Flow, Within, Sorted, Ahead
<1>5. \A r : D!Among(r, asked)' = D!Among(r, asked)
  BY <1>1 DEF D!Among
<1>6. b_rx.last # NoneYet => D!Among(b_rx.last, asked)
  BY Zenon DEF Rest, Record
<1>7. CASE RelEvent(b_event)
  <2>1. /\ b_rx.last # NoneYet /\ b_event.frame.id = b_rx.last /\ b_event.frame.body = b_rx.last.seq
        /\ got # <<>> => D!Among(D!Latest(got), asked) /\ Lt(D!Latest(got), b_rx.last)
    BY <1>7, Zenon DEF Rest, Record
  <2>2. got' = Append(got, b_rx.last)
    <3>1. got' = Append(got, [sid |-> b_event.frame.id.sid, seq |-> b_event.frame.body])
      BY <1>1, <1>7, Zenon DEF StepOfB, RelEvent
    <3> QED BY <1>3, <2>1, <3>1, ZenonT(60)
  <2>3. D!Among(b_rx.last, asked) /\ b_rx.last \in Request
    BY <1>3, <1>6, <2>1, NewestFacts, ZenonT(60)
  <2>4. PICK x \in Request : x = b_rx.last
    BY <2>3, ZenonT(60)
  <2>5. PICK s \in Seq(Request) : s = got'
    BY <1>3, <2>2, <2>4, AppendFacts, ZenonT(60)
  <2>6. /\ s # <<>> /\ s[Len(s)] = x /\ Len(got) + 1 \in DOMAIN s /\ s[Len(got) + 1] = x
        /\ \A k \in DOMAIN got : k \in DOMAIN s /\ s[k] = got[k]
    BY <1>3, <2>2, <2>4, <2>5, AppendFacts
  <2>7. D!Deliver(x)
    <3>1. got # <<>> => D!Before(D!Latest(got), x)
      <4>1. got # <<>> => D!Latest(got) \in LineId
        BY <1>3, RequestFacts DEF D!Latest
      <4> QED BY <1>3, <2>1, <2>3, <2>4, <4>1, BeforeFacts, ZenonT(60)
    <3> QED BY <1>1, <2>2, <2>3, <2>4, <3>1, Zenon DEF D!Deliver
  <2>8. Record'
    <3>1. got' # <<>> /\ D!Latest(got)' = b_rx'.last
      BY <1>1, <2>4, <2>5, <2>6, ZenonT(60) DEF D!Latest
    <3>2. D!Among(b_rx'.last, asked')
      BY <1>1, <2>3, Zenon
    <3> QED BY <1>1, <3>1, <3>2, Zenon DEF Record, RelEvent
  <2>9. \A r : Told(r) => Told(r)'
    <3>1. \A r : D!Among(r, got) => D!Among(r, got)'
      BY <2>5, <2>6, Zenon DEF D!Among
    <3>2. D!Among(x, got)'
      BY <2>5, <2>6, Zenon DEF D!Among
    <3> QED BY <2>1, <2>4, <3>1, <3>2, Zenon DEF Told
  <2>10. /\ \A r : b_ctl'.pending /\ b_ctl'.ack = r => Told(r)'
         /\ \A r : \A k \in DOMAIN b_wire' : b_wire'[k].kind = "ACK" /\ b_wire'[k].id = r => Told(r)'
    <3>1. \A r : b_ctl'.pending /\ b_ctl'.ack = r => Told(r)'
      BY <1>1, <2>9, Zenon DEF Rest, AckInv
    <3>2. DOMAIN b_wire' = {}
      BY <1>1
    <3> QED BY <3>1, <3>2, Zenon
  <2>11. Shrinks(b_rx.queue, b_rx'.queue) /\ got' \in Seq(Request)
    BY <1>1, <2>5, Zenon DEF Shrinks
  <2>12. Rest'
    BY <1>4, <2>8, <2>9, <2>10, <2>11, StepBRest, ZenonT(60)
  <2> QED BY <2>4, <2>7, <2>12, Zenon DEF D!DeliveryNext
<1>8. CASE ~RelEvent(b_event)
  <2>1. got' = got
    BY <1>1, <1>8, Zenon DEF StepOfB, RelEvent
  <2>2. \A r : Told(r) => Told(r)'
    BY <1>1, <1>8, <2>1, Zenon DEF Told, D!Among
  <2>3. Record'
    <3>1. b_rx.last = IF got = <<>> THEN NoneYet ELSE D!Latest(got)
      BY <1>8, Zenon DEF Rest, Record
    <3> QED BY <1>1, <1>6, <2>1, <3>1, ZenonT(60) DEF Record, RelEvent, D!Among, D!Latest
  <2>4. /\ \A r : b_ctl'.pending /\ b_ctl'.ack = r => Told(r)'
        /\ \A r : \A k \in DOMAIN b_wire' : b_wire'[k].kind = "ACK" /\ b_wire'[k].id = r => Told(r)'
    <3>1. \A r : b_ctl'.pending /\ b_ctl'.ack = r => Told(r)'
      BY <1>1, <2>2, Zenon DEF Rest, AckInv
    <3>2. DOMAIN b_wire' = {}
      BY <1>1
    <3> QED BY <3>1, <3>2, Zenon
  <2>5. Shrinks(b_rx.queue, b_rx'.queue) /\ got' \in Seq(Request)
    BY <1>1, <1>3, <2>1, Zenon DEF Shrinks
  <2>6. Rest'
    BY <1>4, <2>2, <2>3, <2>4, <2>5, StepBRest, ZenonT(60)
  <2> QED BY <1>1, <2>1, <2>6 DEF Seen
<1> QED BY <1>7, <1>8, ZenonT(60)

\* Every step of b keeps the rest of the invariant.
LEMMA StepBInv ==
    ASSUME BOk, BOk', AOk, Rest, StepOfB
    PROVE  Rest' /\ [D!DeliveryNext]_Seen
BY StepBQuiet, StepBTakes, StepBReturns, Zenon DEF StepOfB, BMoves

\* What the steps of the line, the clock and a restart have in common: the record and
\* the deliveries stay, and units are only passed on, lost or repeated.
LEMMA LineRest ==
    ASSUME BOk, Rest, UNCHANGED <<asked, got, b_tx, b_io, b_ctl, b_event, b_pc>>, b_rx'.last = b_rx.last,
           Sends(Newest)', History', VerdictOk',
           toA' \in Seq(LineUnit), toB' \in Seq(LineUnit),
           Flow(b_rx.queue, toB, b_rx.last, Newest)',
           \A k \in DOMAIN b_rx'.queue : \/ \E j \in DOMAIN b_rx.queue : b_rx'.queue[k] = b_rx.queue[j]
                                         \/ \E j \in DOMAIN toB : b_rx'.queue[k] = toB[j],
           \A k \in DOMAIN toB' : \E j \in DOMAIN toB : toB'[k] = toB[j],
           \A k \in DOMAIN a_rx'.queue : \/ \E j \in DOMAIN a_rx.queue : a_rx'.queue[k] = a_rx.queue[j]
                                         \/ \E j \in DOMAIN toA : a_rx'.queue[k] = toA[j],
           \A k \in DOMAIN toA' : \E j \in DOMAIN toA : toA'[k] = toA[j]
    PROVE  Rest'
<1>1. Receives'
  BY DEF Rest, Receives
<1>2. Record'
  BY Zenon DEF Rest, Record, RelEvent, D!Among, D!Latest
<1>3. \A r : D!Among(r, asked)' = D!Among(r, asked)
  BY Zenon DEF D!Among
<1>4. Asked(b_rx.queue)' /\ Asked(toB)'
  BY <1>3, Zenon DEF Rest, Pipe, Asked
<1>5. \A r : Told(r)' = Told(r)
  BY DEF Told, D!Among, RelEvent
<1>6. TrueAcks(toA)' /\ TrueAcks(a_rx.queue)'
  BY <1>5, Zenon DEF Rest, AckInv, TrueAcks
<1>7. (b_ctl.pending => Told(b_ctl.ack))'
  BY <1>5, Zenon DEF Rest, AckInv
<1> QED BY <1>1, <1>2, <1>4, <1>6, <1>7, Zenon DEF Rest, Pipe, AckInv

\* Without its oldest unit a line is its tail.
LEMMA WithoutFirst ==
    ASSUME NEW s \in Seq(LineUnit), s # <<>>
    PROVE  Without(s, 1) = Tail(s)
<1>1. PICK n \in Nat : n = Len(s) - 1
  OBVIOUS
<1>2. PICK t : t = [j \in 1 .. n |-> s[j + 1]]
  BY Zenon
<1>3. t \in Seq(LineUnit) /\ Len(t) = n /\ \A j \in 1 .. n : t[j] = s[j + 1]
  BY <1>1, <1>2
<1>4. Tail(s) \in Seq(LineUnit) /\ Len(Tail(s)) = n /\ \A j \in 1 .. n : Tail(s)[j] = s[j + 1]
  BY <1>1
<1>5. t = Tail(s)
  BY <1>3, <1>4
<1>6. Without(s, 1) = t
  BY <1>1, <1>2 DEF Without
<1> QED BY <1>5, <1>6

\* What the step leaves alone while the line moves.
LEMMA LineKeeps ==
    ASSUME Rest, UNCHANGED <<asked, got, verdict, a_tx, a_io, a_mem, a_serial>>
    PROVE  Sends(Newest)' /\ History' /\ VerdictOk' /\ Newest' = Newest
<1>1. Newest' = Newest
  BY ZenonT(60) DEF Newest
<1>2. Sends(Newest)'
  BY <1>1 DEF Rest, Sends, A!ReliableLease, Open
<1>3. History' /\ VerdictOk'
  BY Zenon DEF Rest, History, VerdictOk, Open
<1> QED BY <1>1, <1>2, <1>3, ZenonT(60)

\* The line hands a unit to b.
LEMMA DeliverBInv ==
    ASSUME ~Reordering, AOk, BOk, Rest, DeliverB
    PROVE  Rest' /\ UNCHANGED Seen
<1>1. /\ UNCHANGED <<asked, got, verdict, a_tx, a_io, a_mem, a_rx, a_serial, toA>>
      /\ 1 \in DOMAIN toB /\ B!Arrive(toB[1]) /\ toB' = Without(toB, 1)
  BY DEF DeliverB, Between, Arriving, aVars
<1>2. UNCHANGED <<b_tx, b_io, b_ctl, b_event, b_pc>>
  BY <1>1, ZenonT(60) DEF B!Arrive
<1>3. /\ b_rx.queue \in Seq(LineUnit) /\ b_rx.last \in LineId /\ toB \in Seq(LineUnit) /\ toA \in Seq(LineUnit)
      /\ b_rx \in B!RxType /\ toB # <<>>
  BY <1>1, UnitTypes DEF BOk, B!RxType, Rest, Pipe, LineId, B!Id
<1>4. toB' = Tail(toB)
  BY <1>1, <1>3, WithoutFirst, ZenonT(60)
<1>5. b_rx'.last = b_rx.last /\ b_rx'.queue \in {b_rx.queue, Append(b_rx.queue, toB[1])}
  BY <1>1, <1>3, ZenonT(60) DEF B!Arrive, B!RxType
<1>6. Sends(Newest)' /\ History' /\ VerdictOk' /\ Newest' = Newest
  BY <1>1, LineKeeps, ZenonT(60)
<1>7. PICK q, t : q = b_rx'.queue /\ t = toB'
  BY SMTT(30)
<1>8. Flow(q, t, b_rx.last, Newest)
  BY <1>3, <1>4, <1>5, <1>7, FlowArrive, FlowTailLine, Zenon DEF Rest, Pipe
<1>9. Flow(b_rx.queue, toB, b_rx.last, Newest)'
  BY <1>5, <1>6, <1>7, <1>8, Zenon DEF Flow, Within, Sorted, Ahead
<1>10. toB' \in Seq(LineUnit) /\ \A k \in DOMAIN toB' : \E j \in DOMAIN toB : toB'[k] = toB[j]
  BY <1>3, <1>4, ShrunkUnits DEF Shrinks
<1>11. \A k \in DOMAIN q : \/ \E j \in DOMAIN b_rx.queue : q[k] = b_rx.queue[j]
                           \/ \E j \in DOMAIN toB : q[k] = toB[j]
  <2>1. \A k \in DOMAIN Append(b_rx.queue, toB[1]) :
          \/ k \in DOMAIN b_rx.queue /\ Append(b_rx.queue, toB[1])[k] = b_rx.queue[k]
          \/ Append(b_rx.queue, toB[1])[k] = toB[1]
    BY <1>3
  <2> QED BY <1>1, <1>5, <1>7, <2>1, Zenon
<1>12. \A k \in DOMAIN a_rx'.queue : \E j \in DOMAIN a_rx.queue : a_rx'.queue[k] = a_rx.queue[j]
  BY <1>1, Zenon
<1>13. toA' \in Seq(LineUnit) /\ \A k \in DOMAIN toA' : \E j \in DOMAIN toA : toA'[k] = toA[j]
  BY <1>1, <1>3, Zenon
<1>14. Rest'
  BY <1>1, <1>2, <1>5, <1>6, <1>7, <1>9, <1>10, <1>11, <1>12, <1>13, LineRest, ZenonT(60)
<1> QED BY <1>1, <1>14, ZenonT(60) DEF Seen

\* The line hands a unit to a.
LEMMA DeliverAInv ==
    ASSUME ~Reordering, AOk, BOk, Rest, DeliverA
    PROVE  Rest' /\ UNCHANGED Seen
<1>1. /\ UNCHANGED <<asked, got, verdict, b_tx, b_io, b_ctl, b_event, b_pc, b_rx, toB>>
      /\ 1 \in DOMAIN toA /\ A!Arrive(toA[1]) /\ toA' = Without(toA, 1)
  BY DEF DeliverA, Between, Arriving, bVars
<1>2. UNCHANGED <<a_tx, a_io, a_mem, a_serial>>
  BY <1>1, ZenonT(60) DEF A!Arrive
<1>3. /\ a_rx.queue \in Seq(LineUnit) /\ toB \in Seq(LineUnit) /\ toA \in Seq(LineUnit)
      /\ a_rx \in A!RxType /\ toA # <<>>
  BY <1>1, UnitTypes, SMTT(60) DEF AOk, A!RxType, Rest, Pipe
<1>4. toA' = Tail(toA)
  BY <1>1, <1>3, WithoutFirst, ZenonT(60)
<1>5. a_rx'.queue \in {a_rx.queue, Append(a_rx.queue, toA[1])}
  BY <1>1, <1>3, ZenonT(60) DEF A!Arrive, A!RxType
<1>6. Sends(Newest)' /\ History' /\ VerdictOk' /\ Newest' = Newest
  BY <1>1, <1>2, LineKeeps, ZenonT(60)
<1>7. PICK q : q = a_rx'.queue
  OBVIOUS
<1>8. Flow(b_rx.queue, toB, b_rx.last, Newest)'
  BY <1>1, <1>6, Zenon DEF Rest, Pipe, Flow, Within, Sorted, Ahead
<1>9. toA' \in Seq(LineUnit) /\ \A k \in DOMAIN toA' : \E j \in DOMAIN toA : toA'[k] = toA[j]
  BY <1>3, <1>4, ShrunkUnits DEF Shrinks
<1>10. \A k \in DOMAIN q : \/ \E j \in DOMAIN a_rx.queue : q[k] = a_rx.queue[j]
                           \/ \E j \in DOMAIN toA : q[k] = toA[j]
  <2>1. \A k \in DOMAIN Append(a_rx.queue, toA[1]) :
          \/ k \in DOMAIN a_rx.queue /\ Append(a_rx.queue, toA[1])[k] = a_rx.queue[k]
          \/ Append(a_rx.queue, toA[1])[k] = toA[1]
    BY <1>3
  <2> QED BY <1>1, <1>5, <1>7, <2>1, Zenon
<1>11. \A k \in DOMAIN b_rx'.queue : \E j \in DOMAIN b_rx.queue : b_rx'.queue[k] = b_rx.queue[j]
  BY <1>1, Zenon
<1>12. toB' \in Seq(LineUnit) /\ \A k \in DOMAIN toB' : \E j \in DOMAIN toB : toB'[k] = toB[j]
  BY <1>1, <1>3, Zenon
<1>13. Rest'
  BY <1>1, <1>6, <1>7, <1>8, <1>9, <1>10, <1>11, <1>12, LineRest, ZenonT(60)
<1> QED BY <1>1, <1>13, ZenonT(60) DEF Seen

\* The line loses or repeats the unit at the head.
LEMMA LoseRepeatInv ==
    ASSUME AOk, BOk, Rest, Lose \/ Repeat
    PROVE  Rest' /\ UNCHANGED Seen
<1>1. /\ UNCHANGED <<asked, got, verdict, a_tx, a_io, a_mem, a_serial, a_rx>>
      /\ UNCHANGED <<b_tx, b_io, b_ctl, b_event, b_pc, b_rx>>
  BY DEF Lose, Repeat, Between, aVars, bVars
<1>2. /\ toB' = toB \/ (toB # <<>> /\ toB' = Tail(toB)) \/ (toB # <<>> /\ toB' = <<Head(toB)>> \o toB)
      /\ toA' = toA \/ (toA # <<>> /\ toA' = Tail(toA)) \/ (toA # <<>> /\ toA' = <<Head(toA)>> \o toA)
  BY Zenon DEF Lose, Repeat
<1>3. /\ toB \in Seq(LineUnit) /\ toA \in Seq(LineUnit) /\ Flow(b_rx.queue, toB, b_rx.last, Newest)
  BY DEF Rest, Pipe
<1>4. Sends(Newest)' /\ History' /\ VerdictOk' /\ Newest' = Newest
  BY <1>1, LineKeeps
<1>5. PICK t, u : t = toB' /\ u = toA'
  OBVIOUS
<1>6. Flow(b_rx.queue, t, b_rx.last, Newest)
  BY <1>2, <1>3, <1>5, FlowTailLine, FlowRepeat, Zenon
<1>7. Flow(b_rx.queue, toB, b_rx.last, Newest)'
  BY <1>1, <1>4, <1>5, <1>6, Zenon DEF Flow, Within, Sorted, Ahead
<1>8. t \in Seq(LineUnit) /\ \A k \in DOMAIN t : \E j \in DOMAIN toB : t[k] = toB[j]
  <2>1. toB \in Seq(LineUnit)
    BY <1>3
  <2>2. t = toB \/ (toB # <<>> /\ t = Tail(toB)) \/ (toB # <<>> /\ t = <<Head(toB)>> \o toB)
    BY <1>2, <1>5, Zenon
  <2>3. CASE Shrinks(toB, t)
    BY <2>1, <2>3, ShrunkUnits
  <2>4. CASE toB # <<>> /\ t = <<Head(toB)>> \o toB
    <3>1. /\ <<Head(toB)>> \o toB \in Seq(LineUnit)
          /\ \A k \in DOMAIN (<<Head(toB)>> \o toB) : \E j \in DOMAIN toB : (<<Head(toB)>> \o toB)[k] = toB[j]
      BY <2>1, <2>4, RepeatedUnits, ZenonT(60)
    <3> QED BY <2>4, <3>1, Zenon
  <2> QED BY <2>2, <2>3, <2>4, Zenon DEF Shrinks
<1>9. u \in Seq(LineUnit) /\ \A k \in DOMAIN u : \E j \in DOMAIN toA : u[k] = toA[j]
  <2>1. toA \in Seq(LineUnit)
    BY <1>3
  <2>2. u = toA \/ (toA # <<>> /\ u = Tail(toA)) \/ (toA # <<>> /\ u = <<Head(toA)>> \o toA)
    BY <1>2, <1>5, Zenon
  <2>3. CASE Shrinks(toA, u)
    BY <2>1, <2>3, ShrunkUnits
  <2>4. CASE toA # <<>> /\ u = <<Head(toA)>> \o toA
    <3>1. /\ <<Head(toA)>> \o toA \in Seq(LineUnit)
          /\ \A k \in DOMAIN (<<Head(toA)>> \o toA) : \E j \in DOMAIN toA : (<<Head(toA)>> \o toA)[k] = toA[j]
      BY <2>1, <2>4, RepeatedUnits, Zenon
    <3> QED BY <2>4, <3>1, Zenon
  <2> QED BY <2>2, <2>3, <2>4, Zenon DEF Shrinks
<1>10. /\ \A k \in DOMAIN a_rx'.queue : \E j \in DOMAIN a_rx.queue : a_rx'.queue[k] = a_rx.queue[j]
       /\ \A k \in DOMAIN b_rx'.queue : \E j \in DOMAIN b_rx.queue : b_rx'.queue[k] = b_rx.queue[j]
  BY <1>1, Zenon
<1>11. Rest'
  BY <1>1, <1>4, <1>5, <1>7, <1>8, <1>9, <1>10, LineRest, ZenonT(60)
<1> QED BY <1>1, <1>11, ZenonT(60) DEF Seen

\* Time passes for a.
LEMMA ATickInv ==
    ASSUME AOk, BOk, Rest, ATick
    PROVE  Rest' /\ UNCHANGED Seen
<1>1. /\ UNCHANGED <<asked, got, verdict, a_rx, a_serial, toA, toB>> /\ A!Tick
      /\ UNCHANGED <<b_tx, b_io, b_ctl, b_event, b_pc, b_rx>>
  BY DEF ATick, Between, bVars, A!Tick
<1>2. Newest' = Newest
  BY <1>1 DEF Newest
<1>3. a_tx'.state = a_tx.state
  BY <1>1, ZenonT(60) DEF A!Tick, AOk, A!TxType
<1>4. Sends(Newest)'
  <2>1. PICK q : q = Newest
    OBVIOUS
  <2>2. Sends(q)'
    BY <1>1, <2>1, ATickKeeps, ZenonT(60) DEF Rest, AKeeps
  <2> QED BY <1>2, <2>1, <2>2, ZenonT(60) DEF Sends
<1>5. History' /\ VerdictOk'
  BY <1>1, <1>3, Zenon DEF Rest, History, VerdictOk, Open
<1>6. Flow(b_rx.queue, toB, b_rx.last, Newest)'
  BY <1>1, <1>2, Zenon DEF Rest, Pipe, Flow, Within, Sorted, Ahead
<1>7. /\ \A k \in DOMAIN a_rx'.queue : \E j \in DOMAIN a_rx.queue : a_rx'.queue[k] = a_rx.queue[j]
      /\ \A k \in DOMAIN b_rx'.queue : \E j \in DOMAIN b_rx.queue : b_rx'.queue[k] = b_rx.queue[j]
      /\ \A k \in DOMAIN toA' : \E j \in DOMAIN toA : toA'[k] = toA[j]
      /\ \A k \in DOMAIN toB' : \E j \in DOMAIN toB : toB'[k] = toB[j]
      /\ toA' \in Seq(LineUnit) /\ toB' \in Seq(LineUnit)
  BY <1>1, Zenon DEF Rest, Pipe
<1>8. Rest'
  BY <1>1, <1>4, <1>5, <1>6, <1>7, LineRest, ZenonT(60)
<1> QED BY <1>1, <1>8 DEF Seen

\* A restart forgets the request in progress; the new session is above every identity.
LEMMA RestartAInv ==
    ASSUME AOk, BOk, Rest, RestartA
    PROVE  Rest' /\ [D!DeliveryNext]_Seen
<1>1. /\ UNCHANGED <<asked, got, toA, toB, b_tx, b_io, b_ctl, b_event, b_pc, b_rx>>
      /\ a_tx' = A!FreshTx /\ a_io' = A!FreshIo /\ a_rx' = A!FreshRx
      /\ a_serial' = [session |-> a_serial.session + 1, seq |-> 0, gen |-> 0]
      /\ a_serial.session <= Restarts
      /\ verdict' = IF verdict = "open" THEN "failed" ELSE verdict
  BY DEF RestartA, bVars
<1>2. Newest' = Newest
  BY <1>1, SMTT(30) DEF Newest
<1>3. Sends(Newest)'
  BY <1>1, Zenon DEF Sends, Open, A!ReliableLease, A!FreshTx, A!FreshIo
<1>4. History'
  <2>1. \A k \in DOMAIN asked : Lt(asked[k], [sid |-> a_serial'.session, seq |-> a_serial'.seq])
    <3> SUFFICES ASSUME NEW k \in DOMAIN asked
                 PROVE  Lt(asked[k], [sid |-> a_serial'.session, seq |-> a_serial'.seq])
      BY ZenonT(60)
    <3>1. asked[k] \in LineId
      BY RequestFacts DEF Rest, History
    <3>2. PICK x \in LineId : x = asked[k]
      BY <3>1, ZenonT(60)
    <3>3. PICK s \in Nat, n \in Nat : s = a_serial.session /\ n = a_serial.seq
      BY DEF AOk
    <3>4. Lt(x, [sid |-> s, seq |-> n])
      BY <3>2, <3>3, Zenon DEF Rest, History
    <3>5. x.sid \in Nat /\ x.sid <= s
      BY <3>4 DEF Lt, LineId
    <3>6. Lt(x, [sid |-> s + 1, seq |-> 0])
      BY <3>5, SMTT(30) DEF Lt
    <3> QED BY <1>1, <3>2, <3>3, <3>6, ZenonT(60)
  <2>2. a_serial'.session \in 1 .. Restarts + 1
    BY <1>1, PairAssumption, SMTT(60) DEF Rest, History
  <2>3. verdict' \in {"none", "open", "success", "failed"}
    BY <1>1, Zenon DEF Rest, History
  <2> QED BY <1>1, <2>1, <2>2, <2>3, Zenon DEF Rest, History
<1>5. VerdictOk'
  BY <1>1, SMTT(30) DEF Rest, VerdictOk, Open, A!FreshTx
<1>6. Flow(b_rx.queue, toB, b_rx.last, Newest)'
  BY <1>1, <1>2, Zenon DEF Rest, Pipe, Flow, Within, Sorted, Ahead
<1>7. /\ \A k \in DOMAIN b_rx'.queue : \E j \in DOMAIN b_rx.queue : b_rx'.queue[k] = b_rx.queue[j]
      /\ \A k \in DOMAIN toA' : \E j \in DOMAIN toA : toA'[k] = toA[j]
      /\ \A k \in DOMAIN toB' : \E j \in DOMAIN toB : toB'[k] = toB[j]
      /\ toA' \in Seq(LineUnit) /\ toB' \in Seq(LineUnit)
  BY <1>1, Zenon DEF Rest, Pipe
<1>8. DOMAIN a_rx'.queue = {}
  BY <1>1, SMTT(30) DEF A!FreshRx
<1>9. Rest'
  BY <1>1, <1>3, <1>4, <1>5, <1>6, <1>7, <1>8, LineRest, ZenonT(60)
<1>10. [D!DeliveryNext]_Seen
  BY <1>1 DEF Seen, D!DeliveryNext, D!GiveUp
<1> QED BY <1>9, <1>10, ZenonT(60)

\* Every step of the pair keeps what is said of requests and units, and is a step of
\* Delivery or none.
LEMMA PairStep ==
    ASSUME ~Reordering, AOk, AOk', BOk, BOk', Rest, PairNext
    PROVE  Rest' /\ [D!DeliveryNext]_Seen
<1>0. Sends(Newest) /\ Receives
  BY DEF Rest
<1>1. CASE ARequest \/ ACancel \/ ATake \/ AAdapter \/ APoll
  <2>1. PICK q : q = Newest
    OBVIOUS
  <2>2. Sends(q)
    BY <1>0, <2>1, Zenon
  <2>3. \E p : AMoves(q, p)
    <3>1. CASE ARequest
      <4>1. PICK p : p = IF Asks THEN [sid |-> a_serial.session, seq |-> a_serial.seq] ELSE q
        BY Zenon
      <4>2. A!SendReliable
        BY <3>1, Zenon DEF ARequest, StepA
      <4>3. AMoves(q, p)
        BY <2>2, <4>1, <4>2, ARequestMoves, ZenonT(60)
      <4> QED BY <4>3
    <3>2. CASE ACancel \/ ATake
      <4>1. A!Cancel \/ A!Take \/ A!Writable
        BY <3>2, Zenon DEF ACancel, ATake, StepA
      <4> QED BY <2>2, <4>1, ACallMoves, ZenonT(60)
    <3>3. CASE AAdapter
      <4>1. A!Writable \/ A!TxConsumed \/ A!TxDrained
        BY <3>3, Zenon DEF AAdapter, StepA, A!Adapter
      <4> QED BY <2>2, <4>1, ACallMoves, AConsumedMoves, ADrainedMoves, ZenonT(60)
    <3>4. CASE APoll
      <4>1. A!Poll
        BY <3>4, Zenon DEF APoll, StepA
      <4> QED BY <2>2, <4>1, APollMoves, ZenonT(60)
    <3> QED BY <1>1, <3>1, <3>2, <3>3, <3>4, ZenonT(60)
  <2>4. PICK p : AMoves(Newest, p)
    BY <2>1, <2>3, Zenon
  <2>5. /\ b_pc = "idle" /\ toB' = Carry(toB, a_wire') /\ verdict' = Verdict(a_tx')
        /\ asked' = IF Asks THEN Append(asked, [sid |-> a_serial.session, seq |-> a_serial.seq]) ELSE asked
        /\ UNCHANGED <<bVars, toA, got>>
    BY <1>1, Zenon DEF ARequest, ACancel, ATake, AAdapter, APoll, StepA, Asks
  <2>6. StepOfA(p)
    BY <2>4, <2>5, Zenon DEF StepOfA
  <2> QED BY <2>6, StepAInv
<1>2. CASE BRelease \/ BAdapter \/ BPoll
  <2>1. B!EventRelease \/ B!Adapter \/ B!Poll
    BY <1>2, Zenon DEF BRelease, BAdapter, BPoll, StepB
  <2>2. BMoves
    BY <1>0, <2>1, BCallMoves, BPollMoves, ZenonT(60)
  <2>3. StepOfB
    BY <1>2, <2>2, Zenon DEF StepOfB, BRelease, BAdapter, BPoll, StepB
  <2> QED BY <2>3, StepBInv
<1>3. CASE DeliverB \/ DeliverA \/ Lose \/ Repeat \/ ATick
  BY <1>3, DeliverBInv, DeliverAInv, LoseRepeatInv, ATickInv, ZenonT(60)
<1>4. CASE RestartA
  BY <1>4, RestartAInv
<1> QED BY <1>1, <1>2, <1>3, <1>4, Zenon DEF PairNext

\* Nothing is asked, on the line or acknowledged at first.
LEMMA PairStart ==
    ASSUME PairInit
    PROVE  Rest /\ D!DeliveryInit
<1>1. /\ a_tx = A!FreshTx /\ a_io = A!FreshIo /\ a_rx = A!FreshRx
      /\ a_serial = [session |-> 1, seq |-> 0, gen |-> 0]
      /\ b_tx = B!FreshTx /\ b_io = B!FreshIo /\ b_ctl = B!FreshCtl /\ b_rx = B!FreshRx /\ b_event = B!NoEvent
      /\ toB = <<>> /\ toA = <<>> /\ asked = <<>> /\ got = <<>> /\ verdict = "none"
  BY Zenon DEF PairInit, A!Init, B!Init
<1>2. Newest = NoneYet
  BY <1>1, SMTT(30) DEF Newest
<1>3. Sends(Newest)
  BY <1>1, ZenonT(60) DEF Sends, Open, A!ReliableLease, A!FreshTx, A!FreshIo
<1>4. Receives
  BY <1>1, ZenonT(60) DEF Receives, RelEvent, B!FreshTx, B!FreshIo, B!NoEvent
<1>5. History
  BY <1>1, PairAssumption, SMTT(30) DEF History
<1>6. VerdictOk
  BY <1>1, ZenonT(60) DEF VerdictOk, Open, A!FreshTx
<1>7. b_rx.last = NoneYet /\ b_rx.queue = <<>> /\ a_rx.queue = <<>> /\ ~b_ctl.pending
  BY <1>1, ZenonT(60) DEF A!FreshRx, B!FreshRx, B!FreshCtl, B!NoId, NoneYet
<1>8. ~RelEvent(b_event)
  BY <1>1, ZenonT(60) DEF RelEvent, B!NoEvent
<1>9. Record
  BY <1>1, <1>7, <1>8, ZenonT(60) DEF Record
<1>10. Pipe
  <2>1. Sorted(<<>>) /\ Ahead(<<>>, <<>>) /\ Within(<<>>, NoneYet, NoneYet) /\ Asked(<<>>)
    <3>1. \A k : k \notin DOMAIN <<>>
      OBVIOUS
    <3> QED BY <3>1, ZenonT(60) DEF Sorted, Ahead, Within, Asked
  <2>2. Le(NoneYet, NoneYet)
    BY DEF Le, NoneYet
  <2>3. <<>> \in Seq(LineUnit)
    OBVIOUS
  <2> QED BY <1>1, <1>2, <1>7, <2>1, <2>2, <2>3, Zenon DEF Pipe, Flow
<1>11. AckInv
  <2>1. TrueAcks(<<>>)
    BY DEF TrueAcks
  <2> QED BY <1>1, <1>7, <2>1, ZenonT(60) DEF AckInv
<1>12. D!DeliveryInit
  BY <1>1 DEF D!DeliveryInit
<1> QED BY <1>3, <1>4, <1>5, <1>6, <1>9, <1>10, <1>11, <1>12, ZenonT(60) DEF Rest

\* A stuttering step.
LEMMA StillInv ==
    ASSUME Rest, UNCHANGED pairVars
    PROVE  Rest'
<1>1. /\ UNCHANGED <<asked, got, verdict, toA, toB, a_tx, a_io, a_mem, a_serial, a_rx>>
      /\ UNCHANGED <<b_tx, b_io, b_ctl, b_event, b_pc, b_rx>>
  BY Zenon DEF pairVars, aVars, bVars
<1>2. Sends(Newest)' /\ History' /\ VerdictOk' /\ Newest' = Newest
  BY <1>1, LineKeeps
<1>3. Receives' /\ Record'
  BY <1>1, Zenon DEF Rest, Receives, Record, RelEvent, D!Among, D!Latest
<1>4. Pipe'
  BY <1>1, <1>2, Zenon DEF Rest, Pipe, Flow, Within, Sorted, Ahead, Asked, D!Among
<1>5. AckInv'
  BY <1>1, Zenon DEF Rest, AckInv, TrueAcks, Told, D!Among
<1> QED BY <1>2, <1>3, <1>4, <1>5, ZenonT(60) DEF Rest

-----------------------------------------------------------------------------
(* Steps of the pair, in the words of its contexts *)

\* Any step of the pair.
LEMMA PairMoves ==
    ASSUME ~Reordering, AOk, AOk', BOk, BOk', Rest, [PairNext]_pairVars
    PROVE  Rest' /\ [D!DeliveryNext]_Seen
<1>1. CASE PairNext
  BY <1>1, PairStep, Zenon
<1>2. CASE UNCHANGED pairVars
  <2>1. UNCHANGED Seen
    BY <1>2, Zenon DEF pairVars, Seen
  <2> QED BY <1>2, <2>1, StillInv, Zenon
<1> QED BY <1>1, <1>2, Zenon

\* What a step of the pair is to context a: a call, a report or a poll, the arrival of a
\* unit, a restart, or nothing.
AKind ==
    \/ A!SendReliable \/ A!Cancel \/ A!Take \/ A!Tick \/ A!Adapter \/ A!Poll
    \/ \E f \in LineUnit : A!Arrive(f)
Restarted == RestartA /\ a_serial' \in [session : Nat \ {0}, seq : {0}, gen : {0}]
LEMMA AKinds ==
    ASSUME Rest, [PairNext]_pairVars
    PROVE  AKind \/ Restarted \/ UNCHANGED aVars
<1>1. CASE ARequest \/ ACancel \/ ATake \/ ATick \/ AAdapter \/ APoll
  BY <1>1, Zenon DEF ARequest, ACancel, ATake, ATick, AAdapter, APoll, StepA, AKind
<1>2. CASE DeliverA
  <2>1. PICK k \in DOMAIN toA : A!Arrive(toA[k])
    BY <1>2 DEF DeliverA, Arriving
  <2>2. toA \in Seq(LineUnit)
    BY Zenon DEF Rest, Pipe
  <2>3. toA[k] \in LineUnit
    BY <2>1, <2>2
  <2> QED BY <2>1, <2>3, Zenon DEF AKind
<1>3. CASE RestartA
  <2>1. /\ a_serial.session \in 1 .. Restarts + 1
        /\ a_serial' = [session |-> a_serial.session + 1, seq |-> 0, gen |-> 0]
    BY <1>3, Zenon DEF RestartA, Rest, History
  <2>2. PICK n : n = a_serial.session
    BY Zenon
  <2>3. n + 1 \in Nat \ {0}
    BY <2>1, <2>2, PairAssumption
  <2>4. a_serial' \in [session : Nat \ {0}, seq : {0}, gen : {0}]
    BY <2>1, <2>2, <2>3, ZenonT(60)
  <2> QED BY <1>3, <2>4, Zenon DEF Restarted
<1>4. CASE BRelease \/ BAdapter \/ BPoll \/ DeliverB \/ Lose \/ Repeat \/ UNCHANGED pairVars
  BY <1>4, Zenon DEF BRelease, BAdapter, BPoll, StepB, DeliverB, Lose, Repeat, pairVars
<1> QED BY <1>1, <1>2, <1>3, <1>4, Zenon DEF PairNext

\* What it is to context b.
BKind == B!EventRelease \/ B!Adapter \/ B!Poll \/ \E f \in LineUnit : B!Arrive(f)
LEMMA BKinds ==
    ASSUME Rest, [PairNext]_pairVars
    PROVE  BKind \/ UNCHANGED bVars
<1>1. CASE BRelease \/ BAdapter \/ BPoll
  BY <1>1, Zenon DEF BRelease, BAdapter, BPoll, StepB, BKind
<1>2. CASE DeliverB
  <2>1. PICK k \in DOMAIN toB : B!Arrive(toB[k])
    BY <1>2 DEF DeliverB, Arriving
  <2>2. toB \in Seq(LineUnit)
    BY Zenon DEF Rest, Pipe
  <2>3. toB[k] \in LineUnit
    BY <2>1, <2>2
  <2> QED BY <2>1, <2>3, Zenon DEF BKind
<1>3. CASE ARequest \/ ACancel \/ ATake \/ ATick \/ AAdapter \/ APoll
  BY <1>3, Zenon DEF ARequest, ACancel, ATake, ATick, AAdapter, APoll, StepA
<1>4. CASE DeliverA \/ Lose \/ Repeat \/ RestartA \/ UNCHANGED pairVars
  BY <1>4, Zenon DEF DeliverA, Lose, Repeat, RestartA, pairVars
<1> QED BY <1>1, <1>2, <1>3, <1>4, Zenon DEF PairNext

\* The counters both contexts start with.
LEMMA StartSerials ==
    ASSUME PairInit
    PROVE  /\ a_serial \in [session : Nat \ {0}, seq : {0}, gen : {0}]
           /\ b_serial \in [session : Nat \ {0}, seq : {0}, gen : {0}]
BY DEF PairInit, A!Init, B!Init

\* The elements of a sequence, and the identity in a frame.
LEMMA FrameFacts ==
    /\ \A S : \A s \in Seq(S) : \A k \in DOMAIN s : s[k] \in S
    /\ \A m, i, b : (m.encoded => m.unit = [kind |-> "REL", id |-> i, body |-> b])
                    => (m.encoded => m.unit.id = i)
OBVIOUS

\* Delivery gives no request twice.
LEMMA OnlyOnce == D!DeliverySpec => []DeliveredOnce
<1>1. D!DeliveryInit => Ordered
  BY DEF D!DeliveryInit, Ordered
<1>2. Ordered /\ [D!DeliveryNext]_<<asked, got, verdict>> => Ordered'
  BY OrderedStep, Zenon DEF Seen
<1> QED BY <1>1, <1>2, OrderedOnce, PTL DEF D!DeliverySpec

-----------------------------------------------------------------------------
(***************************************************************************)
(* What LinkProofs shows of one context holds of both: the steps of a and  *)
(* b are steps of Link when any unit may arrive, and a restart leaves what *)
(* wl_init leaves.                                                         *)
(***************************************************************************)

AP == INSTANCE LinkProofs WITH
        Envelope <- "COBS", GenMax <- SeqMax, ComplMax <- 1, Session <- 1, RxFrames <- LineUnit,
        hint <- "none",
        tx <- a_tx, io <- a_io, ctl <- a_ctl, mem <- a_mem, rx <- a_rx, event <- a_event,
        serial <- a_serial, pc <- a_pc, out <- a_out, wire <- a_wire, hist <- a_hist
BP == INSTANCE LinkProofs WITH
        Envelope <- "COBS", GenMax <- SeqMax, ComplMax <- 1, Session <- 9, RxFrames <- LineUnit,
        hint <- "none",
        tx <- b_tx, io <- b_io, ctl <- b_ctl, mem <- b_mem, rx <- b_rx, event <- b_event,
        serial <- b_serial, pc <- b_pc, out <- b_out, wire <- b_wire, hist <- b_hist

\* The configuration of the pair is one each context may have.
LEMMA Configured == AP!ConfigAssumption /\ BP!ConfigAssumption
BY PairAssumption, SMTT(30) DEF AP!ConfigAssumption, BP!ConfigAssumption, LineUnit, LineId

\* The steps of a, in the words of LinkProofs.
LEMMA ASteps == AKind => AP!Next
BY ZenonT(120) DEF AKind, AP!Next, AP!Owner, AP!Produce,
   A!Scrap, AP!Scrap, A!NoId, AP!NoId, A!DataFrame, AP!DataFrame, A!AckFrame, AP!AckFrame,
   A!BadFrame, AP!BadFrame, A!NoEvent, AP!NoEvent, A!TxEvent, AP!TxEvent, A!RxEvent,
   AP!RxEvent, A!IsRx, AP!IsRx, A!Terminal, AP!Terminal, A!NextGeneration,
   AP!NextGeneration, A!RetryDue, AP!RetryDue, A!ReliableLease, AP!ReliableLease,
   A!DataBusy, AP!DataBusy, A!ControlAnswer, AP!ControlAnswer, A!SubmitControl,
   AP!SubmitControl, A!CompleteUnreliable, AP!CompleteUnreliable, A!ReliableAnswer,
   AP!ReliableAnswer, A!UnreliableAnswer, AP!UnreliableAnswer, A!SubmitUnreliable,
   AP!SubmitUnreliable, A!Retained, AP!Retained, A!Encoded, AP!Encoded, A!SendTxPayload,
   AP!SendTxPayload, A!PushTxEvent, AP!PushTxEvent, A!Ended, AP!Ended, A!Spent, AP!Spent,
   A!Put, AP!Put, A!Tried, AP!Tried, A!Calling, AP!Calling, A!StartReliable,
   AP!StartReliable, A!SendReliable, AP!SendReliable, A!Cancel, AP!Cancel, A!CanTake,
   AP!CanTake, A!Take, AP!Take, A!Writable, AP!Writable, A!FailIo, AP!FailIo, A!OnLine,
   AP!OnLine, A!Reported, AP!Reported, A!Freed, AP!Freed, A!ThenControl, AP!ThenControl,
   A!ConsumedControl, AP!ConsumedControl, A!ConsumedUnreliable, AP!ConsumedUnreliable,
   A!ConsumedSettled, AP!ConsumedSettled, A!ReliableReport, AP!ReliableReport,
   A!ConsumedSent, AP!ConsumedSent, A!ConsumedErrorQueue, AP!ConsumedErrorQueue,
   A!ConsumedErrorRetry, AP!ConsumedErrorRetry, A!ConsumedErrorFail, AP!ConsumedErrorFail,
   A!TxConsumed, AP!TxConsumed, A!TxDrained, AP!TxDrained, A!SendAck, AP!SendAck,
   A!AckMatches, AP!AckMatches, A!HandleAck, AP!HandleAck, A!Route, AP!Route, A!Remember,
   AP!Remember, A!Arrive, AP!Arrive, A!Tick, AP!Tick, A!NeedsProgress, AP!NeedsProgress,
   A!PollBegin, AP!PollBegin, A!PollReceive, AP!PollReceive, A!PollReceived,
   AP!PollReceived, A!QueuedReady, AP!QueuedReady, A!PollQueued, AP!PollQueued,
   A!TimerReady, AP!TimerReady, A!PollTimer, AP!PollTimer, A!PollReturn, AP!PollReturn,
   A!Adapter, AP!Adapter, A!Poll, AP!Poll

\* The steps of b, in the words of LinkProofs.
LEMMA BSteps == BKind => BP!Next
BY ZenonT(120) DEF BKind, BP!Next, BP!Owner, BP!Produce,
   B!Scrap, BP!Scrap, B!NoId, BP!NoId, B!DataFrame, BP!DataFrame, B!AckFrame, BP!AckFrame,
   B!BadFrame, BP!BadFrame, B!NoEvent, BP!NoEvent, B!TxEvent, BP!TxEvent, B!RxEvent,
   BP!RxEvent, B!IsRx, BP!IsRx, B!Terminal, BP!Terminal, B!NextGeneration,
   BP!NextGeneration, B!RetryDue, BP!RetryDue, B!ReliableLease, BP!ReliableLease,
   B!DataBusy, BP!DataBusy, B!ControlAnswer, BP!ControlAnswer, B!SubmitControl,
   BP!SubmitControl, B!CompleteUnreliable, BP!CompleteUnreliable, B!ReliableAnswer,
   BP!ReliableAnswer, B!UnreliableAnswer, BP!UnreliableAnswer, B!SubmitUnreliable,
   BP!SubmitUnreliable, B!Retained, BP!Retained, B!Encoded, BP!Encoded, B!SendTxPayload,
   BP!SendTxPayload, B!PushTxEvent, BP!PushTxEvent, B!Ended, BP!Ended, B!Spent, BP!Spent,
   B!Put, BP!Put, B!Tried, BP!Tried, B!Calling, BP!Calling, B!Writable, BP!Writable,
   B!FailIo, BP!FailIo, B!OnLine, BP!OnLine, B!Reported, BP!Reported, B!Freed, BP!Freed,
   B!ThenControl, BP!ThenControl, B!ConsumedControl, BP!ConsumedControl,
   B!ConsumedUnreliable, BP!ConsumedUnreliable, B!ConsumedSettled, BP!ConsumedSettled,
   B!ReliableReport, BP!ReliableReport, B!ConsumedSent, BP!ConsumedSent,
   B!ConsumedErrorQueue, BP!ConsumedErrorQueue, B!ConsumedErrorRetry, BP!ConsumedErrorRetry,
   B!ConsumedErrorFail, BP!ConsumedErrorFail, B!TxConsumed, BP!TxConsumed, B!TxDrained,
   BP!TxDrained, B!SendAck, BP!SendAck, B!AckMatches, BP!AckMatches, B!HandleAck,
   BP!HandleAck, B!Route, BP!Route, B!Remember, BP!Remember, B!Arrive, BP!Arrive,
   B!EventRelease, BP!EventRelease, B!NeedsProgress, BP!NeedsProgress, B!PollBegin,
   BP!PollBegin, B!PollReceive, BP!PollReceive, B!PollReceived, BP!PollReceived,
   B!QueuedReady, BP!QueuedReady, B!PollQueued, BP!PollQueued, B!TimerReady, BP!TimerReady,
   B!PollTimer, BP!PollTimer, B!PollReturn, BP!PollReturn, B!Adapter, BP!Adapter, B!Poll,
   BP!Poll

\* A context in a state LinkProofs knows is in a state the argument above takes.
LEMMA AGoodOk == AP!Good => AOk
<1> SUFFICES ASSUME AP!LineInv, AP!StoreInv, AP!EventInv, AP!BytesInv PROVE AOk
  BY Zenon DEF AP!Good, AP!IInv
<1>1. /\ a_tx \in A!TxType /\ a_io \in A!IoType /\ a_ctl \in A!CtlType /\ a_mem \in A!MemType
      /\ a_rx \in A!RxType /\ a_event \in A!Event
      /\ a_serial \in [session : Nat \ {0}, seq : 0 .. SeqMax, gen : 0 .. SeqMax]
      /\ a_wire \in Seq(A!Frame)
  BY ZenonT(60) DEF AP!LineInv, AP!StoreInv, AP!EventInv,
     A!TxType, AP!TxType, A!IoType, AP!IoType, A!CtlType, AP!CtlType, A!MemType, AP!MemType,
     A!RxType, AP!RxType, A!Event, AP!Event, A!Frame, AP!Frame, A!Id, AP!Id, A!Body, AP!Body,
     A!Scrap, AP!Scrap, A!TxStates, AP!TxStates, A!TxEvents, AP!TxEvents
<1>2. /\ a_tx.handle = 0 => a_tx.state = "IDLE"
      /\ ~(a_io.inflight /\ a_io.queued)
      /\ ~(a_io.inflight /\ a_ctl.inflight)
      /\ a_tx.state = "SENDING" => A!ReliableLease(a_io) \/ (a_io.queued /\ a_io.reliable)
      /\ a_io.queued /\ a_io.reliable => a_tx.state = "SENDING"
      /\ A!ReliableLease(a_io) /\ a_tx.state = "SENDING" => a_mem.encoded
  BY ZenonT(60) DEF AP!LineInv, AP!BytesInv, AP!CancelSettles, AP!PhysicalExclusive, AP!SendingIsCarried,
     AP!ReliableLease, A!ReliableLease
<1>3. \A k \in DOMAIN a_wire : a_wire[k].kind = "REL" => a_wire[k].body = a_wire[k].id.seq
  <2>1. \A k \in DOMAIN a_wire : a_wire[k] \in AP!OwnFrames
    BY FrameFacts, Zenon DEF AP!BytesInv
  <2> QED BY <2>1, Zenon DEF AP!OwnFrames, AP!Own
<1>4. Open(a_tx) => /\ A!Retained(a_mem) = a_tx.seq
                    /\ a_mem.encoded => a_mem.unit.id = [sid |-> a_serial.session, seq |-> a_tx.seq]
  BY FrameFacts, ZenonT(60) DEF AP!BytesInv, AP!Open, Open, AP!Holds, AP!Image,
     AP!DataFrame, AP!Retained, A!Retained
<1> QED BY <1>1, <1>2, <1>3, <1>4, Zenon DEF AOk

\* What the invariants of Link say of b.
LEMMA BGoodOk == BP!IInv => BOk
<1> SUFFICES ASSUME BP!LineInv, BP!StoreInv, BP!EventInv PROVE BOk
  BY Zenon DEF BP!IInv
<1>1. /\ b_tx \in B!TxType /\ b_io \in B!IoType /\ b_ctl \in B!CtlType
      /\ b_rx \in B!RxType /\ b_event \in B!Event /\ b_wire \in Seq(B!Frame)
  BY ZenonT(60) DEF BP!LineInv, BP!StoreInv, BP!EventInv,
     B!TxType, BP!TxType, B!IoType, BP!IoType, B!CtlType, BP!CtlType,
     B!RxType, BP!RxType, B!Event, BP!Event, B!Frame, BP!Frame, B!Id, BP!Id,
     B!TxStates, BP!TxStates, B!TxEvents, BP!TxEvents
<1>2. /\ b_ctl.inflight => b_ctl.pending
      /\ b_rx.hold => b_rx.queue # <<>>
      /\ b_pc = "rx" => b_event = B!NoEvent
  BY ZenonT(60) DEF BP!LineInv, BP!EventInv, BP!PhysicalExclusive, BP!RxHeld,
     B!NoEvent, BP!NoEvent, B!BadFrame, BP!BadFrame, B!NoId, BP!NoId, B!Scrap, BP!Scrap
<1> QED BY <1>1, <1>2, Zenon DEF BOk

\* A context that starts over satisfies the invariant of Link.
LEMMA RestartedGood == AP!Started' => AP!Good'
<1>1. AP!Started => AP!Good
  BY AP!StartedGood, Configured, Zenon
<1> QED BY <1>1, PTL

\* Context a stays in such a state: its own steps and the units that arrive keep it, the
\* steps of b do not touch it, and a restart begins again.
LEMMA AStays ==
    ASSUME AP!Good, Rest, [PairNext]_pairVars
    PROVE  AP!Good'
<1>1. [AP!Next]_(AP!vars) \/ Restarted
  BY AKinds, ASteps, Zenon DEF aVars, AP!vars
<1>2. Restarted => AP!Started'
  BY Zenon DEF Restarted, RestartA, AP!Started, A!FreshTx, AP!FreshTx, A!FreshIo, AP!FreshIo,
     A!FreshCtl, AP!FreshCtl, A!FreshMem, AP!FreshMem, A!FreshRx, AP!FreshRx, A!FreshHist, AP!FreshHist,
     A!NoEvent, AP!NoEvent, A!BadFrame, AP!BadFrame, A!NoId, AP!NoId, A!Scrap, AP!Scrap
<1> QED BY <1>1, <1>2, RestartedGood, AP!NextGood, Configured, Zenon

\* Every step of the pair keeps the invariant of b's context.
LEMMA BStays ==
    ASSUME BP!IInv, Rest, [PairNext]_pairVars
    PROVE  BP!IInv'
<1>1. [BP!Next]_(BP!vars)
  BY BKinds, BSteps, Zenon DEF bVars, BP!vars
<1> QED BY <1>1, BP!NextInv, Configured, Zenon

-----------------------------------------------------------------------------
(* The theorems *)

\* The inductive invariant of the pair.
Paired == AP!Good /\ BP!IInv /\ Rest

\* Paired holds at the start,
LEMMA PairedStart == PairInit => Paired /\ D!DeliveryInit
<1> SUFFICES ASSUME PairInit PROVE Paired /\ D!DeliveryInit
  BY Zenon
<1>1. AP!Started
  BY StartSerials, Zenon DEF PairInit, A!Init, AP!Started, A!FreshTx, AP!FreshTx, A!FreshIo, AP!FreshIo,
     A!FreshCtl, AP!FreshCtl, A!FreshMem, AP!FreshMem, A!FreshRx, AP!FreshRx, A!FreshHist, AP!FreshHist,
     A!NoEvent, AP!NoEvent, A!BadFrame, AP!BadFrame, A!NoId, AP!NoId, A!Scrap, AP!Scrap
<1>2. BP!Started
  BY StartSerials, Zenon DEF PairInit, B!Init, BP!Started, B!FreshTx, BP!FreshTx, B!FreshIo, BP!FreshIo,
     B!FreshCtl, BP!FreshCtl, B!FreshMem, BP!FreshMem, B!FreshRx, BP!FreshRx, B!FreshHist, BP!FreshHist,
     B!NoEvent, BP!NoEvent, B!BadFrame, BP!BadFrame, B!NoId, BP!NoId, B!Scrap, BP!Scrap
<1> QED BY <1>1, <1>2, AP!StartedGood, BP!StartedInv, Configured, PairStart, Zenon DEF Paired

\* What Paired says of both contexts holds after a step that keeps it,
LEMMA OkLater == (AP!Good' => AOk') /\ (BP!IInv' => BOk')
BY AGoodOk, BGoodOk, PTL

\* and every step of the pair keeps it.
LEMMA PairedStep == ~Reordering /\ Paired /\ [PairNext]_pairVars => Paired' /\ [D!DeliveryNext]_Seen
<1> SUFFICES ASSUME ~Reordering, AP!Good, BP!IInv, Rest, [PairNext]_pairVars
             PROVE  Paired' /\ [D!DeliveryNext]_Seen
  BY Zenon DEF Paired
<1>1. AP!Good' /\ BP!IInv'
  BY AStays, BStays, Zenon
<1> QED BY <1>1, AGoodOk, BGoodOk, OkLater, PairMoves, Zenon DEF Paired

\* What the pair's argument rests on holds in every reachable state, on a line that keeps
\* the order of units: whatever is lost or repeated and however often a restarts.
THEOREM PairHolds == ~Reordering => (PairSpec => []Paired)
<1> SUFFICES ASSUME ~Reordering PROVE PairSpec => []Paired
  BY Zenon
<1>1. Paired /\ [PairNext]_pairVars => Paired'
  BY PairedStep, Zenon
<1> QED BY <1>1, PairedStart, PTL DEF PairSpec

\* On a line that keeps the order of units, both contexts and the line implement
\* Delivery for every configuration: requests reach b's application in the order they
\* were made, none twice, and a's success is never given to a request b's application did
\* not get (protocol.c: wl_frame_route_view, wl_handle_ack, wl_poll).
THEOREM DeliveryHolds == ~Reordering => (PairSpec => DeliveryImplemented)
<1> SUFFICES ASSUME ~Reordering PROVE PairSpec => DeliveryImplemented
  BY Zenon
<1>1. Paired /\ [PairNext]_pairVars => Paired' /\ [D!DeliveryNext]_<<asked, got, verdict>>
  BY PairedStep, Zenon DEF Seen
<1> QED BY <1>1, PairedStart, PTL DEF PairSpec, DeliveryImplemented, D!DeliverySpec

\* On such a line b's application gets no request twice, whatever is retransmitted,
\* repeated by the line or sent again after a restart (docs/protocol.md:477).
THEOREM DeliveredOnceHolds == ~Reordering => (PairSpec => []DeliveredOnce)
BY DeliveryHolds, OnlyOnce, PTL DEF DeliveryImplemented
=============================================================================
