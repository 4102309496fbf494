----------------------------- MODULE MCDataPath -----------------------------
(***************************************************************************)
(* Messages, headers and frames at the edges: every integer width at its   *)
(* extremes, texts shorter than their default, operations at the digit     *)
(* borders, payloads at the length of a COBS block, and outputs that       *)
(* overlap the payload they encode.                                        *)
(***************************************************************************)
EXTENDS Latest, Fifo, RxRing, UnitQueue, Outbox, Wire

-----------------------------------------------------------------------------
(***************************************************************************)
(* The five buffers of the core for model checking: the LATEST and FIFO    *)
(* mailboxes, the RX byte ring, the RX unit queue and the outbox.  They    *)
(* share no state, so a behaviour runs one of them.                        *)
(***************************************************************************)

VARIABLE part    \* the buffer this behaviour runs

buffersVars == <<latestVars, fifoVars, ringVars, unitVars, outboxVars, part>>

BuffersInit ==
    /\ LatestInit /\ FifoInit /\ RingInit /\ UnitInit /\ OutboxInit
    /\ part # "latest" => generation = 0

Rest(v, w, x, y) == UNCHANGED <<part, v, w, x, y>>

BuffersNext ==
    \/ part = "latest" /\ LatestNext /\ Rest(fifoVars, ringVars, unitVars, outboxVars)
    \/ part = "fifo" /\ FifoNext /\ Rest(latestVars, ringVars, unitVars, outboxVars)
    \/ part = "ring" /\ RingNext /\ Rest(latestVars, fifoVars, unitVars, outboxVars)
    \/ part = "units" /\ UnitNext /\ Rest(latestVars, fifoVars, ringVars, outboxVars)
    \/ part = "outbox" /\ OutboxNext /\ Rest(latestVars, fifoVars, ringVars, unitVars)

-----------------------------------------------------------------------------
-----------------------------------------------------------------------------
(* Messages.                                                               *)

\* A value of a field: v for a word, t for a text, w for a nested message.
FieldValue(f, v, t, w) ==
  CASE f.card = "PACKED" -> [j \in 1..f.count |-> Cast(v, Width(f.kind))]
    [] f.kind \in {"BYTES", "STRING"} -> SubSeq(t, 1, Min({f.max, Len(t)}))
    [] f.kind = "MESSAGE" -> w
    [] OTHER -> Cast(v, Width(f.kind))

\* The fields in `has` or required set, the others at their defaults.
View(d, has, v, t, w) ==
  [i \in DOMAIN d.fields |->
     IF d.fields[i].required \/ i \in has
     THEN [has |-> TRUE, v |-> FieldValue(d.fields[i], v, t, w)] ELSE wlc_clear(d)[i]]

\* Zero, all ones, the smallest of every signed width, and one.
Patterns == {{}, 0..63, {7, 15, 31, 63}, {0}}
\* Nothing, one letter, a euro sign and a letter.
Letters == {<<>>, <<65>>, <<226, 130, 172, 66>>}

SettingsViews == {View(settings_desc, has, v, t, {}) :
                    has \in {{}, 1..10}, v \in {0..63, {0}}, t \in Letters}
Small == View(settings_desc, {1}, {0}, <<65>>, {})

\* n rewritings; the line strikes where hurt.
Send(from, as, view, n, hurt) ==
  [from |-> from, as |-> as, view |-> view, edits |-> n, hurt |-> hurt]

MCSends ==
  {Send("numbers", "numbers", View(numbers_desc, 1..18, v, <<65>>, {}), 1, v = 0..63) :
      v \in Patterns}
    \cup {Send("numbers", "numbers", View(numbers_desc, {}, {}, <<>>, {}), 1, FALSE)}
    \cup {Send("settings", "settings", w, 1, w[1].v = <<65>>) : w \in SettingsViews}
    \cup {Send("info_request", "info_request", <<>>, 2, TRUE)}
    \cup {Send("info_response", "info_response", View(info_response_desc, {}, {}, t, Small), 2,
               t # <<>>) :
            t \in Letters}
    \cup {Send("configure_request", "configure_request",
               View(configure_request_desc, has, {}, <<65>>, Small), 2, has = {2}) :
            has \in SUBSET {2, 3}}
    \cup {Send("configure_response", as, View(configure_response_desc, has, {31}, <<>>, Small),
               2, has = {3}) :
            has \in SUBSET {2, 3}, as \in {"configure_request", "configure_response"}}

\* Numbers beyond every schema, of every wire type; the last the largest.
MCAdditions == {<<160, 1, 5>>, <<225, 18, 1, 2, 3, 4, 5, 6, 7, 8>>, <<162, 1, 2, 8, 1>>,
                <<253, 255, 31, 1, 2, 3, 4>>}

MCTyped == {[as |-> "info_request", keys |-> {0, 1, 2, 5, 8, 13, 127, 128, 255}, most |-> 3],
            [as |-> "configure_request", keys |-> {0, 1, 2, 10, 18, 26, 128}, most |-> 4]}

MCLines == {0, 1, 2, 128, 255}

-----------------------------------------------------------------------------
(* Texts: the borders of every range of the encoding.                      *)

Borders == {0, 127, 128, 143, 144, 159, 160, 191, 192, 193, 194, 223, 224, 225, 236, 237, 238,
            239, 240, 241, 243, 244, 245, 255}
MCTextKeys == <<Borders, Borders, {65, 127, 128, 191, 192}, {65, 127, 128, 191, 192},
                {65, 128}>>

-----------------------------------------------------------------------------
(* RPC headers: operations at the digit borders, both signs of a status.   *)

Session1 == <<0, 0, 0, 0, 0, 0, 0, 1>>
Session2 == <<255, 0, 1, 0, 128, 0, 0, 0>>

MCHeads ==
  {h \in [operation : {{0}, 0..5, {6}, 6..12, {13}, {20}, {26}, {27}, 0..31, {31}},
          status : {{}, {0}, 0..31, {31}}, session : {Session1, Session2},
          request : BOOLEAN, payload : {<<>>, <<0>>, <<7, 255>>}] :
     h.status # {} => ~h.request /\ h.payload = <<>>}

-----------------------------------------------------------------------------
(* Frames.                                                                 *)

Packet(type, reliable, id, session) ==
  [type |-> type, reliable |-> reliable, id |-> id, session |-> session,
   sequence |-> IF session = NoSession THEN <<0, 0, 0, 0>> ELSE <<0, 255, 1, 0>>,
   at |-> 0, n |-> 0]

Plain == Packet("DATA", FALSE, 257, NoSession)
Sure == Packet("DATA", TRUE, 256, Session2)
Ack == Packet("ACK", FALSE, 0, Session1)

\* The encoder writes from here on; before and behind it are other cells.
Out == 8

Job(p, payload, at, envelope, integrity) ==
  [p |-> [p EXCEPT !.at = at, !.n = Len(payload)], payload |-> payload,
   envelope |-> envelope, integrity |-> integrity, out |-> Out, cap |-> 0,
   size |-> 2 * Len(payload) + 80, pad |-> 0, mtu |-> 0, hurts |-> {}]

\* The room one byte short, exact, and ample.
Rooms(j) == LET n == Len(Expected(j)) IN {[j EXCEPT !.cap = c] : c \in {n - 1, n, n + 3}}
Ample(j, hurts, pad) ==
  LET n == Len(Expected(j)) IN [j EXCEPT !.cap = n + 3, !.hurts = hurts, !.pad = pad, !.mtu = n]

Apart0(payload) == Out + Len(payload) + 40
Envelopes == {"COBS", "LENGTH16", "NATIVE"}
Integrities == {"NONE", "CRC16", "CRC32C"}

Short == UNION {[1..n -> {0, 1, 255}] : n \in 0..2}
Long == {[k \in 1..n |-> 1 + (k % 255)] : n \in {249, 250, 251}}
Longer == {[k \in 1..n |-> 1] : n \in {503, 504}}

\* The payload before, at, inside, behind the header of, and away from its frame.
Places(payload) == {Out - 1, Out, Out + 1, Out + 4, Out + 7, Out + 16, Apart0(payload)}

ShortJobs ==
  UNION {Rooms(Job(p, payload, at, e, i)) : p \in {Plain, Sure}, payload \in Short,
           at \in Places(<<>>), e \in Envelopes, i \in Integrities}
    \cup UNION {Rooms(Job(Ack, <<>>, Out, e, i)) : e \in Envelopes, i \in Integrities}
LongJobs ==
  UNION {Rooms(Job(Plain, payload, at, "COBS", i)) : payload \in Long,
           at \in {Out - 3, Out, Out + 1, Out + 5}, i \in Integrities}
    \cup UNION {Rooms(Job(Plain, payload, Out + 4, "COBS", "CRC16")) : payload \in Longer}

\* Frames for the line to strike.
StruckJobs ==
  {Ample(Job(p, payload, Apart0(payload), e, i), 1..30, pad) :
     p \in {Plain, Sure}, payload \in {<<>>, <<0>>, <<1, 0>>, <<255, 1>>},
     e \in Envelopes, i \in Integrities, pad \in {0, 2}}
    \cup {Ample(Job(Ack, <<>>, Out, e, i), 1..30, 0) : e \in Envelopes, i \in Integrities}
    \cup {Ample(Job(Plain, payload, Apart0(payload), "COBS", i),
                {1, 2, 3, 4, 256, 257, 258, 259}, 0) :
            payload \in Long, i \in {"CRC16", "CRC32C"}}

\* Packets no encoder may take.
BadJobs ==
  {[Job(p, <<1>>, 40, "COBS", "CRC16") EXCEPT !.cap = 60] :
     p \in {Packet("DATA", FALSE, 0, NoSession), Packet("DATA", TRUE, 1, NoSession),
            Packet("ACK", FALSE, 1, Session1), Packet("ACK", FALSE, 0, Session1),
            Packet("ACK", TRUE, 0, Session1), Packet("NACK", FALSE, 1, Session1)}}

MCFrames == ShortJobs \cup LongJobs \cup StruckJobs \cup BadJobs

-----------------------------------------------------------------------------
MCWireInit == WireInit(MCSends, MCTyped, MCHeads, MCFrames)

-----------------------------------------------------------------------------
(***************************************************************************)
(* What the data of a message goes through besides the link: the buffers   *)
(* it waits in and the formats it travels in.  They share no state, so a   *)
(* behaviour runs one of them.                                             *)
(***************************************************************************)

DataPathInit ==
  /\ \/ /\ part \in {"latest", "fifo", "ring", "units", "outbox"}
        /\ layer = "none" /\ job = None /\ WireIdle
     \/ part = "wire" /\ MCWireInit
  /\ BuffersInit

DataPathNext ==
  \/ BuffersNext /\ UNCHANGED wireVars
  \/ part = "wire" /\ WireNext /\ UNCHANGED buffersVars

DataPathSpec == DataPathInit /\ [][DataPathNext]_<<buffersVars, wireVars>>
=============================================================================
