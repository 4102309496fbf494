-------------------------------- MODULE Wire --------------------------------
(***************************************************************************)
(* What travels between two peers, from the sender's value to the bytes    *)
(* and back: the tagged codec, its text check, the RPC header and the      *)
(* frame.  A behaviour carries one message of one layer: it is encoded,    *)
(* the bytes may be rewritten by a peer with another schema or damaged on  *)
(* the line, and every decoder of the layer reads them.                    *)
(***************************************************************************)
EXTENDS Codec, Frame

-----------------------------------------------------------------------------
(***************************************************************************)
(* The metadata in front of an RPC message: session, operation, and the    *)
(* status of a rejection.  The managed runtime (device_runtime.c) and the  *)
(* static kernel (rpc_wire.c) write and read the same bytes under          *)
(* different guards.  Operation and status are 32-bit words (module Codec), the      *)
(* session is the tuple of its eight bytes.                                *)
(***************************************************************************)

NoSession == [k \in 1..8 |-> 0]

Malformed == [s |-> "MALFORMED"]

\* Seven-bit digits of what six bits of the operation leave over.
Digits(v) == IF v = {} THEN 0 ELSE Max(v) \div 7 + 1

device_rpc_header_size(operation, status) ==
  (IF status = {} THEN 9 ELSE 13) + Digits(Shr(operation, 6))

device_rpc_write_u32(v) == ToBe(v, 4)
device_rpc_read_u32(bytes, at) == FromBe(SubSeq(bytes, at + 1, at + 4))

device_rpc_header_write(operation, status, session) ==
  LET rest == Shr(operation, 6)
      n == Digits(rest)
      first == 2 * Num(Cast(operation, 6)) + (IF status # {} THEN 1 ELSE 0)
                 + (IF rest # {} THEN 128 ELSE 0)
      digit(k) == Num(Cast(Shr(rest, 7 * (k - 1)), 7)) + (IF k < n THEN 128 ELSE 0)
  IN session \o <<first>> \o [k \in 1..n |-> digit(k)]
       \o IF status # {} THEN device_rpc_write_u32(status) ELSE <<>>

\* May the digit at this shift be read?  The mutant takes a zero digit last.
DigitTakesZero(byte, shift) == ~(shift = 27 /\ byte > 31)
DigitFits(byte, shift) == ~(shift = 27 /\ byte > 31) /\ byte # 0

\* The digits behind a byte that announces one.
RECURSIVE ReadDigits(_, _, _, _, _)
ReadDigits(bytes, at, shift, byte, operation) ==
  IF byte < 128 THEN [s |-> "OK", at |-> at, operation |-> operation]
  ELSE IF at = Len(bytes) \/ shift > 27 THEN Malformed
  ELSE LET next == bytes[at + 1]
       IN IF ~DigitFits(next, shift) THEN Malformed
          ELSE ReadDigits(bytes, at + 1, shift + 7, next,
                          operation \cup Shl(Cast(Bits(next), 7), shift))

device_rpc_header_read(bytes, request) ==
  LET session == SubSeq(bytes, 1, 8)
      rejection == bytes[9] % 2 = 1
      op == ReadDigits(bytes, 9, 6, bytes[9], Bits((bytes[9] \div 2) % 64))
      status == device_rpc_read_u32(bytes, op.at)
      header(st, at) == [s |-> "OK", session |-> session, operation |-> op.operation,
                         status |-> st, at |-> at]
  IN IF Len(bytes) < 9 THEN Malformed
     ELSE IF op.s # "OK" THEN Malformed
     ELSE IF session = NoSession \/ op.operation = {} \/ (rejection /\ request) THEN Malformed
     ELSE IF ~rejection THEN header({}, op.at)
     ELSE IF Len(bytes) # op.at + 4 THEN Malformed
     ELSE IF status = {} THEN Malformed
     ELSE header(status, op.at + 4)

-----------------------------------------------------------------------------
(* The kernel's entry points, over the bytes at once instead of one digit  *)
(* at a time, so that the two are compared where both may be wrong.        *)

\* Digits the kernel writes: one for every seven bits of operation >> 6 it has left.
KernelDigits(operation) == {k \in 0 .. 3 : \E b \in operation : b >= 6 + 7 * k}

wl_kernel_rpc_header_size(operation, status) ==
  IF operation = {} THEN 0
  ELSE 9 + Cardinality(KernelDigits(operation)) + (IF status = {} THEN 0 ELSE 4)

\* The bits of a word from b on, n of them, as a number.
Field(v, b, n) == Num({k \in 0 .. n - 1 : k + b \in v})

wl_kernel_rpc_write(cap, session, operation, status) ==
  LET n == Cardinality(KernelDigits(operation))
      size == wl_kernel_rpc_header_size(operation, status)
      byte(k) == CASE k <= 8 -> session[k]
                   [] k = 9 -> 2 * Field(operation, 0, 6) + (IF status = {} THEN 0 ELSE 1)
                                 + (IF n > 0 THEN 128 ELSE 0)
                   [] k \in 10 .. 9 + n -> Field(operation, 6 + 7 * (k - 10), 7)
                                             + (IF k < 9 + n THEN 128 ELSE 0)
                   [] OTHER -> Field(status, 8 * (size - k), 8)
  IN IF session = NoSession \/ operation = {} THEN [s |-> "INVALID_ARG", bytes |-> <<>>]
     ELSE IF cap < size THEN [s |-> "BUF_TOO_SMALL", bytes |-> <<>>]
     ELSE [s |-> "OK", bytes |-> [k \in 1 .. size |-> byte(k)]]

\* The digits the loop may end behind: all announced, none zero, the fifth refused.
KernelEnds(bytes) ==
  {n \in 0 .. 4 :
     /\ 9 + n <= Len(bytes) /\ bytes[9 + n] < 128
     /\ \A k \in 9 .. 8 + n : bytes[k] >= 128
     /\ \A k \in 10 .. 9 + n : bytes[k] # 0
     /\ n = 4 => bytes[13] <= 31}

\* The payload is what lies behind the header.
wl_kernel_rpc_read(bytes, request) ==
  LET n == CHOOSE k \in KernelEnds(bytes) : TRUE
      rejection == bytes[9] % 2 = 1
      behind == 9 + n
      operation == {b \in 0 .. 5 : b + 1 \in Bits(bytes[9])}
                     \cup {b \in 6 .. 31 : /\ (b - 6) \div 7 < n
                                           /\ (b - 6) % 7 \in Bits(bytes[10 + (b - 6) \div 7])}
      status == IF rejection THEN FromBe(SubSeq(bytes, behind + 1, behind + 4)) ELSE {}
      at == IF rejection THEN behind + 4 ELSE behind
  IN IF \/ Len(bytes) < 9 \/ KernelEnds(bytes) = {}
        \/ (\A k \in 1 .. 8 : bytes[k] = 0) \/ operation = {} \/ (rejection /\ request)
        \/ (rejection /\ (Len(bytes) # at \/ status = {}))
     THEN [s |-> "CORRUPT_PAYLOAD"]
     ELSE [s |-> "OK", session |-> SubSeq(bytes, 1, 8), operation |-> operation,
           status |-> status, payload |-> SubSeq(bytes, at + 1, Len(bytes))]

-----------------------------------------------------------------------------
CONSTANTS
  Additions,   \* encoded fields no schema here knows
  Lines,       \* bytes the line puts in place of a byte
  TextKeys     \* TextKeys[k]: the bytes a text may have at place k

VARIABLES
  layer,       \* the layer this behaviour looks at
  stage,       \* "new", "sent", "hurt" (on the line), "read"
  job,         \* what is sent
  wire,        \* the bytes; for the codec a sequence of encoded fields
  edits,       \* rewritings so far
  got          \* what the encoder, then the decoders returned

wireVars == <<layer, stage, job, wire, edits, got>>

None == [s |-> "none"]

WireIdle == stage = "new" /\ wire = <<>> /\ edits = 0 /\ got = None

\* sends: messages [from, as: schema names, view, edits, hurt]; typed: [as,
\* keys, most], byte strings for a schema's decoders; heads: RPC headers [operation,
\* status, session, request, payload]; frames: see FrameSend.
WireInit(sends, typed, heads, frames) ==
  /\ \/ layer = "codec" /\ job \in sends
     \/ layer = "typed" /\ job \in typed
     \/ layer = "text" /\ job = None
     \/ layer = "head" /\ job \in heads
     \/ layer = "frame" /\ job \in frames
  /\ WireIdle

\* One byte replaced, or the rest lost.
Damages(bytes) ==
  {[bytes EXCEPT ![k] = b] : k \in DOMAIN bytes, b \in Lines}
    \cup {SubSeq(bytes, 1, k) : k \in 0..(Len(bytes) - 1)}

-----------------------------------------------------------------------------
(* The codec.                                                              *)

CodecSend ==
  /\ layer = "codec" /\ stage = "new"
  /\ LET d == Schema(job.from)
         parts == [i \in DOMAIN d.fields |-> EmitField(d.fields[i], job.view[i], FALSE)]
     IN /\ wire' = SelectSeq(parts, LAMBDA field : field # <<>>)
        /\ got' = wlc_encode(d, job.view, MaxPayload)
  /\ stage' = "sent" /\ UNCHANGED <<layer, job, edits>>

\* A peer with a newer schema adds a field, or writes two in another order.
Rewrite(bytes) ==
  /\ layer = "codec" /\ stage = "sent" /\ edits < job.edits
  /\ wire' = bytes /\ edits' = edits + 1 /\ UNCHANGED <<layer, stage, job, got>>
CodecAdd ==
  \E field \in Additions, k \in 1..(Len(wire) + 1) : Rewrite(InsertAt(wire, k, field))
CodecSwap ==
  \E k \in 1..(Len(wire) - 1) :
     Rewrite([wire EXCEPT ![k] = wire[k + 1], ![k + 1] = wire[k]])

CodecDamage ==
  /\ layer = "codec" /\ stage = "sent" /\ edits = 0 /\ job.hurt
  /\ \E bytes \in Damages(FlattenSeq(wire)) : wire' = <<bytes>>
  /\ stage' = "hurt" /\ UNCHANGED <<layer, job, edits, got>>

\* Bytes nobody encoded, one at a time.
TypedByte ==
  /\ layer = "typed" /\ stage = "new" /\ Len(wire) < job.most
  /\ \E b \in job.keys : wire' = Append(wire, <<b>>)
  /\ UNCHANGED <<layer, stage, job, edits, got>>

\* Both decoders read the same bytes; the owned one into a cleared value.
CodecReceive ==
  /\ \/ layer = "codec" /\ stage \in {"sent", "hurt"}
     \/ layer = "typed" /\ stage = "new"
  /\ LET d == Schema(job.as)
         bytes == FlattenSeq(wire)
     IN got' = [view |-> wlc_decode(d, bytes),
                owned |-> DecodeValue(job.as, bytes, wlc_value_clear(d)),
                sent |-> layer = "codec" /\ stage = "sent"]
  /\ stage' = "read" /\ UNCHANGED <<layer, job, wire, edits>>

TextByte ==
  /\ layer = "text" /\ Len(wire) < Len(TextKeys)
  /\ \E b \in TextKeys[Len(wire) + 1] : wire' = Append(wire, b)
  /\ UNCHANGED <<layer, stage, job, edits, got>>

-----------------------------------------------------------------------------
(* The RPC header.                                                         *)

\* The longest header: nine bytes, four digits, a status.
HeaderMax == 17

HeadSend ==
  /\ layer = "head" /\ stage = "new"
  /\ wire' = device_rpc_header_write(job.operation, job.status, job.session) \o job.payload
  /\ got' = wl_kernel_rpc_write(HeaderMax, job.session, job.operation, job.status)
  /\ stage' = "sent" /\ UNCHANGED <<layer, job, edits>>

HeadDamage ==
  /\ layer = "head" /\ stage = "sent"
  /\ wire' \in Damages(wire) \cup {Append(wire, b) : b \in Lines}
  /\ stage' = "hurt" /\ UNCHANGED <<layer, job, edits, got>>

HeadReceive ==
  /\ layer = "head" /\ stage \in {"sent", "hurt"}
  /\ got' = [device |-> device_rpc_header_read(wire, job.request),
             kernel |-> wl_kernel_rpc_read(wire, job.request),
             sent |-> stage = "sent"]
  /\ stage' = "read" /\ UNCHANGED <<layer, job, wire, edits>>

-----------------------------------------------------------------------------
(* The frame.  A job has the packet p, its payload's bytes, the envelope,  *)
(* the integrity, where the encoder writes (out, cap), where the payload   *)
(* lies (p.at) and how much memory there is (size); pad zeros follow a     *)
(* bus unit, and `hurts` says at which places the line may strike.         *)

\* A cell nobody wrote.
Filler == 170

Memory(size, at, bytes) == Store([a \in 1..size |-> Filler], at, bytes)

\* COBS by its definition: runs without zero of at most 254 bytes, each
\* behind its length plus one; a shorter run stands for a zero behind it,
\* but for the last.
RECURSIVE Stuffed(_)
Stuffed(bytes) ==
  LET zeros == {k \in DOMAIN bytes : bytes[k] = 0}
      run == IF zeros = {} THEN Len(bytes) ELSE Min(zeros) - 1
  IN IF run >= 254
     THEN <<255>> \o SubSeq(bytes, 1, 254) \o Stuffed(SubSeq(bytes, 255, Len(bytes)))
     ELSE <<run + 1>> \o SubSeq(bytes, 1, run)
            \o IF zeros = {} THEN <<>> ELSE Stuffed(SubSeq(bytes, run + 2, Len(bytes)))

\* The bytes the protocol asks for, before and in the envelope.
RawFrame(j) ==
  LET head == frame_write_header(j.p) \o j.payload
  IN head \o CASE j.integrity = "CRC16" -> wl_crc16_ccitt_false(head)
               [] j.integrity = "CRC32C" -> wl_crc32c(head)
               [] OTHER -> <<>>

Enveloped(envelope, raw) ==
  CASE envelope = "COBS" -> Append(Stuffed(raw), 0)
    [] envelope = "LENGTH16" -> <<Len(raw) \div 256, Len(raw) % 256>> \o raw
    [] OTHER -> raw

Expected(j) == Enveloped(j.envelope, RawFrame(j))

FrameSend ==
  /\ layer = "frame" /\ stage = "new"
  /\ got' = wl_frame_encode(Memory(job.size, job.p.at, job.payload), job.p, job.envelope,
                            job.integrity, job.out, job.cap)
  /\ wire' = Span(got'.m, job.out, got'.len)
               \o IF job.envelope = "LENGTH16" THEN Zeros(job.pad) ELSE <<>>
  /\ stage' = IF got'.s = "OK" THEN "sent" ELSE "read"
  /\ UNCHANGED <<layer, job, edits>>

FrameDamage ==
  /\ layer = "frame" /\ stage = "sent"
  /\ \E k \in job.hurts \cap DOMAIN wire :
        \/ \E b \in Lines : wire' = [wire EXCEPT ![k] = b]
        \/ wire' = SubSeq(wire, 1, k - 1)
        \/ wire' = RemoveAt(wire, k)
  /\ stage' = "hurt" /\ UNCHANGED <<layer, job, edits, got>>

\* What the stream scanner hands over: the bytes up to a delimiter.
Candidate(bytes) ==
  LET ends == {k \in DOMAIN bytes : bytes[k] = 0}
  IN IF ends = {} THEN bytes ELSE SubSeq(bytes, 1, Min(ends) - 1)

\* What the receiver learns from a decoder that left memory m.
Seen(m, r) ==
  IF r.s # "OK" THEN [s |-> r.s]
  ELSE [s |-> "OK", type |-> r.view.type, reliable |-> r.view.reliable, id |-> r.view.id,
        session |-> r.view.session, sequence |-> r.view.sequence,
        payload |-> Span(m, r.view.at, r.view.n)]

\* COBS into a buffer of its own, then the raw decoder.
Apart(m, n, integrity) ==
  LET d == wl_cobs_decode(m, 1, n, n + 1, n)
  IN IF d.s # "OK" THEN [s |-> d.s]
     ELSE IF d.len = 0 THEN [s |-> "INVALID_ARG"]
     ELSE Seen(d.m, wl_frame_decode(d.m, n + 1, d.len, integrity))

FrameReceive ==
  /\ layer = "frame" /\ stage \in {"sent", "hurt"}
  /\ LET stream == job.envelope = "COBS"
         bytes == IF stream THEN Candidate(wire) ELSE wire
         n == Len(bytes)
         m == Memory(2 * n + 1, 1, bytes)
         link == wl_link_decode_stream(m, 1, n, job.integrity)
         generic == wl_frame_decode_cobs_generic(m, 1, n, job.integrity)
         unit == Seen(m, wl_feed_unit_raw(m, 1, n, job.envelope, job.integrity, job.mtu))
     IN got' = [sent |-> stage = "sent",
                link |-> IF stream THEN Seen(link.m, link.r) ELSE unit,
                generic |-> IF stream THEN Seen(generic.m, generic.r) ELSE unit,
                apart |-> IF stream THEN Apart(m, n, job.integrity) ELSE unit,
                kernel |-> IF stream THEN None ELSE Seen(m, wl_kernel_native_none_read(m, 1, n))]
  /\ stage' = "read" /\ UNCHANGED <<layer, job, wire, edits>>

\* The next message of the kind; nothing is remembered from one to the next.
Again ==
  /\ stage # "new" \/ wire # <<>>
  /\ stage' = "new" /\ wire' = <<>> /\ edits' = 0 /\ got' = None
  /\ UNCHANGED <<layer, job>>

WireNext ==
  \/ CodecSend \/ CodecAdd \/ CodecSwap \/ CodecDamage \/ TypedByte \/ CodecReceive
  \/ TextByte
  \/ HeadSend \/ HeadDamage \/ HeadReceive
  \/ FrameSend \/ FrameDamage \/ FrameReceive
  \/ Again

-----------------------------------------------------------------------------
(* Properties.                                                             *)

\* What a message sent under one schema means under another: the fields both
\* have, and the rest of the reader's at their defaults.
Understood ==
  LET d == Schema(job.as)
  IN [i \in DOMAIN d.fields |-> IF i \in DOMAIN job.view THEN job.view[i] ELSE wlc_clear(d)[i]]

\* A message reads back as it was sent when a newer peer added fields and
\* wrote them in another order (wlc_decode skips what it does not know), its
\* measured size is the size written, and its fingerprint is that of the
\* canonical encoding, whatever came over the wire.
EvolvedIsUnderstood ==
  /\ layer = "codec" /\ stage = "sent" =>
       got.s = "OK" /\ (edits = 0 => got.v = FlattenSeq(wire)) /\ got.at = Len(got.v)
  /\ layer = "codec" /\ stage = "read" /\ got.sent =>
       LET d == Schema(job.as)
       IN /\ got.view.s = "OK" /\ got.view.v = Understood
          /\ wlc_detail_fingerprint(d, got.view.v).hash = wlc_encode(d, Understood, MaxPayload).v

\* The view decoder with value_from_view and the owned decoder accept the
\* same bytes, name the same error, and leave the same storage to the last
\* byte; an accepted value encodes and reads back as itself, and a rejected
\* message leaves the caller's value alone.
DecodersAgree ==
  layer \in {"codec", "typed"} /\ stage = "read" =>
    LET d == Schema(job.as)
        again == EncodeValue(job.as, got.owned.out, MaxPayload)
    IN /\ got.view.s = got.owned.s
       /\ IF got.view.s # "OK" THEN got.owned.out = wlc_value_clear(d)
          ELSE /\ FromView(job.as, got.view.v).v = got.owned.out
               /\ ToView(job.as, got.owned.out).v = got.view.v
               /\ again.s = "OK"
               /\ DecodeValue(job.as, again.v, wlc_value_clear(d)).out = got.owned.out

\* The byte sequences of one well-formed character.
Character(s) ==
  \/ Len(s) = 1 /\ s[1] \in 0..127
  \/ Len(s) = 2 /\ s[1] \in 194..223 /\ s[2] \in 128..191
  \/ /\ Len(s) = 3 /\ s[3] \in 128..191
     /\ \/ s[1] = 224 /\ s[2] \in 160..191
        \/ s[1] \in (225..239) \ {237} /\ s[2] \in 128..191
        \/ s[1] = 237 /\ s[2] \in 128..159
  \/ /\ Len(s) = 4 /\ s[3] \in 128..191 /\ s[4] \in 128..191
     /\ \/ s[1] = 240 /\ s[2] \in 144..191
        \/ s[1] \in 241..243 /\ s[2] \in 128..191
        \/ s[1] = 244 /\ s[2] \in 128..143

RECURSIVE WellFormed(_)
WellFormed(s) ==
  s = <<>> \/ \E n \in 1..Min({4, Len(s)}) :
                 Character(SubSeq(s, 1, n)) /\ WellFormed(SubSeq(s, n + 1, Len(s)))

\* wlc_utf8 accepts exactly the well-formed texts: no overlong form, no
\* surrogate, nothing beyond the last plane, nothing cut short.
Utf8Exact == layer = "text" => (wlc_utf8(wire) <=> WellFormed(wire))

\* A header reads back as it was written, at the size announced and by both
\* implementations; and whatever the line made of it, an accepted header is
\* the one way to write what was read (device_rpc_header_read, rpc_wire.c).
HeaderExact ==
  /\ layer = "head" /\ stage = "sent" =>
       /\ got.s = "OK" /\ wire = got.bytes \o job.payload
       /\ Len(got.bytes) = device_rpc_header_size(job.operation, job.status)
  /\ layer = "head" /\ stage = "read" =>
       LET r == got.device
       IN /\ got.kernel.s = "OK" <=> r.s = "OK"
          /\ r.s = "OK" => /\ got.kernel.session = r.session
                           /\ got.kernel.operation = r.operation
                           /\ got.kernel.status = r.status
                           /\ got.kernel.payload = SubSeq(wire, r.at + 1, Len(wire))
          /\ got.sent => /\ r.s = "OK" /\ r.session = job.session
                         /\ r.operation = job.operation /\ r.status = job.status
                         /\ got.kernel.payload = job.payload
          /\ r.s = "OK" => SubSeq(wire, 1, r.at)
                             = device_rpc_header_write(r.operation, r.status, r.session)

\* wl_cobs_encode turns the raw bytes into the stuffed ones where they fit.
ToolAgrees(raw, stuffed) ==
  LET n == Len(raw)
      k == Len(stuffed)
      tool(cap) == wl_cobs_encode(Memory(n + k, 1, raw), 1, n, n + 1, cap)
  IN tool(k).len = k /\ Span(tool(k).m, n + 1, k) = stuffed /\ tool(k - 1).len = 0

\* The encoders write the protocol's bytes whenever they fit, wherever the
\* payload lies with respect to the output (EncodeCobs stages it,
\* frame_write_raw moves it), touch no byte beyond them, and write nothing
\* when they refuse; an empty packet fits the announced overhead.  The COBS
\* tool and the kernel's seal write the same bytes.
FrameExact ==
  layer = "frame" /\ (stage = "sent" \/ (stage = "read" /\ "m" \in DOMAIN got)) =>
    LET before == Memory(job.size, job.p.at, job.payload)
        valid == frame_header_size(job.p) = "OK"
        bytes == Expected(job)
        n == Len(bytes)
    IN IF valid /\ job.cap >= n
       THEN /\ got.s = "OK" /\ got.len = n /\ Span(got.m, job.out, n) = bytes
            /\ \A a \in DOMAIN before :
                  a \notin job.out..(job.out + n - 1) => got.m[a] = before[a]
            /\ job.p.n = 0 => /\ n <= wl_frame_encode_overhead(job.envelope, job.integrity)
                              /\ Len(RawFrame(job)) <= wl_frame_overhead(job.integrity)
            /\ job.envelope = "COBS" => ToolAgrees(RawFrame(job), SubSeq(bytes, 1, n - 1))
            /\ job.envelope = "NATIVE" /\ job.integrity = "NONE" /\ ~Reliable(job.p) =>
                 wl_kernel_native_none_seal(Memory(n, BaseHeader + 1, job.payload), 1, n,
                                            job.p.id, job.p.n).m = bytes
       ELSE got.s # "OK" /\ got.m = before /\ got.len = 0

\* The header of a packet that was seen, as wl_frame_validate_header takes it.
AsHeader(x) ==
  [marker |-> 10, reserved |-> 0, version |-> 1, n |-> Len(x.payload), type |-> x.type,
   id |-> x.id, reliable |-> x.reliable, session |-> x.session, sequence |-> x.sequence,
   header |-> IF Reliable(x) THEN ReliableHeader ELSE BaseHeader]

\* The one-pass decoder of the usual link, the generic one in place and the
\* raw one behind a COBS decoder with its own buffer give the same verdict on
\* any bytes and see the same packet; an undamaged frame is the packet sent;
\* a packet that is seen passes wl_frame_validate_header; and the kernel's
\* reader agrees on the frames it supports.
FramesAgree ==
  layer = "frame" /\ stage = "read" /\ "link" \in DOMAIN got =>
    LET x == got.link
    IN /\ got.generic = x /\ got.apart = x
       /\ got.sent => /\ x.s = "OK" /\ x.type = job.p.type /\ x.reliable = job.p.reliable
                      /\ x.id = job.p.id /\ x.payload = job.payload
                      /\ Reliable(job.p) => /\ x.session = job.p.session
                                            /\ x.sequence = job.p.sequence
       /\ x.s = "OK" => wl_frame_validate_header(AsHeader(x)) = "OK"
       /\ job.envelope = "NATIVE" /\ job.integrity = "NONE" =>
            IF x.s = "OK" /\ Reliable(x) THEN got.kernel.s = "NOT_SUPPORTED"
            ELSE x.s = "OK" => got.kernel = x
=============================================================================
