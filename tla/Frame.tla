------------------------------- MODULE Frame --------------------------------
(***************************************************************************)
(* The two checksums of a frame (crc.c, crc_internal.h).  A checksum state *)
(* is the tuple of its bytes, most significant first; the tables are the   *)
(* remainders the source lists.                                            *)
(***************************************************************************)
EXTENDS Integers, Sequences, Bitwise, FiniteSets, FiniteSetsExt

Byte == 0..255

\* Exclusive or of two bytes, tabulated once.
Xor8 == [a \in Byte |-> [b \in Byte |-> a ^^ b]]

\* One step of dividing by x^16 + x^12 + x^5 + 1.
Divide16(c) == IF c >= 32768 THEN (2 * c - 65536) ^^ 4129 ELSE 2 * c

RECURSIVE Remainder16(_, _)
Remainder16(c, n) == IF n = 0 THEN c ELSE Remainder16(Divide16(c), n - 1)

wl_crc16_table ==
  [i \in Byte |-> LET r == Remainder16(256 * i, 8) IN <<r \div 256, r % 256>>]

\* One step of dividing by the reflected Castagnoli polynomial 0x82F63B78,
\* on the upper and the lower half of the 32-bit remainder.
Divide32(c) ==
  LET hi == c[1] \div 2
      lo == c[2] \div 2 + 32768 * (c[1] % 2)
  IN IF c[2] % 2 = 1 THEN <<hi ^^ 33526, lo ^^ 15224>> ELSE <<hi, lo>>

RECURSIVE Remainder32(_, _)
Remainder32(c, n) == IF n = 0 THEN c ELSE Remainder32(Divide32(c), n - 1)

WL_CRC32_TABLE ==
  [i \in Byte |-> LET r == Remainder32(<<0, i>>, 8)
                  IN <<r[1] \div 256, r[1] % 256, r[2] \div 256, r[2] % 256>>]

wl_crc16_byte(state, value) ==
  LET t == wl_crc16_table[Xor8[state[1]][value]]
  IN <<Xor8[state[2]][t[1]], t[2]>>

Crc32Byte(state, value) ==
  LET t == WL_CRC32_TABLE[Xor8[state[4]][value]]
  IN <<t[1], Xor8[t[2]][state[1]], Xor8[t[3]][state[2]], Xor8[t[4]][state[3]]>>

\* The one element of a set.
The(S) == CHOOSE x \in S : TRUE

\* The bytes i to j in halves, the second from the state the first leaves (a
\* set binds it, so it is computed first and the evaluation stays shallow).
RECURSIVE Crc16Over(_, _, _, _)
Crc16Over(state, data, i, j) ==
  LET k == (i + j) \div 2
  IN IF i > j THEN state
     ELSE IF i = j THEN wl_crc16_byte(state, data[i])
     ELSE The({Crc16Over(s, data, k + 1, j) : s \in {Crc16Over(state, data, i, k)}})

RECURSIVE Crc32Over(_, _, _, _)
Crc32Over(state, data, i, j) ==
  LET k == (i + j) \div 2
  IN IF i > j THEN state
     ELSE IF i = j THEN Crc32Byte(state, data[i])
     ELSE The({Crc32Over(s, data, k + 1, j) : s \in {Crc32Over(state, data, i, k)}})

wl_crc16_ccitt_false_update(state, data) == Crc16Over(state, data, 1, Len(data))
wl_crc32c_update(state, data) == Crc32Over(state, data, 1, Len(data))

wl_crc16_ccitt_false(data) == wl_crc16_ccitt_false_update(<<255, 255>>, data)

wl_crc32c(data) ==
  LET state == wl_crc32c_update(<<255, 255, 255, 255>>, data)
  IN [k \in 1..4 |-> 255 - state[k]]

wl_crc_size_bytes(integrity) ==
  CASE integrity = "CRC16" -> 2 [] integrity = "CRC32C" -> 4 [] OTHER -> 0

-----------------------------------------------------------------------------
(***************************************************************************)
(* COBS and the frame (cobs.c, frame.c, frame_internal.h,                  *)
(* frame_cobs_crc16.c, unit_frame.c).  Memory is a sequence of bytes, its  *)
(* indices the addresses, because the question is which byte is read after *)
(* which was overwritten: payload and output may overlap, and a received   *)
(* frame is decoded in place.  Code bytes, block length, header layout and *)
(* checksums are the real ones.                                            *)
(***************************************************************************)

\* A COBS block of 254 data bytes has this code and no zero behind it.
FullCode == 255

\* What an operation leaves: its status, the memory, the length it reports.
Refused(m, err) == [s |-> err, m |-> m, len |-> 0]
Written(m, len) == [s |-> "OK", m |-> m, len |-> len]

\* n bytes of memory m from an address on, and memory with bytes stored.
Span(m, at, n) == SubSeq(m, at, at + n - 1)
Store(m, at, bytes) == SubSeq(m, 1, at - 1) \o bytes \o SubSeq(m, at + Len(bytes), Len(m))

-----------------------------------------------------------------------------
(* COBS                                                                    *)

wl_cobs_encoded_max_size(n) == n + n \div 254 + 1

\* The extra code bytes behind place i: one for every full run of nonzero bytes.
RECURSIVE CountFrom(_, _)
CountFrom(bytes, i) ==
  LET zeros == {k \in i..Len(bytes) : bytes[k] = 0}
      end == IF zeros = {} THEN Len(bytes) + 1 ELSE Min(zeros)
  IN (end - i) \div (FullCode - 1) + IF zeros = {} THEN 0 ELSE CountFrom(bytes, end + 1)

frame_cobs_encoded_size(bytes) == 1 + Len(bytes) + CountFrom(bytes, 1)

\* An encoder writes behind `base`: w is the write index, ci the index of the
\* open block's code, crc the checksum of what was read so far.
Encoder(m, base) ==
  [m |-> m, base |-> base, w |-> 1, ci |-> 0, code |-> 1, crc |-> <<255, 255>>]

CloseBlock(e) ==
  [e EXCEPT !.m[e.base + e.ci] = e.code, !.code = 1, !.ci = e.w, !.w = e.w + 1]

cobs_encode_byte(e, value) ==
  IF value = 0 THEN CloseBlock(e)
  ELSE LET put == [e EXCEPT !.m[e.base + e.w] = value, !.w = e.w + 1, !.code = e.code + 1]
       IN IF put.code = FullCode THEN CloseBlock(put) ELSE put

\* Encode a byte and take it into the checksum.
EncodeByte(e, value) ==
  [cobs_encode_byte(e, value) EXCEPT !.crc = wl_crc16_byte(e.crc, value)]

\* Bytes that lie in memory, from the front, each read just before it is
\* encoded; the loop runs in halves, as in Crc16Over.
RECURSIVE cobs_encode_span(_, _, _)
cobs_encode_span(e, at, n) ==
  LET half == n \div 2
  IN CASE n = 0 -> e
       [] n = 1 -> EncodeByte(e, e.m[at])
       [] OTHER -> The({cobs_encode_span(f, at + half, n - half) :
                          f \in {cobs_encode_span(e, at, half)}})

\* Bytes that are in nobody's buffer: a header or a checksum on the stack.
RECURSIVE EncodeBytes(_, _, _)
EncodeBytes(e, bytes, i) ==
  IF i > Len(bytes) THEN e ELSE EncodeBytes(EncodeByte(e, bytes[i]), bytes, i + 1)

Seal(e) == [e.m EXCEPT ![e.base + e.ci] = e.code]

wl_cobs_encode(m, at, n, out, cap) ==
  LET e == cobs_encode_span(Encoder(m, out), at, n)
  IN IF cap < frame_cobs_encoded_size(Span(m, at, n)) THEN Refused(m, "BUF_TOO_SMALL")
     ELSE Written(Seal(e), e.w)

\* The checking pass: which status, and how much room it asks for.
RECURSIVE Required(_, _, _, _, _)
Required(m, at, n, pos, need) ==
  IF pos >= n THEN [s |-> "OK", need |-> need]
  ELSE LET code == m[at + pos]
           behind == pos + code
           zero == IF behind + (code - 1) < n /\ code # FullCode THEN 1 ELSE 0
       IN IF code = 0 \/ behind > n THEN [s |-> "COBS_DECODE", need |-> 0]
          ELSE Required(m, at, n, behind, need + (code - 1) + zero)

\* The loops below copy forward, apart from or towards lower addresses, so a
\* block arrives as it was.
Copy(m, from, to, n) == Store(m, to, Span(m, from, n))

\* The copying pass: the bytes of a block, then the zero its end stands for.
RECURSIVE CopyBlocks(_, _, _, _, _, _)
CopyBlocks(m, at, n, pos, out, w) ==
  IF pos >= n THEN Written(m, w)
  ELSE LET code == m[at + pos]
           run == Copy(m, at + pos + 1, out + w, code - 1)
           end == w + code - 1
       IN IF pos + code < n /\ code # FullCode
          THEN CopyBlocks([run EXCEPT ![out + end] = 0], at, n, pos + code, out, end + 1)
          ELSE CopyBlocks(run, at, n, pos + code, out, end)

wl_cobs_decode(m, at, n, out, cap) ==
  LET r == Required(m, at, n, 0, 0)
  IN IF n = 0 THEN Refused(m, "COBS_DECODE")
     ELSE IF r.s # "OK" THEN Refused(m, r.s)
     ELSE IF r.need > cap THEN Refused(m, "BUF_TOO_SMALL")
     ELSE CopyBlocks(m, at, n, 0, out, 0)

wl_cobs_decode_in_place(m, at, n) == wl_cobs_decode(m, at, n, at, n)

-----------------------------------------------------------------------------
(* The raw frame: header, payload, checksum.                               *)

BaseHeader == 4
ReliableHeader == 16
MaxPayload == 2048

\* A packet to send: its header fields and where its payload lies; session
\* (8 bytes) and sequence (4 bytes) are tuples of bytes.
Reliable(p) == p.type = "ACK" \/ p.reliable

wl_frame_packet_header_size(p) == IF Reliable(p) THEN ReliableHeader ELSE BaseHeader

frame_packet_kind(p) == IF p.type = "ACK" THEN 2 ELSE IF p.reliable THEN 1 ELSE 0

\* The first byte: marker 0xA0, version 1, kind.
frame_write_header(p) ==
  <<164 + frame_packet_kind(p), 0, p.id \div 256, p.id % 256>>
    \o IF Reliable(p) THEN p.session \o p.sequence ELSE <<>>

IsZero(bytes) == \A k \in DOMAIN bytes : bytes[k] = 0

\* The verdict on a packet to send; its header's size is above.
frame_header_size(p) ==
  IF p.type \notin {"DATA", "ACK"} THEN "BAD_FRAME"
  ELSE IF \/ p.type = "DATA" /\ p.id = 0
          \/ p.type = "ACK" /\ (p.id # 0 \/ p.n # 0 \/ p.reliable)
          \/ Reliable(p) /\ IsZero(p.session)
       THEN "INVALID_ARG"
  ELSE IF p.n > MaxPayload THEN "PAYLOAD_TOO_LONG" ELSE "OK"

\* The verdict on a header handed over as a structure.
wl_frame_validate_header(h) ==
  IF h.marker # 10 \/ h.reserved # 0 THEN "BAD_FRAME"
  ELSE IF h.version # 1 THEN "PROTOCOL_VERSION"
  ELSE IF h.n > MaxPayload THEN "FRAME_TOO_LONG"
  ELSE IF h.type \notin {"DATA", "ACK"} THEN "NOT_SUPPORTED"
  ELSE IF \/ h.type = "DATA" /\ h.id = 0
          \/ h.type = "ACK" /\ (h.id # 0 \/ h.n # 0 \/ h.reliable)
          \/ Reliable(h) /\ (h.header # ReliableHeader \/ IsZero(h.session))
          \/ ~Reliable(h) /\ ~(h.header = BaseHeader /\ IsZero(h.session) /\ IsZero(h.sequence))
       THEN "BAD_FRAME"
  ELSE "OK"

frame_write_integrity(m, p, integrity) ==
  LET covered == frame_write_header(p) \o Span(m, p.at, p.n)
  IN CASE integrity = "CRC16" -> wl_crc16_ccitt_false(covered)
       [] integrity = "CRC32C" -> wl_crc32c(covered)
       [] OTHER -> <<>>

RawLen(p, integrity) == wl_frame_packet_header_size(p) + p.n + wl_crc_size_bytes(integrity)

\* The room any frame without payload takes, and with it.
wl_frame_raw_size(n, integrity) == ReliableHeader + n + wl_crc_size_bytes(integrity)

wl_frame_overhead(integrity) == wl_frame_raw_size(0, integrity)

wl_frame_encode_overhead(envelope, integrity) ==
  LET raw == wl_frame_raw_size(0, integrity)
  IN CASE envelope = "COBS" -> wl_cobs_encoded_max_size(raw) + 1
       [] envelope = "LENGTH16" -> raw + 2
       [] OTHER -> raw

spans_overlap(left, leftLen, right, rightLen) ==
  /\ leftLen > 0 /\ rightLen > 0
  /\ IF left <= right THEN right - left < leftLen ELSE left - right < rightLen

-----------------------------------------------------------------------------
(* Encoding a frame.                                                       *)

\* The payload is moved first, so that it may overlap the output.
frame_write_raw(m, p, crc, out) ==
  LET header == frame_write_header(p)
      moved == Store(m, out + Len(header), Span(m, p.at, p.n))
  IN Store(Store(moved, out, header), out + Len(header) + p.n, crc)

\* Where an overlapping payload waits: its place in the raw frame, shifted by
\* all the bytes COBS will add.  The mutant leaves the shift out.
StagedTight(p, integrity, out, size) == out + wl_frame_packet_header_size(p)
Staged(p, integrity, out, size) ==
  out + (size - RawLen(p, integrity)) + wl_frame_packet_header_size(p)

\* The last code and the delimiter.
EndFrame(e) == Written([Seal(e) EXCEPT ![e.base + e.w] = 0], e.w + 1)

frame_cobs_encode(m, p, at, crc, out) ==
  LET header == EncodeBytes(Encoder(m, out), frame_write_header(p), 1)
  IN EndFrame(EncodeBytes(cobs_encode_span(header, at, p.n), crc, 1))

\* COBS with any checksum: a payload that overlaps the worst case is staged.
EncodeCobs(m, p, integrity, out, cap) ==
  LET crc == frame_write_integrity(m, p, integrity)
      worst == wl_cobs_encoded_max_size(RawLen(p, integrity))
      overlap == spans_overlap(p.at, p.n, out, worst)
      size == IF cap < worst + 1 \/ overlap
              THEN frame_cobs_encoded_size(frame_write_header(p) \o Span(m, p.at, p.n) \o crc)
              ELSE worst
      staged == Staged(p, integrity, out, size)
  IN IF cap < size + 1 THEN Refused(m, "BUF_TOO_SMALL")
     ELSE IF overlap
     THEN frame_cobs_encode(Store(m, staged, Span(m, p.at, p.n)), p, staged, crc, out)
     ELSE frame_cobs_encode(m, p, p.at, crc, out)

wl_frame_encode_bounded(m, p, envelope, integrity, out, cap) ==
  LET crc == frame_write_integrity(m, p, integrity)
      raw == RawLen(p, integrity)
      prefix == <<raw \div 256, raw % 256>>
  IN CASE envelope = "COBS" -> EncodeCobs(m, p, integrity, out, cap)
       [] envelope = "LENGTH16" ->
            IF cap < raw + 2 THEN Refused(m, "BUF_TOO_SMALL")
            ELSE Written(Store(frame_write_raw(m, p, crc, out + 2), out, prefix), raw + 2)
       [] OTHER ->
            IF cap < raw THEN Refused(m, "BUF_TOO_SMALL")
            ELSE Written(frame_write_raw(m, p, crc, out), raw)

\* The usual link in one pass: the checksum is taken while encoding.
wl_frame_encode_cobs_crc16(m, p, out, cap) ==
  LET raw == RawLen(p, "CRC16")
      worst == raw + raw \div 254 + 2
      header == EncodeBytes(Encoder(m, out), frame_write_header(p), 1)
      body == cobs_encode_span(header, p.at, p.n)
  IN IF cap < worst \/ spans_overlap(p.at, p.n, out, worst - 1)
     THEN wl_frame_encode_bounded(m, p, "COBS", "CRC16", out, cap)
     ELSE EndFrame(EncodeBytes(body, body.crc, 1))

wl_link_encode(m, p, envelope, integrity, out, cap) ==
  IF envelope = "COBS" /\ integrity = "CRC16" THEN wl_frame_encode_cobs_crc16(m, p, out, cap)
  ELSE wl_frame_encode_bounded(m, p, envelope, integrity, out, cap)

wl_frame_encode(m, p, envelope, integrity, out, cap) ==
  IF frame_header_size(p) # "OK" THEN Refused(m, frame_header_size(p))
  ELSE wl_link_encode(m, p, envelope, integrity, out, cap)

-----------------------------------------------------------------------------
(* Decoding a frame.                                                       *)

\* What a decoder publishes: a packet whose payload lies in the frame.
NoPacket == [type |-> "none"]
Rejected(err) == [s |-> err, view |-> NoPacket]

\* The fields of the n raw bytes at an address; the kind decides the header.
RawView(m, at, n, crcLen) ==
  LET kind == m[at] % 4
      header == IF kind = 0 THEN BaseHeader ELSE ReliableHeader
  IN [type |-> IF kind = 2 THEN "ACK" ELSE "DATA", reliable |-> kind = 1,
      id |-> 256 * m[at + 2] + m[at + 3],
      session |-> IF kind = 0 THEN [k \in 1..8 |-> 0] ELSE Span(m, at + 4, 8),
      sequence |-> IF kind = 0 THEN [k \in 1..4 |-> 0] ELSE Span(m, at + 12, 4),
      at |-> at + header, n |-> n - header - crcLen]

\* The structure first, the checksum last: `match` is the caller's verdict.
frame_parse(m, at, n, crcLen, match) ==
  LET kind == m[at] % 4
      header == IF kind = 0 THEN BaseHeader ELSE ReliableHeader
      v == RawView(m, at, n, crcLen)
  IN IF n < BaseHeader + crcLen THEN Rejected("BAD_FRAME")
     ELSE IF m[at] \div 16 # 10 THEN Rejected("BAD_FRAME")
     ELSE IF (m[at] \div 4) % 4 # 1 THEN Rejected("PROTOCOL_VERSION")
     ELSE IF kind = 3 THEN Rejected("NOT_SUPPORTED")
     ELSE IF n < header + crcLen THEN Rejected("BAD_FRAME")
     ELSE IF v.n > MaxPayload THEN Rejected("FRAME_TOO_LONG")
     ELSE IF \/ m[at + 1] # 0
             \/ v.type = "DATA" /\ (v.id = 0 \/ (v.reliable /\ IsZero(v.session)))
             \/ v.type = "ACK" /\ (v.id # 0 \/ v.n # 0 \/ IsZero(v.session))
          THEN Rejected("BAD_FRAME")
     ELSE IF ~match THEN Rejected("CRC")
     ELSE [s |-> "OK", view |-> v]

\* The checksum is compared with one taken over the raw bytes.
wl_frame_decode(m, at, n, integrity) ==
  LET crcLen == wl_crc_size_bytes(integrity)
      covered == Span(m, at, n - crcLen)
      trailer == Span(m, at + n - crcLen, crcLen)
  IN frame_parse(m, at, n, crcLen,
                 CASE integrity = "CRC16" -> trailer = wl_crc16_ccitt_false(covered)
                   [] integrity = "CRC32C" -> trailer = wl_crc32c(covered)
                   [] OTHER -> TRUE)

\* A decoder and the memory it leaves.
wl_frame_decode_cobs_generic(m, at, n, integrity) ==
  LET d == wl_cobs_decode_in_place(m, at, n)
  IN [m |-> d.m, r |-> IF d.s # "OK" THEN Rejected(d.s)
                       ELSE IF d.len = 0 THEN Rejected("INVALID_ARG")
                       ELSE wl_frame_decode(d.m, at, d.len, integrity)]

\* Does a block end in a zero of the data?  The mutant says so of the last
\* block as well.
EveryBlockEnds(code, read, n) == code # FullCode
BlockEnds(code, read, n) == code # FullCode /\ read < n

\* One pass in place: COBS and checksum together.
RECURSIVE DecodeBlocks(_, _, _, _, _, _)
DecodeBlocks(m, at, n, read, w, crc) ==
  IF read >= n THEN [s |-> "OK", m |-> m, len |-> w, crc |-> crc]
  ELSE LET code == m[at + read]
           run == Copy(m, at + read + 1, at + w, code - 1)
           sum == wl_crc16_ccitt_false_update(crc, Span(run, at + w, code - 1))
           end == w + code - 1
       IN IF code = 0 \/ read + code > n
          THEN [s |-> "COBS_DECODE", m |-> m, len |-> 0, crc |-> crc]
          ELSE IF BlockEnds(code, read + code, n)
          THEN DecodeBlocks([run EXCEPT ![at + end] = 0], at, n, read + code, end + 1,
                            wl_crc16_byte(sum, 0))
          ELSE DecodeBlocks(run, at, n, read + code, end, sum)

\* The checksum of a frame with its checksum behind it is zero.
wl_frame_decode_cobs_crc16(m, at, n) ==
  LET d == DecodeBlocks(m, at, n, 0, 0, <<255, 255>>)
  IN [m |-> d.m, r |-> IF n = 0 THEN Rejected("COBS_DECODE")
                       ELSE IF d.s # "OK" THEN Rejected(d.s)
                       ELSE IF d.len = 0 THEN Rejected("INVALID_ARG")
                       ELSE frame_parse(d.m, at, d.len, 2, d.crc = <<0, 0>>)]

wl_link_decode_stream(m, at, n, integrity) ==
  IF integrity = "CRC16" THEN wl_frame_decode_cobs_crc16(m, at, n)
  ELSE wl_frame_decode_cobs_generic(m, at, n, integrity)

wl_feed_parse_wire(m, at, n, integrity) ==
  IF n = 0 THEN Rejected("INVALID_ARG") ELSE wl_frame_decode(m, at, n, integrity)

\* A unit of a bus is padded with zeros behind the length it announces.
wl_feed_unit_raw(m, at, n, envelope, integrity, mtu) ==
  LET raw == 256 * m[at] + m[at + 1]
  IN IF envelope # "LENGTH16" THEN wl_feed_parse_wire(m, at, n, integrity)
     ELSE IF n < 2 THEN Rejected("BAD_FRAME")
     ELSE IF raw + 2 > n \/ (mtu # 0 /\ raw + 2 > mtu) THEN Rejected("BAD_FRAME")
     ELSE IF ~IsZero(Span(m, at + raw + 2, n - raw - 2)) THEN Rejected("BAD_FRAME")
     ELSE wl_feed_parse_wire(m, at + 2, raw, integrity)

-----------------------------------------------------------------------------
(* The static kernel's native frame: unreliable, without checksum.         *)

wl_kernel_native_none_seal(m, frame, cap, id, n) ==
  IF id = 0 THEN Refused(m, "INVALID_ARG")
  ELSE IF n > MaxPayload THEN Refused(m, "PAYLOAD_TOO_LONG")
  ELSE IF cap < BaseHeader + n THEN Refused(m, "BUF_TOO_SMALL")
  ELSE Written(Store(m, frame, <<164, 0, id \div 256, id % 256>>), BaseHeader + n)

wl_kernel_native_none_read(m, at, n) ==
  LET v == RawView(m, at, n, 0)
  IN IF n < BaseHeader THEN Rejected("BAD_FRAME")
     ELSE IF m[at] \div 16 # 10 THEN Rejected("BAD_FRAME")
     ELSE IF (m[at] \div 4) % 4 # 1 THEN Rejected("PROTOCOL_VERSION")
     ELSE IF m[at] % 4 # 0 THEN Rejected("NOT_SUPPORTED")
     ELSE IF n - BaseHeader > MaxPayload THEN Rejected("FRAME_TOO_LONG")
     ELSE IF m[at + 1] # 0 \/ v.id = 0 THEN Rejected("BAD_FRAME")
     ELSE [s |-> "OK", view |-> v]
=============================================================================
