------------------------------- MODULE Codec --------------------------------
(***************************************************************************)
(* The generated tagged codec (device.c): one schema-driven engine, the    *)
(* field tables of the device schema, the views the decoder lends and the  *)
(* owned values it copies.  Integers are exact 64-bit words (see below)    *)
(* and wire bytes are numbers; a view is a sequence of [has, v], one entry *)
(* per field of its descriptor.  No schema of the repository has a         *)
(* repeated field or a binary lookup, so those branches are left out.      *)
(***************************************************************************)
EXTENDS Integers, Sequences, FiniteSets, FiniteSetsExt, SequencesExt

-----------------------------------------------------------------------------
(***************************************************************************)
(* Fixed-width machine words, exact to the last bit.  TLC's integers stop  *)
(* at 31 bits and the codec's words do not, so a word is the SET of the    *)
(* positions of its one bits: xor is the symmetric difference, a shift     *)
(* moves every position, a cast keeps the positions below the width.       *)
(***************************************************************************)

\* The word a small natural number denotes; bytes are tabulated.
BitsOf(n, width) == {i \in 0..(width - 1) : (n \div (2^i)) % 2 = 1}
ByteBits == [b \in 0..255 |-> BitsOf(b, 8)]
Bits(n) == IF n < 256 THEN ByteBits[n] ELSE BitsOf(n, 31)

\* Numbers from Big on are only ever compared with lengths, which are smaller.
Big == 2^30 - 1

\* The number a word denotes, saturating at Big.
Weight(v, i) == IF i \in v THEN 2^i ELSE 0
Nibble(v, i) == Weight(v, i) + Weight(v, i + 1) + Weight(v, i + 2) + Weight(v, i + 3)
Num(v) == IF \A i \in v : i < 8 THEN Nibble(v, 0) + Nibble(v, 4)
          ELSE IF \A i \in v : i < 30 THEN SumSet({2^i : i \in v})
          ELSE Big

WordXor(v, w) == (v \ w) \cup (w \ v)
Shl(v, n) == {i + n : i \in v}
Shr(v, n) == {i - n : i \in {j \in v : j >= n}}
Cast(v, width) == {i \in v : i < width}

\* Two's complement: a signed word widened to `to` bits repeats its sign bit.
SignExtend(v, from, to) == v \cup IF from - 1 \in v THEN from..(to - 1) ELSE {}

\* The unsigned value exceeds what `width` bits hold.
Exceeds(v, width) == \E i \in v : i >= width

\* The big-endian byte k of a word of n bytes, and the word of such bytes.
BeByte(v, n, k) == Num(Cast(Shr(v, 8 * (n - k)), 8))
ToBe(v, n) == [k \in 1..n |-> BeByte(v, n, k)]
FromBe(bytes) ==
  UNION {Shl(Bits(bytes[k]), 8 * (Len(bytes) - k)) : k \in DOMAIN bytes}

-----------------------------------------------------------------------------
-----------------------------------------------------------------------------
(* Results: a status, the cursor behind what was read, and what was read.  *)

Read(at, v) == [s |-> "OK", at |-> at, v |-> v]
Fail(err) == [s |-> err, at |-> 0, v |-> {}]

-----------------------------------------------------------------------------
(* Varints, zigzag and text.                                               *)

wlc_vsize(v) == IF v = {} THEN 1 ELSE Max(v) \div 7 + 1

wlc_putv(v) ==
  LET n == wlc_vsize(v)
  IN [k \in 1..n |-> Num(Cast(Shr(v, 7 * (k - 1)), 7)) + (IF k < n THEN 128 ELSE 0)]

\* A tenth byte holds the last bit of a 64-bit value.
VarintLimit == 10

\* The word the n bytes behind `at` carry, seven bits each.
Groups(in, at, n) ==
  UNION {Shl(Cast(Bits(in[at + k]), 7), 7 * (k - 1)) : k \in 1..n}

\* The n bytes behind `at` end a varint; no shorter form may exist.
Shortest(in, at, n) ==
  IF wlc_vsize(Groups(in, at, n)) # n THEN Fail("MALFORMED")
  ELSE Read(at + n, Groups(in, at, n))

GetvWithin(in, at, avail) ==
  IF avail = VarintLimit /\ (\A k \in 1..(VarintLimit - 1) : in[at + k] >= 128)
       /\ in[at + VarintLimit] > 1
  THEN Fail("OVERFLOW")
  ELSE IF \A k \in 1..avail : in[at + k] >= 128
       THEN Fail(IF at + avail = Len(in) THEN "MALFORMED" ELSE "OVERFLOW")
  ELSE Shortest(in, at, Min({n \in 1..avail : in[at + n] < 128}))

wlc_getv(in, at) == GetvWithin(in, at, Min({VarintLimit, Len(in) - at}))

\* How many continuation bytes a leading byte asks for; -1 when it may not lead.
Needs(a) == CASE a < 128 -> 0
              [] a \in 194..223 -> 1
              [] a \in 224..239 -> 2
              [] a \in 240..244 -> 3
              [] OTHER -> -1

\* The code point of a lead byte and its continuation bytes.
CodePoint(a, need, s, i) ==
  LET lead == CASE need = 1 -> a % 32 [] need = 2 -> a % 16 [] OTHER -> a % 8
  IN FoldLeft(LAMBDA v, b : 64 * v + (b % 64), lead, SubSeq(s, i + 1, i + need))

\* Mutant of LeadAllows: surrogates pass.
AllowsSurrogates(a, v) == /\ a = 224 => v >= 2048
                          /\ a = 240 => v >= 65536
                          /\ a = 244 => v <= 1114111

\* The code points the lead byte alone does not rule out.
LeadAllows(a, v) == /\ a = 224 => v >= 2048
                    /\ a = 237 => v < 55296
                    /\ a = 240 => v >= 65536
                    /\ a = 244 => v <= 1114111

RECURSIVE Utf8From(_, _)
Utf8From(s, i) ==
  \/ i > Len(s)
  \/ LET need == Needs(s[i])
     IN /\ need >= 0
        /\ need <= Len(s) - i
        /\ \A k \in 1..need : s[i + k] \in 128..191
        /\ need > 0 => LeadAllows(s[i], CodePoint(s[i], need, s, i))
        /\ Utf8From(s, i + need + 1)

wlc_utf8(s) == Utf8From(s, 1)

wlc_z32(v) == WordXor(Cast(Shl(v, 1), 32), IF 31 \in v THEN 0..31 ELSE {})
wlc_z64(v) == WordXor(Cast(Shl(v, 1), 64), IF 63 \in v THEN 0..63 ELSE {})
wlc_uz32(v) == WordXor(Shr(v, 1), IF 0 \in v THEN 0..31 ELSE {})
wlc_uz64(v) == WordXor(Shr(v, 1), IF 0 \in v THEN 0..63 ELSE {})

-----------------------------------------------------------------------------
(* Field tables.  A field's wire type and key follow from its kind and     *)
(* number, as the generator writes them into the table.                    *)

Width(kind) == CASE kind = "BOOL" -> 1
                 [] kind \in {"U8", "I8"} -> 8
                 [] kind \in {"U16", "I16"} -> 16
                 [] kind \in {"U32", "I32", "ENUM", "F32", "FLOAT32"} -> 32
                 [] OTHER -> 64

Fixed == {"F32", "F64", "FLOAT32", "FLOAT64"}
Delimited == {"BYTES", "STRING", "MESSAGE"}

\* max: most bytes of a text or bytes field; count: elements of a packed one.
wlc_field_t(number, card, kind, required, max, count, default, nested) ==
  [number |-> number, card |-> card, kind |-> kind, required |-> required,
   max |-> max, count |-> count, default |-> default, nested |-> nested]

Scalar(number, kind, required, default) ==
  wlc_field_t(number, "OPTIONAL", kind, required, 0, 0, default, <<>>)
Text(number, kind, required, max, default) ==
  wlc_field_t(number, "OPTIONAL", kind, required, max, 0, default, <<>>)
Packed(number, kind, required, count) ==
  wlc_field_t(number, "PACKED", kind, required, 0, count, {}, <<>>)
Message(number, required, nested) ==
  wlc_field_t(number, "OPTIONAL", "MESSAGE", required, 0, 0, {}, nested)

wlc_wire(f) == CASE f.card = "PACKED" \/ f.kind \in Delimited -> 2
                 [] f.kind \in {"F32", "FLOAT32"} -> 5
                 [] f.kind \in {"F64", "FLOAT64"} -> 1
                 [] OTHER -> 0

wlc_put_key(f) == wlc_putv(Bits(8 * f.number + wlc_wire(f)))

info_request_desc == [fields |-> <<>>, lookup |-> "LINEAR"]

settings_desc ==
  [fields |->
     <<Text(1, "STRING", FALSE, 12, <<232, 174, 190, 229, 164, 135>>),
       Scalar(2, "BOOL", TRUE, {}),
       Scalar(3, "ENUM", FALSE, {0}),
       Text(4, "BYTES", TRUE, 8, <<>>),
       Packed(5, "FLOAT32", TRUE, 3),
       Packed(6, "F64", FALSE, 2),
       Scalar(7, "I64", FALSE, {63}),
       Scalar(8, "U64", FALSE, 0..63),
       Text(9, "STRING", FALSE, 8, <<>>),
       Scalar(10, "U16", FALSE, {})>>,
   lookup |-> "DENSE"]

info_response_desc ==
  [fields |-> <<Text(1, "STRING", TRUE, 32, <<>>), Message(2, TRUE, settings_desc)>>,
   lookup |-> "LINEAR"]

configure_request_desc ==
  [fields |-> <<Message(1, TRUE, settings_desc), Text(2, "BYTES", FALSE, 4, <<>>),
                Message(3, FALSE, settings_desc)>>,
   lookup |-> "LINEAR"]

configure_response_desc ==
  [fields |-> <<Message(1, TRUE, settings_desc), Text(2, "BYTES", FALSE, 4, <<>>),
                Message(3, FALSE, settings_desc), Scalar(4, "U32", TRUE, {})>>,
   lookup |-> "LINEAR"]

numbers_desc ==
  [fields |->
     <<Scalar(1, "I8", TRUE, {}), Scalar(2, "U8", TRUE, {}),
       Scalar(3, "I16", TRUE, {}), Scalar(4, "U16", TRUE, {}),
       Scalar(5, "I32", TRUE, {}), Scalar(6, "U32", TRUE, {}),
       Scalar(7, "I64", TRUE, {}), Scalar(8, "U64", TRUE, {}),
       Scalar(9, "F32", TRUE, {}), Scalar(10, "F64", TRUE, {}),
       Scalar(11, "FLOAT32", TRUE, {}), Scalar(12, "FLOAT64", TRUE, {}),
       Packed(13, "FLOAT64", FALSE, 2), Packed(14, "F32", TRUE, 2),
       Scalar(15, "I64", FALSE, (0..63) \ {1, 2}),
       Scalar(16, "I32", FALSE, {31}), Scalar(17, "BOOL", FALSE, {0}),
       Text(18, "STRING", FALSE, 16, <<97, 34, 64, 78, 65, 77, 69, 64>>)>>,
   lookup |-> "DENSE"]

-----------------------------------------------------------------------------
(* Clearing a view.                                                        *)

Zeros(n) == [i \in 1..n |-> 0]

RECURSIVE wlc_clear(_)
wlc_clear(d) ==
  [i \in DOMAIN d.fields |->
     LET f == d.fields[i]
     IN [has |-> FALSE,
         v |-> CASE f.card = "PACKED" -> [j \in 1..f.count |-> {}]
                 [] f.kind = "MESSAGE" -> wlc_clear(f.nested)
                 [] OTHER -> f.default]]

-----------------------------------------------------------------------------
(* Encoding: measure first, then emit into a buffer known to be large      *)
(* enough.  `validated` skips the text check for values fresh from decode. *)

\* What an integer kind puts on the wire.
WireWord(kind, v) == CASE kind = "I8" -> wlc_z32(SignExtend(v, 8, 32))
                       [] kind = "I16" -> wlc_z32(SignExtend(v, 16, 32))
                       [] kind \in {"I32", "ENUM"} -> wlc_z32(v)
                       [] kind = "I64" -> wlc_z64(v)
                       [] OTHER -> v

Element(f) == IF f.kind \in {"F32", "FLOAT32"} THEN 4 ELSE 8

wlc_packed_bytes(f) == Element(f) * f.count

Size(n) == [s |-> "OK", n |-> n]
NoSize(err) == [s |-> err, n |-> 0]

\* A length-delimited body behind its length.
Counted(size) == IF size.s # "OK" THEN size ELSE Size(wlc_vsize(Bits(size.n)) + size.n)

\* A body behind its key.
Keyed(f, body) == IF body.s # "OK" THEN body ELSE Size(Len(wlc_put_key(f)) + body.n)

\* The first field in error decides; otherwise the sizes add up.
Total(sizes) ==
  IF \A i \in DOMAIN sizes : sizes[i].s = "OK"
  THEN Size(FoldLeft(LAMBDA n, x : n + x.n, 0, sizes))
  ELSE sizes[Min({i \in DOMAIN sizes : sizes[i].s # "OK"})]

RECURSIVE wlc_measure_impl(_, _, _)

wlc_body(f, v, validated) ==
  CASE f.kind = "BOOL" -> Size(1)
    [] f.kind \in Fixed -> Size(Element(f))
    [] f.kind \in {"BYTES", "STRING"} ->
         IF Len(v) > f.max THEN NoSize("INVALID_VALUE")
         ELSE IF f.kind = "STRING" /\ ~validated /\ ~wlc_utf8(v) THEN NoSize("UTF8")
         ELSE Counted(Size(Len(v)))
    [] f.kind = "MESSAGE" -> Counted(wlc_measure_impl(f.nested, v, validated))
    [] OTHER -> Size(wlc_vsize(WireWord(f.kind, v)))

\* One turn of the measuring loop.
FieldSize(f, slot, validated) ==
  IF ~slot.has
  THEN IF f.required THEN NoSize("MISSING_REQUIRED_FIELD") ELSE Size(0)
  ELSE Keyed(f, IF f.card = "PACKED" THEN Counted(Size(wlc_packed_bytes(f)))
                ELSE wlc_body(f, slot.v, validated))

wlc_measure_impl(d, m, validated) ==
  Total([i \in DOMAIN d.fields |-> FieldSize(d.fields[i], m[i], validated)])

wlc_measure(d, m) == wlc_measure_impl(d, m, FALSE)

wlc_emit_fixed(f, v) == ToBe(v, Element(f))

wlc_emit_packed(f, v) ==
  wlc_putv(Bits(wlc_packed_bytes(f)))
    \o FlattenSeq([j \in 1..f.count |-> ToBe(v[j], Element(f))])

RECURSIVE Emit(_, _, _)

wlc_emit_value(f, v, validated) ==
  CASE f.kind \in Fixed -> wlc_emit_fixed(f, v)
    [] f.kind \in {"BYTES", "STRING"} -> wlc_putv(Bits(Len(v))) \o v
    [] f.kind = "MESSAGE" -> wlc_putv(Bits(wlc_measure_impl(f.nested, v, validated).n))
                               \o Emit(f.nested, v, validated)
    [] OTHER -> wlc_putv(WireWord(f.kind, v))

\* The bytes of one field: nothing when it is absent.
EmitField(f, slot, validated) ==
  IF ~slot.has THEN <<>>
  ELSE wlc_put_key(f) \o IF f.card = "PACKED" THEN wlc_emit_packed(f, slot.v)
                         ELSE wlc_emit_value(f, slot.v, validated)

Emit(d, m, validated) ==
  FlattenSeq([i \in DOMAIN d.fields |-> EmitField(d.fields[i], m[i], validated)])

wlc_emit_fields(d, m) == Emit(d, m, FALSE)

wlc_encode(d, m, cap) ==
  LET size == wlc_measure(d, m)
  IN IF size.s # "OK" THEN Fail(size.s)
     ELSE IF cap < size.n THEN Fail("CAPACITY")
     ELSE Read(size.n, wlc_emit_fields(d, m))

(* The fingerprint of a request hashes what the same emitter would write,  *)
(* so the hash is modelled by the bytes it absorbs.                        *)

wlc_hash_emit_fields(d, m) == Emit(d, m, TRUE)

wlc_detail_fingerprint(d, m) ==
  LET absorbed == wlc_hash_emit_fields(d, m)
  IN [hash |-> absorbed, length |-> Len(absorbed)]

-----------------------------------------------------------------------------
(* Decoding.  The view decoder and the owned decoder are the same loop     *)
(* over different clears and field readers; `owned` tells them apart.      *)

\* n bytes passed over.
Past(in, at, n) == IF Len(in) - at < n THEN Fail("MALFORMED") ELSE Read(at + n, {})

SkipCounted(in, length) ==
  IF length.s # "OK" THEN length ELSE Past(in, length.at, Num(length.v))

\* Mutant of wlc_skip: a 32-bit field is passed over like a 64-bit one.
SkipsTooFar(wire, in, at) == CASE wire = 0 -> wlc_getv(in, at)
                               [] wire \in {1, 5} -> Past(in, at, 8)
                               [] wire = 2 -> SkipCounted(in, wlc_getv(in, at))
                               [] OTHER -> Fail("MALFORMED")

wlc_skip(wire, in, at) == CASE wire = 0 -> wlc_getv(in, at)
                            [] wire = 1 -> Past(in, at, 8)
                            [] wire = 5 -> Past(in, at, 4)
                            [] wire = 2 -> SkipCounted(in, wlc_getv(in, at))
                            [] OTHER -> Fail("MALFORMED")

wlc_read_fixed(f, in, at) ==
  IF Len(in) - at < Element(f) THEN Fail("MALFORMED")
  ELSE Read(at + Element(f), FromBe(SubSeq(in, at + 1, at + Element(f))))

\* Element j of a packed field whose elements begin behind `at`.
PackedElement(f, in, at, j) ==
  FromBe(SubSeq(in, at + Element(f) * (j - 1) + 1, at + Element(f) * j))

PackedBehind(f, in, length) ==
  IF length.s # "OK" THEN length
  ELSE IF Num(length.v) # wlc_packed_bytes(f) \/ wlc_packed_bytes(f) > Len(in) - length.at
       THEN Fail("MALFORMED")
  ELSE Read(length.at + wlc_packed_bytes(f),
            [j \in 1..f.count |-> PackedElement(f, in, length.at, j)])

wlc_read_packed(f, in, at) == PackedBehind(f, in, wlc_getv(in, at))

\* An integer of the kind, from its wire word.
ReadWord(f, word) ==
  IF word.s # "OK" THEN word
  ELSE IF Exceeds(word.v, Width(f.kind))
       THEN Fail(IF f.kind = "BOOL" THEN "INVALID_VALUE" ELSE "OVERFLOW")
  ELSE Read(word.at, CASE f.kind \in {"I8", "I16"} -> Cast(wlc_uz32(word.v), Width(f.kind))
                       [] f.kind \in {"I32", "ENUM"} -> wlc_uz32(word.v)
                       [] f.kind = "I64" -> wlc_uz64(word.v)
                       [] OTHER -> word.v)

RECURSIVE DecodeMessage(_, _, _)

\* Mutant of Overlay: the default under a shorter text is not cleared.
OverlayKeepsDefault(f, old, bytes) ==
  [length |-> Len(bytes),
   data |-> [k \in DOMAIN old.data |->
               CASE k <= Len(bytes) -> bytes[k]
                 [] k = Len(bytes) + 1 /\ f.kind = "STRING" -> 0
                 [] OTHER -> old.data[k]]]

\* The owned buffer of a text or bytes field: the bytes, then what was there,
\* cleared first where the schema has a default; text keeps a terminator.
Overlay(f, old, bytes) ==
  LET kept == IF f.default # <<>> THEN Zeros(Len(old.data)) ELSE old.data
  IN [length |-> Len(bytes),
      data |-> [k \in DOMAIN kept |->
                  CASE k <= Len(bytes) -> bytes[k]
                    [] k = Len(bytes) + 1 /\ f.kind = "STRING" -> 0
                    [] OTHER -> kept[k]]]

\* A nested message ends where its length says.
Nested(at, child) == IF child.s # "OK" THEN child ELSE Read(at, child.v)

Content(f, bytes, at, owned, old) ==
  IF f.kind = "MESSAGE" THEN Nested(at, DecodeMessage(f.nested, bytes, owned))
  ELSE IF f.kind = "STRING" /\ ~wlc_utf8(bytes) THEN Fail("UTF8")
  ELSE Read(at, IF owned THEN Overlay(f, old, bytes) ELSE bytes)

\* A length-delimited field, common to wlc_read_value and wlc_value_read.
ReadDelimited(f, in, length, owned, old) ==
  IF length.s # "OK" THEN length
  ELSE IF f.kind # "MESSAGE" /\ Num(length.v) > f.max THEN Fail("INVALID_VALUE")
  ELSE IF Num(length.v) > Len(in) - length.at THEN Fail("MALFORMED")
  ELSE Content(f, SubSeq(in, length.at + 1, length.at + Num(length.v)),
               length.at + Num(length.v), owned, old)

wlc_read_value(f, in, at) ==
  CASE f.kind \in Fixed -> wlc_read_fixed(f, in, at)
    [] f.kind \in Delimited -> ReadDelimited(f, in, wlc_getv(in, at), FALSE, <<>>)
    [] OTHER -> ReadWord(f, wlc_getv(in, at))

wlc_value_read(f, in, at, old) ==
  IF f.kind \in Delimited THEN ReadDelimited(f, in, wlc_getv(in, at), TRUE, old)
  ELSE wlc_read_value(f, in, at)

\* The index of the field with the number, or 0.
wlc_find_field(d, number) ==
  IF d.lookup = "DENSE"
  THEN LET index == number - d.fields[1].number + 1
       IN IF index \in DOMAIN d.fields THEN index ELSE 0
  ELSE LET same == {i \in DOMAIN d.fields : d.fields[i].number = number}
       IN IF same = {} THEN 0 ELSE Min(same)

ReadField(f, in, at, owned, old) ==
  IF f.card = "PACKED" THEN wlc_read_packed(f, in, at)
  ELSE IF owned THEN wlc_value_read(f, in, at, old)
  ELSE wlc_read_value(f, in, at)

\* The decode loop, one key at a time; `next` is only a hint.
RECURSIVE DecodeFrom(_, _, _, _, _, _)

\* Behind an unknown field, and behind a field that was read.
AfterSkip(d, in, skipped, next, m, owned) ==
  IF skipped.s # "OK" THEN skipped ELSE DecodeFrom(d, in, skipped.at, next, m, owned)
AfterValue(d, in, value, i, m, owned) ==
  IF value.s # "OK" THEN value
  ELSE DecodeFrom(d, in, value.at, i + 1, [m EXCEPT ![i] = [has |-> TRUE, v |-> value.v]], owned)

\* i is the index of the field, 0 when the schema does not know it.
DecodeField(d, in, at, wire, i, next, m, owned) ==
  IF i = 0 THEN AfterSkip(d, in, wlc_skip(wire, in, at), next, m, owned)
  ELSE IF wire # wlc_wire(d.fields[i]) THEN Fail("WIRE_TYPE")
  ELSE IF m[i].has THEN Fail("DUPLICATE_FIELD")
  ELSE AfterValue(d, in, ReadField(d.fields[i], in, at, owned, m[i].v), i, m, owned)

DecodeKey(d, in, at, number, wire, next, m, owned) ==
  IF number = 0 \/ number > 65535 \/ wire \notin {0, 1, 2, 5} THEN Fail("MALFORMED")
  ELSE DecodeField(d, in, at, wire,
                   IF next \in DOMAIN d.fields /\ d.fields[next].number = number
                   THEN next ELSE wlc_find_field(d, number), next, m, owned)

AfterKey(d, in, key, next, m, owned) ==
  IF key.s # "OK" THEN key
  ELSE DecodeKey(d, in, key.at, Num(Shr(key.v, 3)), Num(Cast(key.v, 3)), next, m, owned)

DecodeFrom(d, in, at, next, m, owned) ==
  IF at >= Len(in) THEN Read(at, m)
  ELSE AfterKey(d, in, wlc_getv(in, at), next, m, owned)

\* The message is complete when every required field was seen.
Complete(d, m) == \A i \in DOMAIN d.fields : d.fields[i].required => m[i].has

-----------------------------------------------------------------------------
(* Owned values: every text and bytes field has its storage inline.        *)

\* Storage of a text field has room for a terminator.
Room(f) == IF f.kind = "STRING" THEN f.max + 1 ELSE f.max

\* Text storage holding `bytes`, zero behind them.
Stored(f, bytes) ==
  [length |-> Len(bytes), data |-> bytes \o Zeros(Room(f) - Len(bytes))]

\* Everything zero, then the schema's defaults.
RECURSIVE wlc_value_clear(_)
wlc_value_clear(d) ==
  [i \in DOMAIN d.fields |->
     LET f == d.fields[i]
     IN [has |-> FALSE,
         v |-> CASE f.card = "PACKED" -> [j \in 1..f.count |-> {}]
                 [] f.kind = "MESSAGE" -> wlc_value_clear(f.nested)
                 [] f.kind \in {"BYTES", "STRING"} -> Stored(f, f.default)
                 [] OTHER -> f.default]]

Checked(d, got) ==
  IF got.s = "OK" /\ ~Complete(d, got.v) THEN Fail("MISSING_REQUIRED_FIELD") ELSE got

DecodeMessage(d, in, owned) ==
  Checked(d, DecodeFrom(d, in, 0, 1, IF owned THEN wlc_value_clear(d) ELSE wlc_clear(d), owned))

wlc_decode(d, in) == DecodeMessage(d, in, FALSE)
wlc_value_decode(d, in) == DecodeMessage(d, in, TRUE)

\* What a view's fields become in zeroed storage.
RECURSIVE value_copy_fields(_, _)
value_copy_fields(d, view) ==
  [i \in DOMAIN d.fields |->
     LET f == d.fields[i]
         v == view[i].v
     IN IF ~view[i].has THEN wlc_value_clear(d)[i]
        ELSE [has |-> TRUE,
              v |-> CASE f.kind = "MESSAGE" -> value_copy_fields(f.nested, v)
                      [] f.kind \in {"BYTES", "STRING"} -> Stored(f, v)
                      [] OTHER -> v]]

value_from_view(d, view) ==
  LET size == wlc_measure(d, view)
  IN IF size.s # "OK" THEN Fail(size.s) ELSE Read(size.n, value_copy_fields(d, view))

\* A view of an owned value; the lengths in it are checked, nothing else.
RECURSIVE value_borrow(_, _)

BorrowField(f, slot, clear) ==
  IF ~slot.has THEN Read(0, clear)
  ELSE CASE f.kind = "MESSAGE" -> value_borrow(f.nested, slot.v)
         [] f.kind \in {"BYTES", "STRING"} ->
              IF slot.v.length > f.max THEN Fail("INVALID_VALUE")
              ELSE Read(0, SubSeq(slot.v.data, 1, slot.v.length))
         [] OTHER -> Read(0, slot.v)

BorrowedView(value, slots) ==
  IF \A i \in DOMAIN slots : slots[i].s = "OK"
  THEN Read(0, [i \in DOMAIN slots |-> [has |-> value[i].has, v |-> slots[i].v]])
  ELSE slots[Min({i \in DOMAIN slots : slots[i].s # "OK"})]

value_borrow(d, value) ==
  BorrowedView(value, [i \in DOMAIN d.fields |->
                         BorrowField(d.fields[i], value[i], wlc_clear(d)[i].v)])

value_to_view(d, value) ==
  LET view == value_borrow(d, value)
      size == wlc_measure(d, view.v)
  IN IF view.s # "OK" THEN view
     ELSE IF size.s # "OK" THEN Fail(size.s) ELSE view

value_encode(d, value, cap) ==
  LET view == value_borrow(d, value)
  IN IF view.s # "OK" THEN view ELSE wlc_encode(d, view.v, cap)

\* Failed decodes leave the caller's value as it was.
value_decode(d, in, out) ==
  LET value == wlc_value_decode(d, in)
  IN [s |-> value.s, out |-> IF value.s = "OK" THEN value.v ELSE out]

-----------------------------------------------------------------------------
(***************************************************************************)
(* The owned values of the device schema (device.c): for every message its *)
(* storage, and the copies between a view and storage.  The generator      *)
(* writes out field by field what Codec says over the field table.         *)
(***************************************************************************)

info_request_value_desc == info_request_desc
info_request_value_from_view(view) == value_from_view(info_request_value_desc, view)
info_request_value_to_view(value) == value_to_view(info_request_value_desc, value)
info_request_value_encode(value, cap) == value_encode(info_request_value_desc, value, cap)
info_request_value_decode(in, out) == value_decode(info_request_value_desc, in, out)

settings_value_desc == settings_desc
settings_value_from_view(view) == value_from_view(settings_value_desc, view)
settings_value_to_view(value) == value_to_view(settings_value_desc, value)
settings_value_encode(value, cap) == value_encode(settings_value_desc, value, cap)
settings_value_decode(in, out) == value_decode(settings_value_desc, in, out)

info_response_value_desc == info_response_desc
info_response_value_from_view(view) == value_from_view(info_response_value_desc, view)
info_response_value_to_view(value) == value_to_view(info_response_value_desc, value)
info_response_value_encode(value, cap) == value_encode(info_response_value_desc, value, cap)
info_response_value_decode(in, out) == value_decode(info_response_value_desc, in, out)

configure_request_value_desc == configure_request_desc
configure_request_value_from_view(view) == value_from_view(configure_request_value_desc, view)
configure_request_value_to_view(value) == value_to_view(configure_request_value_desc, value)
configure_request_value_encode(value, cap) == value_encode(configure_request_value_desc, value, cap)
configure_request_value_decode(in, out) == value_decode(configure_request_value_desc, in, out)

configure_response_value_desc == configure_response_desc
configure_response_value_from_view(view) == value_from_view(configure_response_value_desc, view)
configure_response_value_to_view(value) == value_to_view(configure_response_value_desc, value)
configure_response_value_encode(value, cap) == value_encode(configure_response_value_desc, value, cap)
configure_response_value_decode(in, out) == value_decode(configure_response_value_desc, in, out)

numbers_value_desc == numbers_desc
numbers_value_from_view(view) == value_from_view(numbers_value_desc, view)
numbers_value_to_view(value) == value_to_view(numbers_value_desc, value)
numbers_value_encode(value, cap) == value_encode(numbers_value_desc, value, cap)
numbers_value_decode(in, out) == value_decode(numbers_value_desc, in, out)

-----------------------------------------------------------------------------
(* The operation of the message with a name.                               *)

Schema(name) ==
  CASE name = "info_request" -> info_request_desc
    [] name = "settings" -> settings_desc
    [] name = "info_response" -> info_response_desc
    [] name = "configure_request" -> configure_request_desc
    [] name = "configure_response" -> configure_response_desc
    [] name = "numbers" -> numbers_desc

FromView(name, view) ==
  CASE name = "info_request" -> info_request_value_from_view(view)
    [] name = "settings" -> settings_value_from_view(view)
    [] name = "info_response" -> info_response_value_from_view(view)
    [] name = "configure_request" -> configure_request_value_from_view(view)
    [] name = "configure_response" -> configure_response_value_from_view(view)
    [] name = "numbers" -> numbers_value_from_view(view)

ToView(name, value) ==
  CASE name = "info_request" -> info_request_value_to_view(value)
    [] name = "settings" -> settings_value_to_view(value)
    [] name = "info_response" -> info_response_value_to_view(value)
    [] name = "configure_request" -> configure_request_value_to_view(value)
    [] name = "configure_response" -> configure_response_value_to_view(value)
    [] name = "numbers" -> numbers_value_to_view(value)

EncodeValue(name, value, cap) ==
  CASE name = "info_request" -> info_request_value_encode(value, cap)
    [] name = "settings" -> settings_value_encode(value, cap)
    [] name = "info_response" -> info_response_value_encode(value, cap)
    [] name = "configure_request" -> configure_request_value_encode(value, cap)
    [] name = "configure_response" -> configure_response_value_encode(value, cap)
    [] name = "numbers" -> numbers_value_encode(value, cap)

DecodeValue(name, in, out) ==
  CASE name = "info_request" -> info_request_value_decode(in, out)
    [] name = "settings" -> settings_value_decode(in, out)
    [] name = "info_response" -> info_response_value_decode(in, out)
    [] name = "configure_request" -> configure_request_value_decode(in, out)
    [] name = "configure_response" -> configure_response_value_decode(in, out)
    [] name = "numbers" -> numbers_value_decode(in, out)
=============================================================================
