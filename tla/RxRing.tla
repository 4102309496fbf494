------------------------------- MODULE RxRing -------------------------------
(***************************************************************************)
(* src/src/rx_ring_bipbuf.c and the loop of wl_frame_process_stream that   *)
(* drives its consumer side: the byte ring of a COBS stream link between   *)
(* one producer (ISR, DMA completion, socket reader) and the link's owner. *)
(* The producer moves write_cursor, the owner read_cursor, except that a   *)
(* DMA claim on an empty ring moves both.                                  *)
(*                                                                         *)
(* Every load and store of a cursor that the other side may change is a    *)
(* step.  A byte is the delimiter 0 or something else.  Claim tokens are   *)
(* represented by the kind of the one open claim.  Integrity and routing   *)
(* of a frame are Link's: here a parsed frame may become an RX event that  *)
(* borrows it, another event, or nothing.                                  *)
(***************************************************************************)
EXTENDS Integers, Sequences

CONSTANTS RingCap,      \* memory_size
          RingByte,     \* byte values, 0 among them
          Fallback,     \* storage.rx_fallback_size
          OverflowMax,  \* bound on overflow_events
          ResumeEarly   \* the producer may claim while the owner is discarding

ASSUME RingAssumption == RingCap \in Nat \ {0} /\ 0 \in RingByte /\ Fallback \in Nat
                         /\ OverflowMax \in Nat /\ ResumeEarly \in BOOLEAN

VARIABLES ring, rd, wr, overflow_events,
          prod,     \* the producer's reservation, DMA claim or half-done normalization
          cons,     \* the owner's place in its loop and its snapshot
          cache,    \* the delimiter search cache
          stream,   \* history: published bytes not yet consumed
          gaps      \* history: the offsets in stream at which bytes were lost

ringVars == <<ring, rd, wr, overflow_events, prod, cons, cache, stream, gaps>>

Period == 2 * RingCap
MinOf(a, b) == IF a < b THEN a ELSE b

\* cursor_physical, cursor_distance, cursor_advance, contiguous_length
Physical(c) == IF c < RingCap THEN c ELSE c - RingCap
Distance(from, to) == IF to >= from THEN to - from ELSE Period - from + to
Advance(c, len) == IF len >= Period - c THEN len - (Period - c) ELSE c + len
Contiguous(c, available) == MinOf(available, RingCap - Physical(c))

\* The bytes of a window of the ring.
Window(c, len) == [k \in 1 .. len |-> ring[Physical(Advance(c, k - 1))]]

\* wl_rx_ring_init
Idle == [pc |-> "idle", op |-> "none", w |-> 0, r |-> 0, n |-> 0, want |-> 0, off |-> 0,
         next |-> "idle", frame |-> <<>>, drop |-> FALSE]
NoClaim == [kind |-> "none", cursor |-> 0, length |-> 0, published |-> 0, filled |-> 0]
NoCache == [valid |-> FALSE, read |-> 0, scanned |-> 0, offset |-> 0, found |-> FALSE]

RingInit ==
    /\ ring \in [0 .. RingCap - 1 -> {0}]
    /\ rd = 0 /\ wr = 0 /\ overflow_events = 0
    /\ prod = NoClaim /\ cons = Idle /\ cache = NoCache /\ stream = <<>> /\ gaps = {}

-----------------------------------------------------------------------------
(* The producer *)

Claimed(kind, cursor, length) ==
    [kind |-> kind, cursor |-> cursor, length |-> length, published |-> 0, filled |-> 0]

Free == RingCap - Distance(rd, wr)

\* wl_rx_ring_producer_reserve; cursors too far apart are WL_ERR_INVALID_STATE.
Reserve ==
    /\ prod.kind = "none"
    /\ Free >= 0
    /\ prod' = Claimed("reserve", wr, Contiguous(wr, Free))
    /\ UNCHANGED <<ring, rd, wr, overflow_events, cons, cache, stream, gaps>>

\* The application or the DMA engine writes the next byte of the open span.
Fill(b) ==
    /\ prod.kind \in {"reserve", "dma"}
    /\ prod.filled < prod.length
    /\ ring' = [ring EXCEPT ![Physical(Advance(prod.cursor, prod.filled))] = b]
    /\ prod' = [prod EXCEPT !.filled = @ + 1]
    /\ UNCHANGED <<rd, wr, overflow_events, cons, cache, stream, gaps>>

\* wl_rx_ring_producer_commit
Commit(len) ==
    /\ prod.kind = "reserve" /\ len <= prod.filled
    /\ wr' = Advance(prod.cursor, len)
    /\ stream' = stream \o Window(prod.cursor, len)
    /\ prod' = NoClaim
    /\ UNCHANGED <<ring, rd, overflow_events, cons, cache, gaps>>

\* A claim on an empty ring whose tail is short for it moves to offset zero.
Normalizes(max) == rd = wr /\ max <= RingCap /\ Contiguous(wr, RingCap) < max

\* Offset zero of the other epoch.
ResetCursor == IF wr < RingCap THEN RingCap ELSE 0

\* The contract of wl_rx_dma_abort: ingress resumes after the owner has discarded.
MayClaim == ResumeEarly \/ (overflow_events = 0 /\ ~cons.drop)

\* wl_rx_ring_dma_claim; its first store when it normalizes.
DmaClaim(max) ==
    /\ prod.kind = "none" /\ MayClaim
    /\ \/ /\ Normalizes(max)
          /\ rd' = ResetCursor
          /\ prod' = Claimed("normalize", ResetCursor, max)
       \/ /\ ~Normalizes(max) /\ Free >= 0
          /\ LET len == MinOf(Contiguous(wr, Free), max)
             IN len # 0 /\ prod' = Claimed("dma", wr, len)
          /\ UNCHANGED rd
    /\ UNCHANGED <<ring, wr, overflow_events, cons, cache, stream, gaps>>

\* wl_rx_ring_dma_claim: the second store.
DmaNormalize ==
    /\ prod.kind = "normalize"
    /\ wr' = prod.cursor
    /\ prod' = [prod EXCEPT !.kind = "dma"]
    /\ UNCHANGED <<ring, rd, overflow_events, cons, cache, stream, gaps>>

\* wl_rx_ring_dma_publish of the next len bytes
DmaPublish(len) ==
    /\ prod.kind = "dma" /\ len <= prod.filled - prod.published
    /\ prod' = [prod EXCEPT !.published = @ + len]
    /\ wr' = Advance(prod.cursor, prod.published + len)
    /\ stream' = stream \o Window(Advance(prod.cursor, prod.published), len)
    /\ UNCHANGED <<ring, rd, overflow_events, cons, cache, gaps>>

\* wl_rx_ring_dma_finish
DmaFinish ==
    /\ prod.kind = "dma"
    /\ prod' = NoClaim
    /\ UNCHANGED <<ring, rd, wr, overflow_events, cons, cache, stream, gaps>>

\* wl_rx_ring_dma_abort
DmaAbort ==
    /\ prod.kind = "dma" /\ overflow_events < OverflowMax
    /\ prod' = NoClaim
    /\ overflow_events' = overflow_events + 1 /\ gaps' = gaps \cup {Len(stream)}
    /\ UNCHANGED <<ring, rd, wr, cons, cache, stream>>

\* wl_rx_ring_producer_note_overflow, also at the end of a refused wl_feed_bytes
NoteOverflow ==
    /\ prod.kind # "normalize" /\ overflow_events < OverflowMax
    /\ overflow_events' = overflow_events + 1 /\ gaps' = gaps \cup {Len(stream)}
    /\ UNCHANGED <<ring, rd, wr, prod, cons, cache, stream>>

-----------------------------------------------------------------------------
(* The owner *)

\* A call of the owner starts with a snapshot; what it does not need is forgotten.
Call(op) == [Idle EXCEPT !.pc = "w", !.op = op]
CallConsume(len, next) == [Call("consume") EXCEPT !.want = len, !.next = next, !.drop = cons.drop]
Return(next) == IF next = "find" THEN Call("find") ELSE Idle

\* wl_frame_process_stream: take_overflow, then discard or search.
ProcessStream ==
    /\ cons.pc = "idle"
    /\ overflow_events' = 0
    /\ cons' = IF overflow_events # 0
               THEN [Call("readable") EXCEPT !.next = "find", !.drop = TRUE] ELSE Call("find")
    /\ UNCHANGED <<ring, rd, wr, prod, cache, stream, gaps>>

\* wl_feed_recover_reset
RecoverRing ==
    /\ cons.pc = "idle"
    /\ cons' = [Call("readable") EXCEPT !.next = "idle", !.drop = TRUE]
    /\ UNCHANGED <<ring, rd, wr, overflow_events, prod, cache, stream, gaps>>

\* readable_snapshot: write_cursor first, then read_cursor.
SnapshotWrite ==
    /\ cons.pc = "w"
    /\ cons' = [cons EXCEPT !.pc = "r", !.w = wr]
    /\ UNCHANGED <<ring, rd, wr, overflow_events, prod, cache, stream, gaps>>

\* Cursors too far apart are taken as they are.
ReadableUnchecked(r, w) == MinOf(Distance(r, w), RingCap)

Readable(r, w) == IF Distance(r, w) <= RingCap THEN Distance(r, w) ELSE 0

SnapshotRead ==
    /\ cons.pc = "r"
    /\ cons' = [cons EXCEPT !.pc = "do", !.w = 0, !.r = rd, !.n = Readable(rd, cons.w)]
    /\ UNCHANGED <<ring, rd, wr, overflow_events, prod, cache, stream, gaps>>

Doing(op) == cons.pc = "do" /\ cons.op = op

\* wl_rx_ring_readable, for the length of the consume that follows
DoReadable ==
    /\ Doing("readable")
    /\ cons' = CallConsume(cons.n, cons.next)
    /\ UNCHANGED <<ring, rd, wr, overflow_events, prod, cache, stream, gaps>>

\* wl_rx_ring_consumer_find: the cached prefix is not scanned again.
CacheHit == cache.valid /\ cache.read = cons.r /\ cache.scanned <= cons.n
Delimiters(from) ==
    {k \in from .. cons.n - 1 : ring[Physical(Advance(cons.r, k))] = 0}
FindResult ==
    IF CacheHit /\ cache.found THEN {cache.offset}
    ELSE Delimiters(IF CacheHit THEN cache.scanned ELSE 0)

DoFind ==
    /\ Doing("find")
    /\ IF FindResult = {}
       THEN /\ cons' = Idle
            /\ cache' = [valid |-> TRUE, read |-> cons.r, scanned |-> cons.n, offset |-> 0,
                         found |-> FALSE]
       ELSE LET off == CHOOSE k \in FindResult : \A j \in FindResult : k <= j
            IN /\ cons' = IF off = 0 THEN CallConsume(1, "find")
                          ELSE [Call("peek") EXCEPT !.off = off]
               /\ cache' = IF CacheHit /\ cache.found THEN cache
                           ELSE [valid |-> TRUE, read |-> cons.r, scanned |-> cons.n, offset |-> off,
                                 found |-> TRUE]
    /\ UNCHANGED <<ring, rd, wr, overflow_events, prod, stream, gaps>>

\* wl_rx_ring_consumer_peek: a frame in one piece is parsed where it is.
DoPeek ==
    /\ Doing("peek")
    /\ cons' = IF cons.off <= Contiguous(cons.r, cons.n)
               THEN [cons EXCEPT !.pc = "parse", !.n = 0, !.frame = Window(cons.r, cons.off)]
               ELSE [Call("copy") EXCEPT !.off = cons.off]
    /\ UNCHANGED <<ring, rd, wr, overflow_events, prod, cache, stream, gaps>>

\* wl_rx_ring_consumer_copy into the fallback buffer, or the frame is dropped
DoCopy ==
    /\ Doing("copy")
    /\ cons' = IF cons.off > Fallback \/ cons.off > cons.n
               THEN CallConsume(cons.off + 1, "find")
               ELSE [cons EXCEPT !.pc = "parse", !.n = 0, !.frame = Window(cons.r, cons.off)]
    /\ UNCHANGED <<ring, rd, wr, overflow_events, prod, cache, stream, gaps>>

\* wl_feed_parse_stream: an RX event borrows a frame in one piece until its release;
\* what the fallback holds, and what made no RX event, is consumed at once.
Parse ==
    /\ cons.pc = "parse"
    /\ \/ cons.op = "peek" /\ cons' = [cons EXCEPT !.pc = "lent", !.frame = <<>>]
       \/ \E next \in {"find", "idle"} :
             cons' = CallConsume(cons.off + 1, next)
    /\ UNCHANGED <<ring, rd, wr, overflow_events, prod, cache, stream, gaps>>

\* wl_event_release
ReleaseFrame ==
    /\ cons.pc = "lent"
    /\ cons' = CallConsume(cons.off + 1, "idle")
    /\ UNCHANGED <<ring, rd, wr, overflow_events, prod, cache, stream, gaps>>

\* wl_rx_ring_consumer_consume: the store is relative to the snapshot.
DoConsume ==
    /\ Doing("consume")
    /\ cons' = Return(cons.next)
    /\ IF cons.want > cons.n THEN UNCHANGED <<rd, cache, stream, gaps>>
       ELSE /\ rd' = Advance(cons.r, cons.want)
            /\ stream' = SubSeq(stream, cons.want + 1, Len(stream))
            /\ gaps' = {g - cons.want : g \in {h \in gaps : h > cons.want}}
            /\ cache' = NoCache
    /\ UNCHANGED <<ring, wr, overflow_events, prod>>

-----------------------------------------------------------------------------

Producer == \/ Reserve \/ \E len \in 0 .. RingCap : Commit(len) \/ DmaPublish(len)
            \/ \E b \in RingByte : Fill(b)
            \/ \E max \in 1 .. RingCap + 1 : DmaClaim(max)
            \/ DmaNormalize \/ DmaFinish \/ DmaAbort \/ NoteOverflow

Consumer == \/ ProcessStream \/ RecoverRing \/ SnapshotWrite \/ SnapshotRead
            \/ DoReadable \/ DoFind \/ DoPeek \/ DoCopy \/ Parse \/ ReleaseFrame \/ DoConsume

RingNext == Producer \/ Consumer

RingSpec == RingInit /\ [][RingNext]_ringVars

-----------------------------------------------------------------------------
(* Properties *)

\* What the cursors show is exactly what was published and not yet consumed, byte for
\* byte; while a claim moves both cursors they show nothing or are out of range.
WindowIsStream ==
    LET n == Distance(rd, wr)
    IN IF n > RingCap THEN stream = <<>> ELSE Window(rd, n) = stream

\* A frame handed to the parser is the oldest frame of the stream, whole and without
\* its delimiter, although the producer published, claimed or normalized between the
\* search, the snapshot and the copy; and no bytes were lost inside it, unless the loss was
\* noted after this pass took the overflow count (wl_frame_process_stream discards once, at
\* its head; a frame joined in between is left to the integrity check).
FrameIsNext ==
    cons.pc = "parse" =>
        /\ cons.off < Len(stream) /\ stream[cons.off + 1] = 0
        /\ cons.frame = SubSeq(stream, 1, cons.off)
        /\ \A k \in 1 .. cons.off : cons.frame[k] # 0
        /\ overflow_events = 0 => gaps \cap (1 .. cons.off) = {}

=============================================================================
