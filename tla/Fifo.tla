-------------------------------- MODULE Fifo --------------------------------
(***************************************************************************)
(* src/src/fifo.c: the single-producer single-consumer FIFO mailbox.  Slot *)
(* ownership moves by two free-running cursors that wrap at their integer  *)
(* width, each role keeping its own slot index beside its cursor.  Every   *)
(* atomic access that the other role can observe is a step.                *)
(*                                                                         *)
(* Claim and view tokens are represented by claimed and borrowed, the      *)
(* event counters and wl_fifo_get_stats are left out.                      *)
(***************************************************************************)
EXTENDS Integers

CONSTANTS FifoValue,    \* the values an application publishes
          FifoCap,      \* config.capacity
          CursorMod,    \* cursors wrap here (2^32 in the code)
          Blank,         \* a slot the producer is still filling
          NoView        \* "no view", for the abstract queue

\* wl_fifo_requirements: 0 < capacity < WL_FIFO_MAX_CAPACITY, half the cursor range.
ASSUME FifoCapAssumption == FifoCap \in Nat \ {0} /\ CursorMod \in Nat /\ 2 * FifoCap < CursorMod
ASSUME FifoValueAssumption == Blank \notin FifoValue /\ NoView \notin FifoValue

VARIABLES cells,        \* contents of the slots
          producer,     \* write_cursor, write_index, write_claimed; pc and depth of a publish
          consumer,     \* read_cursor, read_index, read_borrowed
          published, consumed,    \* the shared cursors
          watermark     \* high_watermark

fifoVars == <<cells, producer, consumer, published, consumed, watermark>>

\* uint32_t subtraction and increment
CursorSub(a, b) == IF a >= b THEN a - b ELSE a - b + CursorMod
CursorNext(c) == IF c + 1 = CursorMod THEN 0 ELSE c + 1

\* The index is derived from the cursor, which ignores that the cursor wraps.
NextIndexByCursor(i, c) == CursorNext(c) % FifoCap

\* wl_fifo_next_index
NextIndex(i, c) == IF i + 1 = FifoCap THEN 0 ELSE i + 1

\* wl_fifo_init
FifoInit ==
    /\ cells = [i \in 0 .. FifoCap - 1 |-> Blank]
    /\ producer = [cursor |-> 0, index |-> 0, claimed |-> FALSE, pc |-> "idle", depth |-> 0]
    /\ consumer = [cursor |-> 0, index |-> 0, borrowed |-> FALSE]
    /\ published = 0 /\ consumed = 0 /\ watermark = 0

-----------------------------------------------------------------------------
(* The producer *)

\* wl_fifo_write_claim; WL_ERR_QUEUE_FULL changes nothing.
FifoWriteClaim ==
    /\ producer.pc = "idle" /\ ~producer.claimed
    /\ CursorSub(producer.cursor, consumed) < FifoCap
    /\ producer' = [producer EXCEPT !.claimed = TRUE]
    /\ cells' = [cells EXCEPT ![producer.index] = Blank]
    /\ UNCHANGED <<consumer, published, consumed, watermark>>

\* wl_fifo_write_publish up to its store: the value is complete, and the depth is
\* taken from the consumer's cursor of this moment.
FifoPublishLoad(v) ==
    /\ producer.pc = "idle" /\ producer.claimed
    /\ cells' = [cells EXCEPT ![producer.index] = v]
    /\ producer' = [cursor |-> CursorNext(producer.cursor),
                    index |-> NextIndex(producer.index, producer.cursor), claimed |-> FALSE,
                    pc |-> "store", depth |-> CursorSub(CursorNext(producer.cursor), consumed)]
    /\ UNCHANGED <<consumer, published, consumed, watermark>>

FifoPublishStore ==
    /\ producer.pc = "store"
    /\ published' = producer.cursor
    /\ producer' = [producer EXCEPT !.pc = "max"]
    /\ UNCHANGED <<cells, consumer, consumed, watermark>>

\* wl_fifo_counter_max
FifoPublishMax ==
    /\ producer.pc = "max"
    /\ watermark' = IF watermark < producer.depth THEN producer.depth ELSE watermark
    /\ producer' = [producer EXCEPT !.pc = "idle", !.depth = 0]
    /\ UNCHANGED <<cells, consumer, published, consumed>>

FifoWriteAbort ==
    /\ producer.pc = "idle" /\ producer.claimed
    /\ producer' = [producer EXCEPT !.claimed = FALSE]
    /\ UNCHANGED <<cells, consumer, published, consumed, watermark>>

-----------------------------------------------------------------------------
(* The consumer *)

\* wl_fifo_read_acquire; an empty queue is WL_ERR_NO_DATA.
FifoReadAcquire ==
    /\ ~consumer.borrowed
    /\ consumer.cursor # published
    /\ consumer' = [consumer EXCEPT !.borrowed = TRUE]
    /\ UNCHANGED <<cells, producer, published, consumed, watermark>>

FifoReadRelease ==
    /\ consumer.borrowed
    /\ consumer' = [cursor |-> CursorNext(consumer.cursor),
                    index |-> NextIndex(consumer.index, consumer.cursor), borrowed |-> FALSE]
    /\ consumed' = CursorNext(consumer.cursor)
    /\ UNCHANGED <<cells, producer, published, watermark>>

\* wl_fifo_reset needs quiescence: no claim, no view, no call in progress.
FifoReset ==
    /\ producer.pc = "idle" /\ ~producer.claimed /\ ~consumer.borrowed
    /\ producer' = [producer EXCEPT !.cursor = 0, !.index = 0]
    /\ consumer' = [consumer EXCEPT !.cursor = 0, !.index = 0]
    /\ published' = 0 /\ consumed' = 0
    /\ UNCHANGED <<cells, watermark>>

FifoNext == \/ FifoWriteClaim
            \/ \E v \in FifoValue : FifoPublishLoad(v)
            \/ FifoPublishStore \/ FifoPublishMax \/ FifoWriteAbort
            \/ FifoReadAcquire \/ FifoReadRelease
            \/ FifoReset

FifoSpec == FifoInit /\ [][FifoNext]_fifoVars

-----------------------------------------------------------------------------
(* Properties *)

\* Number of published values not yet released.
FifoDepth == CursorSub(published, consumer.cursor)

\* The slot k behind the consumer's.
FifoAt(k) == IF consumer.index + k < FifoCap THEN consumer.index + k ELSE consumer.index + k - FifoCap

\* The published values, oldest first, and the one that is lent.
FifoContents == [k \in 1 .. FifoDepth |-> cells[FifoAt(k - 1)]]
FifoLent == IF consumer.borrowed THEN cells[consumer.index] ELSE NoView

\* The mailbox is a bounded queue: nothing is lost, repeated or reordered.
Queue == INSTANCE FifoQueue WITH
    Value <- FifoValue, Capacity <- FifoCap, None <- NoView,
    queue <- FifoContents, view <- FifoLent

QueueSpec == Queue!Spec

=============================================================================
