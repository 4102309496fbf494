------------------------------ MODULE UnitQueue -----------------------------
(***************************************************************************)
(* src/src/unit_rx.c: the queue of received packet units between one       *)
(* producer (an ISR, a DMA completion, a socket reader) and the link's     *)
(* owner.  Two free-running cursors wrap at their integer width and select *)
(* their slot by the remainder of the slot count.                          *)
(*                                                                         *)
(* Bytes and length of a unit are one value.  A claim's token and address  *)
(* are represented by claim.active: a stale claim is refused.  The owner's *)
(* lease stands for an RX event whose payload borrows the slot.            *)
(***************************************************************************)
EXTENDS Integers, Sequences

CONSTANTS Unit,           \* the units a producer commits
          SlotCount,      \* config.slot_count
          UnitCursorMod,  \* cursors wrap here (2^32 in the code)
          Filling         \* a slot without a complete unit

ASSUME SlotCountAssumption == SlotCount \in Nat \ {0, 1} /\ UnitCursorMod \in Nat /\ SlotCount < UnitCursorMod
ASSUME UnitAssumption == Filling \notin Unit

VARIABLES units,         \* storage and lengths, slot by slot
          write_cursor, read_cursor,
          claim,         \* claim_active and claim_cursor
          lease,         \* the owner lends the unit at read_cursor
          backlog        \* history: committed units not yet consumed

unitVars == <<units, write_cursor, read_cursor, claim, lease, backlog>>

SlotOf(cursor) == cursor % SlotCount
UnitsHeld(w, r) == (w - r) % UnitCursorMod

\* wl_rx_unit_queue_init
UnitInit ==
    /\ units = [s \in 0 .. SlotCount - 1 |-> Filling]
    /\ write_cursor = 0 /\ read_cursor = 0
    /\ claim = [active |-> FALSE, cursor |-> 0]
    /\ lease = FALSE /\ backlog = <<>>

-----------------------------------------------------------------------------
(* The producer *)

\* wl_rx_unit_claim: the check against a full queue is off by one.
UnitClaimBeyond ==
    /\ ~claim.active
    /\ UnitsHeld(write_cursor, read_cursor) <= SlotCount
    /\ claim' = [active |-> TRUE, cursor |-> write_cursor]
    /\ units' = [units EXCEPT ![SlotOf(write_cursor)] = Filling]
    /\ UNCHANGED <<write_cursor, read_cursor, lease, backlog>>

\* wl_rx_unit_claim; WL_ERR_WOULD_BLOCK from a full queue changes nothing.
UnitClaim ==
    /\ ~claim.active
    /\ UnitsHeld(write_cursor, read_cursor) < SlotCount
    /\ claim' = [active |-> TRUE, cursor |-> write_cursor]
    /\ units' = [units EXCEPT ![SlotOf(write_cursor)] = Filling]
    /\ UNCHANGED <<write_cursor, read_cursor, lease, backlog>>

\* wl_rx_unit_commit
UnitCommit(u) ==
    /\ claim.active
    /\ units' = [units EXCEPT ![SlotOf(claim.cursor)] = u]
    /\ claim' = [claim EXCEPT !.active = FALSE]
    /\ write_cursor' = (claim.cursor + 1) % UnitCursorMod
    /\ backlog' = Append(backlog, u)
    /\ UNCHANGED <<read_cursor, lease>>

\* wl_rx_unit_abort
UnitAbort ==
    /\ claim.active
    /\ claim' = [claim EXCEPT !.active = FALSE]
    /\ UNCHANGED <<units, write_cursor, read_cursor, lease, backlog>>

-----------------------------------------------------------------------------
(* The owner *)

\* wl_rx_unit_consumer_peek with a unit to show; the parsed event borrows it.
UnitPeek ==
    /\ ~lease
    /\ read_cursor # write_cursor
    /\ lease' = TRUE
    /\ UNCHANGED <<units, write_cursor, read_cursor, claim, backlog>>

\* wl_rx_unit_consumer_consume, when the event is released or needs no lease: the
\* slot's length is cleared.
UnitConsume ==
    /\ lease
    /\ read_cursor # write_cursor
    /\ units' = [units EXCEPT ![SlotOf(read_cursor)] = Filling]
    /\ read_cursor' = (read_cursor + 1) % UnitCursorMod
    /\ lease' = FALSE
    /\ backlog' = Tail(backlog)
    /\ UNCHANGED <<write_cursor, claim>>

UnitNext == \/ UnitClaim \/ (\E u \in Unit : UnitCommit(u)) \/ UnitAbort
            \/ UnitPeek \/ UnitConsume

UnitSpec == UnitInit /\ [][UnitNext]_unitVars

-----------------------------------------------------------------------------
(* Properties *)

\* Every unit the owner may read is one that was committed, in commit order: the
\* queue never loses, repeats, reorders or tears a unit.
UnitsInOrder ==
    /\ UnitsHeld(write_cursor, read_cursor) = Len(backlog)
    /\ \A k \in 1 .. Len(backlog) :
          units[SlotOf((read_cursor + k - 1) % UnitCursorMod)] = backlog[k]

\* A slot lent to an event stays outside the producer's free set until the event is
\* released.
LentSlotKept == lease /\ claim.active => SlotOf(claim.cursor) # SlotOf(read_cursor)

=============================================================================
