---------------------------- MODULE MailboxProofs ---------------------------
(***************************************************************************)
(* The mailboxes between threads, for every set of values, capacity,       *)
(* cursor width and generation modulus: LATEST keeps exclusive slots, a    *)
(* fresh unread record and stable views and implements LatestRegister;     *)
(* FIFO implements the bounded queue FifoQueue; the outbox owes the newest *)
(* value of every id and takes the ids in turn.                            *)
(***************************************************************************)
EXTENDS Latest, Fifo, Outbox, NaturalFacts, SequenceTheorems, FiniteSetTheorems, TLAPS

-----------------------------------------------------------------------------
(* The LATEST mailbox *)

\* The consumer never holds a view while it is inside the exchange, and what
\* it holds is a complete record.
ViewComplete == /\ rpc = "swap" => ~read_borrowed
                /\ read_borrowed => slot[reader_front] \in Record

\* The writer is past its stamp only with a claim, and the stamped slot is a
\* complete record with the newest generation.
StampComplete == wpc = "swap" => /\ write_claimed
                                 /\ slot[writer_back] \in Record
                                 /\ slot[writer_back].gen = generation

\* The inductive invariant: the checked invariants and the two facts above.
LatestInv == /\ LatestTypeOK
        /\ OwnershipExclusive
        /\ ViewComplete
        /\ StampComplete
        /\ AcquireFindsRecord
        /\ UnreadIsNewest

\* Generations stay within their width.
LEMMA GenerationWraps ==
  ASSUME NEW g \in 0 .. GenMod - 1
  PROVE  (g + 1) % GenMod \in 0 .. GenMod - 1
BY GenModAssumption

LEMMA LatestInitInv == LatestInit => LatestInv
<1> SUFFICES ASSUME LatestInit PROVE LatestInv
  BY Zenon
<1> USE DEF LatestInit
<1>1. LatestTypeOK
  <2>1. slot \in [Slot -> Record \cup {Torn}]
    BY Zenon
  <2>2. 0 \in Slot /\ 1 \in Slot /\ 2 \in Slot
    BY DEF Slot
  <2>3. middle \in [idx : Slot, dirty : BOOLEAN]
    BY <2>2, Zenon
  <2> QED BY <2>1, <2>2, <2>3, Zenon DEF LatestTypeOK
<1>2. OwnershipExclusive /\ ~middle.dirty
  BY DEF OwnershipExclusive
<1> QED BY <1>1, <1>2, Zenon DEF LatestInv, ViewComplete, StampComplete, AcquireFindsRecord, UnreadIsNewest

\* Every step of either role keeps the invariant.
LEMMA LatestStepInv == LatestInv /\ [LatestNext]_latestVars => LatestInv'
<1> SUFFICES ASSUME LatestInv, [LatestNext]_latestVars PROVE LatestInv'
  BY Zenon
<1> USE DEF LatestInv, LatestTypeOK, OwnershipExclusive, ViewComplete, StampComplete,
            AcquireFindsRecord, UnreadIsNewest, writerVars, readerVars
<1>1. CASE WriteClaim
  BY <1>1, Zenon DEF WriteClaim
<1>2. ASSUME NEW v \in Value, PublishStamp(v) PROVE LatestInv'
  <2> DEFINE g == (generation + 1) % GenMod
             r == [gen |-> g, val |-> v]
  <2>1. g \in 0 .. GenMod - 1
    BY GenerationWraps, Zenon
  <2>2. r \in Record /\ r.gen = g
    BY <2>1, Zenon DEF Record
  <2> HIDE DEF g, r
  <2>3. /\ slot' = [slot EXCEPT ![writer_back] = r] /\ generation' = g
        /\ wpc = "idle" /\ write_claimed /\ wpc' = "swap"
        /\ UNCHANGED <<middle, writer_back, write_claimed, reader_front, read_borrowed, rpc, last>>
    BY <1>2, Zenon DEF PublishStamp, g, r
  <2>4. LatestTypeOK'
    BY <2>1, <2>2, <2>3, Zenon
  <2>5. (OwnershipExclusive /\ ViewComplete /\ StampComplete /\ AcquireFindsRecord)'
    BY <2>2, <2>3, Zenon
  <2>6. UnreadIsNewest'
    BY <2>3, Zenon DEF g
  <2> QED BY <2>4, <2>5, <2>6, Zenon
<1>3. CASE PublishSwap
  BY <1>3, Zenon DEF PublishSwap
<1>4. CASE WriteAbort
  BY <1>4, Zenon DEF WriteAbort
<1>5. CASE AcquireLoad
  BY <1>5, Zenon DEF AcquireLoad
<1>6. CASE AcquireSwap
  BY <1>6, Zenon DEF AcquireSwap
<1>7. CASE ReadRelease
  BY <1>7, Zenon DEF ReadRelease
<1>8. CASE LatestReset
  BY <1>8 DEF LatestReset, Slot
<1>9. CASE UNCHANGED latestVars
  BY <1>9, Zenon DEF latestVars
<1> QED BY <1>1, <1>2, <1>3, <1>4, <1>5, <1>6, <1>7, <1>8, <1>9, Zenon DEF LatestNext

THEOREM InvariantHolds == LatestSpec => []LatestInv
<1>1. LatestInit => LatestInv
  BY LatestInitInv, Zenon
<1>2. LatestInv /\ [LatestNext]_latestVars => LatestInv'
  BY LatestStepInv, Zenon
<1> QED BY <1>1, <1>2, PTL DEF LatestSpec

\* No interleaving of publish and acquire gives a slot to both roles
\* (src/src/latest.c, the exchanges of wl_latest_write_publish and
\* wl_latest_read_acquire).
THEOREM ExclusiveSlots == LatestSpec => []OwnershipExclusive
<1>1. LatestInv => OwnershipExclusive
  BY Zenon DEF LatestInv
<1> QED BY <1>1, InvariantHolds, PTL

\* An unread record is complete and the newest one published.
THEOREM NewestUnread == LatestSpec => []UnreadIsNewest
<1>1. LatestInv => UnreadIsNewest
  BY Zenon DEF LatestInv
<1> QED BY <1>1, InvariantHolds, PTL

\* A borrowed view keeps its slot and its contents while it is borrowed.
THEOREM StableView == LatestSpec => BorrowedViewStable
<1> DEFINE Keep == read_borrowed /\ read_borrowed' =>
              reader_front' = reader_front /\ slot'[reader_front] = slot[reader_front]
<1>1. LatestInv /\ [LatestNext]_latestVars => [Keep]_latestVars
  <2> SUFFICES ASSUME LatestInv, LatestNext, read_borrowed, read_borrowed'
               PROVE  reader_front' = reader_front /\ slot'[reader_front] = slot[reader_front]
    BY Zenon
  <2> USE DEF LatestInv, LatestTypeOK, OwnershipExclusive, ViewComplete, writerVars, readerVars
  <2>1. CASE WriteClaim \/ \E v \in Value : PublishStamp(v)
    BY <2>1, Zenon DEF WriteClaim, PublishStamp
  <2>2. CASE PublishSwap \/ WriteAbort \/ AcquireLoad \/ AcquireSwap \/ ReadRelease \/ LatestReset
    BY <2>2, Zenon DEF PublishSwap, WriteAbort, AcquireLoad, AcquireSwap, ReadRelease, LatestReset
  <2> QED BY <2>1, <2>2, Zenon DEF LatestNext
<1>2. BorrowedViewStable <=> [][Keep]_latestVars
  BY PTL DEF BorrowedViewStable
<1> QED BY <1>1, <1>2, InvariantHolds, PTL DEF LatestSpec

\* The mailbox implements the register that keeps only the newest record.
THEOREM ImplementsRegister == LatestSpec => RegisterSpec
<1>1. LatestInit => Register!Init
  BY DEF LatestInit, Register!Init
<1>2. LatestInv /\ LatestInv' /\ [LatestNext]_latestVars => [Register!Next]_(Register!vars)
  <2> SUFFICES ASSUME LatestInv, LatestInv', [LatestNext]_latestVars
               PROVE  [Register!Next]_(Register!vars)
    BY Zenon
  <2> USE NoRecordAssumption DEF LatestInv, LatestTypeOK, OwnershipExclusive, ViewComplete,
      AcquireFindsRecord, UnreadIsNewest, StampComplete, writerVars, readerVars, Register!vars
  <2>1. CASE WriteClaim
    BY <2>1, Zenon DEF WriteClaim
  <2>2. ASSUME NEW v \in Value, PublishStamp(v) PROVE UNCHANGED Register!vars
    BY <2>2, Zenon DEF PublishStamp
  <2>3. CASE PublishSwap
    BY <2>3, Zenon DEF PublishSwap, Register!Next, Register!Publish
  <2>4. CASE WriteAbort \/ AcquireLoad
    BY <2>4, Zenon DEF WriteAbort, AcquireLoad
  <2>5. CASE AcquireSwap
    BY <2>5, Zenon DEF AcquireSwap, Register!Next, Register!Acquire
  <2>6. CASE ReadRelease
    BY <2>6, Zenon DEF ReadRelease, Register!Next, Register!Release
  <2>7. CASE LatestReset
    BY <2>7, Zenon DEF LatestReset, Register!Next, Register!Reset
  <2>8. CASE UNCHANGED latestVars
    BY <2>8, Zenon DEF latestVars
  <2> QED BY <2>1, <2>2, <2>3, <2>4, <2>5, <2>6, <2>7, <2>8, Zenon DEF LatestNext
<1> QED BY <1>1, <1>2, InvariantHolds, PTL DEF LatestSpec, RegisterSpec, Register!Spec

-----------------------------------------------------------------------------
(* The FIFO mailbox *)

FifoTypeOK ==
    /\ cells \in [0 .. FifoCap - 1 -> FifoValue \cup {Blank}]
    /\ producer \in [cursor : 0 .. CursorMod - 1, index : 0 .. FifoCap - 1, claimed : BOOLEAN,
                     pc : {"idle", "store", "max"}, depth : 0 .. FifoCap]
    /\ consumer \in [cursor : 0 .. CursorMod - 1, index : 0 .. FifoCap - 1, borrowed : BOOLEAN]
    /\ published \in 0 .. CursorMod - 1 /\ consumed \in 0 .. CursorMod - 1
    /\ watermark \in 0 .. FifoCap

\* The producer is one value ahead of what it has published while it stores.
Ahead == IF producer.pc = "store" THEN 1 ELSE 0

\* The cursors of the two roles are at most a queue apart, the slot indices are exactly as
\* far apart as the cursors, and a claim or a borrow finds its slot where it should be.
CursorsAgree ==
    /\ consumed = consumer.cursor
    /\ FifoDepth + Ahead <= FifoCap
    /\ producer.cursor = IF producer.pc = "store" THEN CursorNext(published) ELSE published
    /\ FifoDepth + Ahead < FifoCap => producer.index = FifoAt(FifoDepth + Ahead)
    /\ FifoDepth + Ahead = FifoCap => producer.index = consumer.index
    /\ producer.claimed => producer.pc = "idle" /\ FifoDepth < FifoCap
    /\ consumer.borrowed => FifoDepth > 0

\* Every published value, and the one about to be published, is complete.
StoredComplete == \A k \in 0 .. FifoDepth + Ahead - 1 : cells[FifoAt(k)] \in FifoValue

FifoInv == FifoTypeOK /\ CursorsAgree /\ StoredComplete

\* A cursor wraps and the distance of two cursors does not.
LEMMA CursorFacts ==
    ASSUME NEW a \in 0 .. CursorMod - 1, NEW b \in 0 .. CursorMod - 1
    PROVE  /\ CursorNext(a) \in 0 .. CursorMod - 1 /\ CursorSub(a, b) \in 0 .. CursorMod - 1
           /\ CursorSub(a, b) = 0 <=> a = b
           /\ CursorSub(a, b) + 1 < CursorMod => CursorSub(CursorNext(a), b) = CursorSub(a, b) + 1
           /\ CursorSub(a, b) > 0 => CursorSub(a, CursorNext(b)) = CursorSub(a, b) - 1
BY FifoCapAssumption DEF CursorNext, CursorSub

\* The slots behind the consumer's index are distinct for one lap.
LEMMA FifoAtFacts ==
    ASSUME FifoTypeOK
    PROVE  /\ \A k \in 0 .. FifoCap - 1 : FifoAt(k) \in 0 .. FifoCap - 1
           /\ \A j, k \in 0 .. FifoCap - 1 : FifoAt(j) = FifoAt(k) => j = k
           /\ FifoAt(0) = consumer.index
           /\ \A k \in 0 .. FifoCap - 1 :
                NextIndex(FifoAt(k), 0) = IF k + 1 < FifoCap THEN FifoAt(k + 1) ELSE consumer.index
           /\ FifoCap \in Nat \ {0} /\ CursorMod \in Nat
<1>1. consumer.index \in 0 .. FifoCap - 1 /\ FifoCap \in Nat \ {0} /\ CursorMod \in Nat
  BY FifoCapAssumption, Zenon DEF FifoTypeOK
<1>2. ASSUME NEW k \in 0 .. FifoCap - 1
      PROVE  NextIndex(FifoAt(k), 0) = IF k + 1 < FifoCap THEN FifoAt(k + 1) ELSE consumer.index
  BY <1>1 DEF FifoAt, NextIndex
<1> QED BY <1>1, <1>2 DEF FifoAt

LEMMA DepthFacts ==
    ASSUME FifoTypeOK
    PROVE  FifoDepth \in Nat /\ Ahead \in {0, 1}
<1>1. published \in 0 .. CursorMod - 1 /\ consumer.cursor \in 0 .. CursorMod - 1
  BY Zenon DEF FifoTypeOK
<1>2. FifoDepth \in 0 .. CursorMod - 1
  BY <1>1, CursorFacts, Zenon DEF FifoDepth
<1>3. CursorMod \in Nat
  BY FifoCapAssumption, Zenon
<1>4. Ahead \in {0, 1}
  BY Zenon DEF Ahead
<1> QED BY <1>2, <1>3, <1>4

LEMMA FifoInitInv == FifoInit => FifoInv
<1> SUFFICES ASSUME FifoInit PROVE FifoInv
  BY Zenon
<1>1. FifoTypeOK
  BY FifoCapAssumption DEF FifoInit, FifoTypeOK
<1>2. FifoDepth = 0 /\ Ahead = 0
  BY DEF FifoInit, FifoDepth, CursorSub, Ahead
<1>3. CursorsAgree
  BY <1>2, FifoCapAssumption DEF FifoInit, CursorsAgree, FifoAt
<1>4. StoredComplete
  BY <1>2 DEF StoredComplete
<1> QED BY <1>1, <1>3, <1>4, Zenon DEF FifoInv

LEMMA FifoWriteClaimInv == FifoInv /\ FifoWriteClaim => FifoInv'
<1> SUFFICES ASSUME FifoInv, FifoWriteClaim PROVE FifoInv'
  BY Zenon
<1>1. producer.index \in 0 .. FifoCap - 1 /\ producer.pc = "idle"
  BY Zenon DEF FifoInv, FifoTypeOK, FifoWriteClaim
<1>2. FifoDepth < FifoCap /\ producer.index = FifoAt(FifoDepth) /\ Ahead = 0 /\ FifoDepth \in Nat
  BY <1>1, DepthFacts DEF FifoInv, CursorsAgree, FifoWriteClaim, FifoDepth, Ahead
<1>3. FifoTypeOK'
  BY <1>1, Zenon DEF FifoInv, FifoTypeOK, FifoWriteClaim
<1>4. /\ FifoDepth' = FifoDepth /\ Ahead' = 0
      /\ producer'.cursor = producer.cursor /\ producer'.index = producer.index
      /\ producer'.pc = "idle"
  BY <1>1, Zenon DEF FifoWriteClaim, FifoDepth, Ahead, FifoInv, FifoTypeOK
<1>5. \A k : FifoAt(k)' = FifoAt(k)
  BY Zenon DEF FifoWriteClaim, FifoAt
<1>6. CursorsAgree'
  BY <1>1, <1>2, <1>4, <1>5, Zenon DEF FifoInv, CursorsAgree, FifoWriteClaim
<1>7. StoredComplete'
  <2> SUFFICES ASSUME NEW k \in 0 .. FifoDepth - 1 PROVE cells'[FifoAt(k)] \in FifoValue
    BY <1>2, <1>4, <1>5 DEF StoredComplete
  <2>1. FifoAt(k) # producer.index /\ FifoAt(k) \in 0 .. FifoCap - 1
    BY <1>2, FifoAtFacts DEF FifoInv
  <2>2. cells[FifoAt(k)] \in FifoValue
    BY <1>2 DEF FifoInv, StoredComplete
  <2> QED BY <2>1, <2>2, Zenon DEF FifoWriteClaim, FifoInv, FifoTypeOK
<1> QED BY <1>3, <1>6, <1>7, Zenon DEF FifoInv

LEMMA FifoPublishLoadInv ==
    ASSUME FifoInv, NEW v \in FifoValue, FifoPublishLoad(v)
    PROVE  FifoInv'
<1>1. /\ producer.index \in 0 .. FifoCap - 1 /\ producer.pc = "idle" /\ producer.claimed
      /\ Ahead = 0 /\ FifoDepth \in Nat /\ FifoDepth < FifoCap
      /\ producer.index = FifoAt(FifoDepth) /\ producer.cursor = published
      /\ consumed = consumer.cursor
  BY DepthFacts DEF FifoInv, FifoTypeOK, FifoPublishLoad, Ahead, CursorsAgree
<1>2. NextIndex(producer.index, producer.cursor)
         = IF FifoDepth + 1 < FifoCap THEN FifoAt(FifoDepth + 1) ELSE consumer.index
  <2>1. NextIndex(producer.index, producer.cursor) = NextIndex(FifoAt(FifoDepth), 0)
    BY <1>1, Zenon DEF NextIndex
  <2> QED BY <1>1, <2>1, FifoAtFacts DEF FifoInv
<1>3. /\ CursorNext(producer.cursor) \in 0 .. CursorMod - 1
      /\ CursorSub(CursorNext(producer.cursor), consumed) = FifoDepth + 1
  <2>1. published \in 0 .. CursorMod - 1 /\ consumer.cursor \in 0 .. CursorMod - 1
    BY Zenon DEF FifoInv, FifoTypeOK
  <2>2. FifoDepth = CursorSub(published, consumer.cursor) /\ FifoDepth + 1 < CursorMod
    BY <1>1, FifoCapAssumption DEF FifoDepth
  <2> QED BY <1>1, <2>1, <2>2, CursorFacts, ZenonT(60)
<1>4. /\ cells' = [cells EXCEPT ![producer.index] = v]
      /\ producer' = [cursor |-> CursorNext(producer.cursor),
                      index |-> NextIndex(producer.index, producer.cursor), claimed |-> FALSE,
                      pc |-> "store", depth |-> CursorSub(CursorNext(producer.cursor), consumed)]
      /\ UNCHANGED <<consumer, published, consumed, watermark>>
  BY Zenon DEF FifoPublishLoad
<1>5. FifoTypeOK'
  <2>1. NextIndex(producer.index, producer.cursor) \in 0 .. FifoCap - 1
    BY <1>1, FifoCapAssumption DEF NextIndex
  <2>2. FifoDepth + 1 \in 0 .. FifoCap
    BY <1>1, FifoCapAssumption
  <2> QED BY <1>1, <1>3, <1>4, <2>1, <2>2, Zenon DEF FifoInv, FifoTypeOK
<1>6. FifoDepth' = FifoDepth /\ Ahead' = 1 /\ \A k : FifoAt(k)' = FifoAt(k)
  BY <1>4, Zenon DEF FifoDepth, Ahead, FifoAt
<1>7. CursorsAgree'
  BY <1>1, <1>2, <1>3, <1>4, <1>6, FifoCapAssumption DEF FifoInv, CursorsAgree
<1>8. StoredComplete'
  <2> SUFFICES ASSUME NEW k \in 0 .. FifoDepth PROVE cells'[FifoAt(k)] \in FifoValue
    BY <1>1, <1>6 DEF StoredComplete
  <2>1. CASE k = FifoDepth
    BY <1>1, <1>4, <2>1, Zenon DEF FifoInv, FifoTypeOK
  <2>2. CASE k < FifoDepth
    <3>1. FifoAt(k) # producer.index /\ FifoAt(k) \in 0 .. FifoCap - 1
      BY <1>1, <2>2, FifoAtFacts DEF FifoInv
    <3>2. cells[FifoAt(k)] \in FifoValue
      BY <1>1, <2>2 DEF FifoInv, StoredComplete
    <3> QED BY <1>4, <3>1, <3>2, Zenon DEF FifoInv, FifoTypeOK
  <2> QED BY <1>1, <2>1, <2>2
<1> QED BY <1>5, <1>7, <1>8, Zenon DEF FifoInv

LEMMA FifoPublishStoreInv == FifoInv /\ FifoPublishStore => FifoInv' /\ FifoDepth' = FifoDepth + 1
<1> SUFFICES ASSUME FifoInv, FifoPublishStore PROVE FifoInv' /\ FifoDepth' = FifoDepth + 1
  BY Zenon
<1>1. /\ Ahead = 1 /\ FifoDepth \in Nat /\ FifoDepth + 1 <= FifoCap
      /\ producer.cursor = CursorNext(published) /\ ~producer.claimed /\ producer.pc = "store"
  BY DepthFacts, Zenon DEF FifoInv, CursorsAgree, FifoPublishStore, Ahead, FifoTypeOK
<1>2. /\ published' = producer.cursor /\ UNCHANGED <<cells, consumer, consumed, watermark>>
      /\ producer' = [producer EXCEPT !.pc = "max"]
  BY Zenon DEF FifoPublishStore
<1>3. FifoDepth' = FifoDepth + 1
  BY <1>1, <1>2, CursorFacts, FifoCapAssumption, SMTT(30) DEF FifoInv, FifoTypeOK, FifoDepth
<1>4. Ahead' = 0 /\ \A k : FifoAt(k)' = FifoAt(k)
  BY <1>2, Zenon DEF Ahead, FifoAt, FifoInv, FifoTypeOK
<1>5. FifoTypeOK'
  BY <1>2, Zenon DEF FifoInv, FifoTypeOK
<1>6. /\ producer'.cursor = producer.cursor /\ producer'.index = producer.index
      /\ producer'.claimed = producer.claimed /\ producer'.pc = "max"
  BY <1>2, Zenon DEF FifoInv, FifoTypeOK
<1>7. CursorsAgree'
  BY <1>1, <1>2, <1>3, <1>4, <1>6, FifoCapAssumption DEF FifoInv, CursorsAgree
<1>8. StoredComplete'
  BY <1>1, <1>2, <1>3, <1>4 DEF FifoInv, StoredComplete
<1> QED BY <1>3, <1>5, <1>7, <1>8, Zenon DEF FifoInv

LEMMA FifoPublishMaxInv == FifoInv /\ FifoPublishMax => FifoInv'
<1> SUFFICES ASSUME FifoInv, FifoPublishMax PROVE FifoInv'
  BY Zenon
<1>1. FifoTypeOK'
  <2>1. producer.depth \in 0 .. FifoCap /\ watermark \in 0 .. FifoCap
    BY Zenon DEF FifoInv, FifoTypeOK
  <2>2. 0 \in 0 .. FifoCap /\ watermark' \in 0 .. FifoCap
    BY <2>1, FifoCapAssumption DEF FifoPublishMax
  <2> QED BY <2>2, Zenon DEF FifoInv, FifoTypeOK, FifoPublishMax
<1>2. /\ FifoDepth' = FifoDepth /\ Ahead' = Ahead /\ \A k : FifoAt(k)' = FifoAt(k)
      /\ producer'.cursor = producer.cursor /\ producer'.index = producer.index
      /\ producer'.claimed = producer.claimed /\ producer'.pc = "idle" /\ producer.pc = "max"
  BY Zenon DEF FifoPublishMax, FifoDepth, Ahead, FifoAt, FifoInv, FifoTypeOK
<1>3. CursorsAgree' /\ StoredComplete'
  BY <1>2, Zenon DEF FifoInv, CursorsAgree, StoredComplete, FifoPublishMax
<1> QED BY <1>1, <1>3, Zenon DEF FifoInv

LEMMA FifoWriteAbortInv == FifoInv /\ FifoWriteAbort => FifoInv'
<1> SUFFICES ASSUME FifoInv, FifoWriteAbort PROVE FifoInv'
  BY Zenon
<1>1. FifoTypeOK'
  BY Zenon DEF FifoInv, FifoTypeOK, FifoWriteAbort
<1>2. /\ FifoDepth' = FifoDepth /\ Ahead' = Ahead /\ \A k : FifoAt(k)' = FifoAt(k)
      /\ producer'.cursor = producer.cursor /\ producer'.index = producer.index
      /\ ~producer'.claimed /\ producer'.pc = producer.pc
  BY Zenon DEF FifoWriteAbort, FifoDepth, Ahead, FifoAt, FifoInv, FifoTypeOK
<1>3. CursorsAgree' /\ StoredComplete'
  BY <1>2, Zenon DEF FifoInv, CursorsAgree, StoredComplete, FifoWriteAbort
<1> QED BY <1>1, <1>3, Zenon DEF FifoInv

LEMMA FifoReadAcquireInv == FifoInv /\ FifoReadAcquire => FifoInv' /\ FifoDepth > 0
<1> SUFFICES ASSUME FifoInv, FifoReadAcquire PROVE FifoInv' /\ FifoDepth > 0
  BY Zenon
<1>1. FifoTypeOK'
  BY Zenon DEF FifoInv, FifoTypeOK, FifoReadAcquire
<1>2. /\ FifoDepth' = FifoDepth /\ Ahead' = Ahead /\ \A k : FifoAt(k)' = FifoAt(k)
      /\ consumer'.cursor = consumer.cursor /\ consumer'.index = consumer.index
  BY Zenon DEF FifoReadAcquire, FifoDepth, Ahead, FifoAt, FifoInv, FifoTypeOK
<1>3. FifoDepth > 0
  <2>1. published \in 0 .. CursorMod - 1 /\ consumer.cursor \in 0 .. CursorMod - 1
        /\ consumer.cursor # published
    BY Zenon DEF FifoInv, FifoTypeOK, FifoReadAcquire
  <2>2. FifoDepth # 0 /\ FifoDepth \in Nat
    BY <2>1, CursorFacts, DepthFacts, Zenon DEF FifoDepth, FifoInv
  <2> QED BY <2>2
<1>4. CursorsAgree' /\ StoredComplete'
  BY <1>2, <1>3, Zenon DEF FifoInv, CursorsAgree, StoredComplete, FifoReadAcquire
<1> QED BY <1>1, <1>3, <1>4, Zenon DEF FifoInv

\* The consumer moves on by one slot: the k-th slot behind it was the one after the k-th.
LEMMA FifoReadReleaseInv ==
    FifoInv /\ FifoReadRelease =>
        /\ FifoInv' /\ FifoDepth' = FifoDepth - 1 /\ FifoDepth > 0
        /\ \A k \in 0 .. FifoDepth - 2 : FifoAt(k)' = FifoAt(k + 1)
<1> SUFFICES ASSUME FifoInv, FifoReadRelease
             PROVE  /\ FifoInv' /\ FifoDepth' = FifoDepth - 1 /\ FifoDepth > 0
                    /\ \A k \in 0 .. FifoDepth - 2 : FifoAt(k)' = FifoAt(k + 1)
  BY Zenon
<1>1. /\ published \in 0 .. CursorMod - 1 /\ consumer.cursor \in 0 .. CursorMod - 1
      /\ consumer.index \in 0 .. FifoCap - 1 /\ producer.index \in 0 .. FifoCap - 1
      /\ FifoDepth \in Nat /\ FifoDepth > 0 /\ Ahead \in {0, 1} /\ FifoDepth + Ahead <= FifoCap
      /\ FifoCap \in Nat \ {0} /\ consumer.borrowed
  BY DepthFacts, FifoCapAssumption, Zenon DEF FifoInv, FifoTypeOK, FifoReadRelease, CursorsAgree
<1>2. /\ consumer' = [cursor |-> CursorNext(consumer.cursor),
                      index |-> NextIndex(consumer.index, consumer.cursor), borrowed |-> FALSE]
      /\ consumed' = CursorNext(consumer.cursor)
      /\ UNCHANGED <<cells, producer, published, watermark>>
  BY Zenon DEF FifoReadRelease
<1>3. FifoDepth' = FifoDepth - 1
  BY <1>1, <1>2, CursorFacts, ZenonT(60) DEF FifoDepth
<1>4. /\ CursorNext(consumer.cursor) \in 0 .. CursorMod - 1
      /\ NextIndex(consumer.index, consumer.cursor) \in 0 .. FifoCap - 1
  <2>1. CursorNext(consumer.cursor) \in 0 .. CursorMod - 1
    BY <1>1, CursorFacts, Zenon
  <2>2. NextIndex(consumer.index, consumer.cursor) \in 0 .. FifoCap - 1
    BY <1>1 DEF NextIndex
  <2> QED BY <2>1, <2>2, Zenon
<1>5. FifoTypeOK'
  BY <1>2, <1>4, Zenon DEF FifoInv, FifoTypeOK
<1>6. Ahead' = Ahead
  BY <1>2, Zenon DEF Ahead
<1>7. ASSUME NEW k \in 0 .. FifoCap - 2 PROVE FifoAt(k)' = FifoAt(k + 1)
  BY <1>1, <1>2 DEF FifoAt, NextIndex
<1>8. CursorsAgree'
  <2>1. PICK k \in 0 .. FifoCap - 1 : k = FifoDepth + Ahead - 1
    BY <1>1
  <2>2. producer.index = FifoAt(k)'
    <3>1. CASE k + 1 < FifoCap
      <4>1. producer.index = FifoAt(k + 1)
        BY <1>1, <2>1, <3>1 DEF FifoInv, CursorsAgree
      <4>2. FifoAt(k)' = FifoAt(k + 1)
        BY <1>1, <1>7, <3>1
      <4> QED BY <4>1, <4>2, Zenon
    <3>2. CASE k + 1 = FifoCap
      <4>1. producer.index = consumer.index
        BY <1>1, <2>1, <3>2 DEF FifoInv, CursorsAgree
      <4> QED BY <1>1, <1>2, <3>2, <4>1 DEF FifoAt, NextIndex
    <3> QED BY <1>1, <3>1, <3>2
  <2>3. FifoDepth' + Ahead' = k /\ k < FifoCap
    BY <1>1, <1>3, <1>6, <2>1
  <2>4. producer' = producer /\ published' = published /\ consumed' = consumer'.cursor
        /\ ~consumer'.borrowed
    BY <1>2, Zenon
  <2>5. producer.claimed => producer.pc = "idle" /\ FifoDepth' < FifoCap
    BY <1>1, <1>3 DEF FifoInv, CursorsAgree
  <2> QED BY <1>1, <2>2, <2>3, <2>4, <2>5 DEF FifoInv, CursorsAgree
<1>9. StoredComplete'
  <2> SUFFICES ASSUME NEW k \in 0 .. FifoDepth + Ahead - 2
               PROVE  cells'[FifoAt(k)'] \in FifoValue
    BY <1>1, <1>3, <1>6 DEF StoredComplete
  <2>1. FifoAt(k)' = FifoAt(k + 1)
    BY <1>1, <1>7
  <2>2. cells[FifoAt(k + 1)] \in FifoValue
    BY <1>1 DEF FifoInv, StoredComplete
  <2> QED BY <1>2, <2>1, <2>2, Zenon
<1>10. \A k \in 0 .. FifoDepth - 2 : FifoAt(k)' = FifoAt(k + 1)
  BY <1>1, <1>7
<1> QED BY <1>1, <1>3, <1>5, <1>8, <1>9, <1>10, Zenon DEF FifoInv

LEMMA FifoResetInv == FifoInv /\ FifoReset => FifoInv' /\ FifoDepth' = 0
<1> SUFFICES ASSUME FifoInv, FifoReset PROVE FifoInv' /\ FifoDepth' = 0
  BY Zenon
<1>1. FifoTypeOK'
  <2>1. 0 \in 0 .. CursorMod - 1 /\ 0 \in 0 .. FifoCap - 1
    BY FifoCapAssumption
  <2> QED BY <2>1, Zenon DEF FifoInv, FifoTypeOK, FifoReset
<1>2. /\ producer' = [producer EXCEPT !.cursor = 0, !.index = 0] /\ producer.pc = "idle"
      /\ consumer' = [consumer EXCEPT !.cursor = 0, !.index = 0]
      /\ ~producer.claimed /\ ~consumer.borrowed /\ published' = 0 /\ consumed' = 0
  BY Zenon DEF FifoReset
<1>3. /\ producer'.cursor = 0 /\ producer'.index = 0 /\ producer'.pc = "idle"
      /\ ~producer'.claimed /\ consumer'.cursor = 0 /\ consumer'.index = 0 /\ ~consumer'.borrowed
  BY <1>2, Zenon DEF FifoInv, FifoTypeOK
<1>4. FifoDepth' = 0 /\ Ahead' = 0 /\ FifoAt(0)' = 0
  BY <1>2, <1>3, FifoCapAssumption DEF FifoDepth, CursorSub, Ahead, FifoAt
<1>5. CursorsAgree'
  BY <1>2, <1>3, <1>4, FifoCapAssumption DEF CursorsAgree
<1>6. StoredComplete'
  BY <1>4 DEF StoredComplete
<1> QED BY <1>1, <1>4, <1>5, <1>6, Zenon DEF FifoInv

LEMMA FifoNextInv == FifoInv /\ [FifoNext]_fifoVars => FifoInv'
<1> SUFFICES ASSUME FifoInv, [FifoNext]_fifoVars PROVE FifoInv'
  BY Zenon
<1>1. CASE UNCHANGED fifoVars
  BY <1>1, Zenon DEF fifoVars, FifoInv, FifoTypeOK, CursorsAgree, StoredComplete, FifoDepth, FifoAt, Ahead
<1>2. CASE FifoNext
  BY <1>2, FifoWriteClaimInv, FifoPublishLoadInv, FifoPublishStoreInv, FifoPublishMaxInv,
     FifoWriteAbortInv, FifoReadAcquireInv, FifoReadReleaseInv, FifoResetInv, Zenon DEF FifoNext
<1> QED BY <1>1, <1>2, Zenon

\* The cursors and the slot indices of producer and consumer never drift apart, whatever
\* the capacity and wherever the cursors wrap, and a published slot is a complete value.
THEOREM FifoInvariant == FifoSpec => []FifoInv
BY FifoInitInv, FifoNextInv, PTL DEF FifoSpec

-----------------------------------------------------------------------------
(* The FIFO mailbox implements the bounded queue *)

ContentsOK ==
    /\ FifoContents \in Seq(FifoValue) /\ Len(FifoContents) = FifoDepth
    /\ FifoDepth \in 0 .. FifoCap
    /\ \A k \in 1 .. FifoDepth : FifoContents[k] = cells[FifoAt(k - 1)]

LEMMA ContentsFacts == FifoInv => ContentsOK
<1> SUFFICES ASSUME FifoInv PROVE ContentsOK
  BY Zenon
<1>1. FifoDepth \in 0 .. FifoCap /\ Ahead \in {0, 1}
  BY DepthFacts, FifoCapAssumption DEF FifoInv, CursorsAgree
<1>2. \A k \in 1 .. FifoDepth : cells[FifoAt(k - 1)] \in FifoValue
  BY <1>1 DEF FifoInv, StoredComplete
<1> QED BY <1>1, <1>2 DEF FifoContents, ContentsOK

\* A step that leaves depth, lent slot and published slots alone is a stutter.
LEMMA ContentsSame ==
    ASSUME FifoInv, FifoDepth' = FifoDepth,
           \A k \in 0 .. FifoDepth - 1 : cells'[FifoAt(k)'] = cells[FifoAt(k)]
    PROVE  FifoContents' = FifoContents
<1>1. \A k \in 1 .. FifoDepth : cells'[FifoAt(k - 1)'] = cells[FifoAt(k - 1)]
  BY ContentsFacts, FifoCapAssumption DEF ContentsOK
<1> QED BY <1>1, Zenon DEF FifoContents

\* The producer writes only the slot behind the published ones.
LEMMA WriteIsHidden ==
    ASSUME FifoInv, NEW v, producer.pc = "idle", FifoDepth < FifoCap,
           cells' = [cells EXCEPT ![producer.index] = v], UNCHANGED <<consumer, published>>
    PROVE  UNCHANGED <<FifoContents, FifoLent>>
<1>1. FifoDepth' = FifoDepth /\ \A k : FifoAt(k)' = FifoAt(k)
  BY Zenon DEF FifoDepth, FifoAt
<1>2. FifoDepth \in Nat /\ producer.index = FifoAt(FifoDepth) /\ FifoCap \in Nat
  BY DepthFacts, FifoCapAssumption DEF FifoInv, CursorsAgree, Ahead
<1>3. ASSUME NEW k \in 0 .. FifoDepth - 1 PROVE cells'[FifoAt(k)] = cells[FifoAt(k)]
  <2>1. FifoAt(k) # producer.index /\ FifoAt(k) \in 0 .. FifoCap - 1
    BY <1>2, FifoAtFacts DEF FifoInv
  <2> QED BY <2>1, Zenon DEF FifoInv, FifoTypeOK
<1>4. FifoContents' = FifoContents
  BY <1>1, <1>3, ContentsSame, Zenon
<1>5. consumer.borrowed => cells'[consumer.index] = cells[consumer.index]
  <2> SUFFICES ASSUME consumer.borrowed PROVE cells'[consumer.index] = cells[consumer.index]
    BY Zenon
  <2>1. 0 \in 0 .. FifoDepth - 1
    BY <1>2 DEF FifoInv, CursorsAgree
  <2>2. FifoAt(0) = consumer.index
    BY FifoAtFacts, Zenon DEF FifoInv
  <2> QED BY <1>3, <2>1, <2>2, Zenon
<1> QED BY <1>4, <1>5, Zenon DEF FifoLent

LEMMA StoreIsPublish ==
    ASSUME FifoInv, FifoInv', FifoPublishStore
    PROVE  \E v \in FifoValue : Queue!Publish(v)
<1>0. ContentsOK'
  BY ContentsFacts, PTL
<1>1. FifoDepth' = FifoDepth + 1 /\ UNCHANGED <<cells, consumer>> /\ \A k : FifoAt(k)' = FifoAt(k)
  BY FifoPublishStoreInv, Zenon DEF FifoPublishStore, FifoAt
<1>2. FifoDepth \in Nat /\ FifoDepth < FifoCap
  BY <1>1, DepthFacts, FifoCapAssumption, ContentsFacts DEF FifoInv, CursorsAgree, FifoPublishStore, Ahead, ContentsOK
<1>3. PICK v \in FifoValue : v = cells[FifoAt(FifoDepth)]
  BY <1>2 DEF FifoInv, StoredComplete, FifoPublishStore, Ahead
<1>4. \A k \in 1 .. FifoDepth + 1 :
        cells'[FifoAt(k - 1)'] = IF k <= FifoDepth THEN FifoContents[k] ELSE v
  BY <1>1, <1>2, <1>3, ContentsFacts DEF ContentsOK
<1>5. /\ FifoContents' \in Seq(FifoValue) /\ Len(FifoContents') = FifoDepth + 1
      /\ \A k \in 1 .. FifoDepth + 1 : FifoContents'[k] = IF k <= FifoDepth THEN FifoContents[k] ELSE v
  BY <1>0, <1>1, <1>2, <1>4, Zenon DEF ContentsOK
<1>6. /\ Append(FifoContents, v) \in Seq(FifoValue) /\ Len(Append(FifoContents, v)) = FifoDepth + 1
      /\ \A k \in 1 .. FifoDepth + 1 :
            Append(FifoContents, v)[k] = IF k <= FifoDepth THEN FifoContents[k] ELSE v
  BY <1>2, <1>3, ContentsFacts, AppendProperties, SMTT(30) DEF ContentsOK
<1>7. FifoContents' = Append(FifoContents, v)
  BY <1>2, <1>5, <1>6, SeqEqual, Zenon
<1>8. UNCHANGED FifoLent
  BY <1>1, Zenon DEF FifoLent
<1>9. Len(FifoContents) < FifoCap
  BY <1>2, ContentsFacts, Zenon DEF ContentsOK
<1> QED BY <1>7, <1>8, <1>9, Zenon DEF Queue!Publish

LEMMA ReleaseIsTail ==
    ASSUME FifoInv, FifoInv', FifoReadRelease
    PROVE  Queue!Release
<1>0. ContentsOK'
  BY ContentsFacts, PTL
<1>1. /\ FifoDepth' = FifoDepth - 1 /\ FifoDepth > 0 /\ FifoDepth \in Nat
      /\ \A k \in 0 .. FifoDepth - 2 : FifoAt(k)' = FifoAt(k + 1)
  BY FifoReadReleaseInv, DepthFacts, Zenon DEF FifoInv
<1>2. /\ consumer.borrowed /\ ~consumer'.borrowed /\ cells' = cells
  BY Zenon DEF FifoReadRelease
<1>3. \A k \in 1 .. FifoDepth - 1 : FifoContents'[k] = FifoContents[k + 1]
  <2> SUFFICES ASSUME NEW k \in 1 .. FifoDepth - 1 PROVE FifoContents'[k] = FifoContents[k + 1]
    BY Zenon
  <2>1. FifoContents'[k] = cells'[FifoAt(k - 1)']
    BY <1>0, <1>1, Zenon DEF ContentsOK
  <2>2. FifoContents[k + 1] = cells[FifoAt(k)]
    BY <1>1, ContentsFacts DEF ContentsOK
  <2>3. FifoAt(k - 1)' = FifoAt(k)
    BY <1>1
  <2> QED BY <1>2, <2>1, <2>2, <2>3, Zenon
<1>4. FifoContents # <<>>
  BY <1>1, ContentsFacts DEF ContentsOK
<1>5. /\ Tail(FifoContents) \in Seq(FifoValue) /\ Len(Tail(FifoContents)) = FifoDepth - 1
      /\ \A k \in 1 .. FifoDepth - 1 : Tail(FifoContents)[k] = FifoContents[k + 1]
  BY <1>1, <1>4, ContentsFacts, HeadTailProperties DEF ContentsOK
<1>6. FifoContents' \in Seq(FifoValue) /\ Len(FifoContents') = FifoDepth - 1
  BY <1>0, <1>1, Zenon DEF ContentsOK
<1>7. FifoContents' = Tail(FifoContents)
  BY <1>3, <1>5, <1>6, SeqEqual, Zenon
<1>8. FifoLent # NoView /\ FifoLent' = NoView
  <2>1. FifoContents[1] = cells[FifoAt(0)]
    BY <1>1, ContentsFacts DEF ContentsOK
  <2>2. FifoContents[1] \in FifoValue
    BY <1>1, ContentsFacts, ElementOfSeq, SMTT(30) DEF ContentsOK
  <2>3. FifoAt(0) = consumer.index
    BY FifoAtFacts, Zenon DEF FifoInv
  <2> QED BY <1>2, <2>1, <2>2, <2>3, FifoValueAssumption, Zenon DEF FifoLent
<1> QED BY <1>7, <1>8, Zenon DEF Queue!Release

LEMMA AcquireIsHead ==
    ASSUME FifoInv, FifoInv', FifoReadAcquire
    PROVE  Queue!Acquire
<1>1. FifoDepth > 0 /\ FifoDepth \in Nat
  BY FifoReadAcquireInv, DepthFacts, Zenon DEF FifoInv
<1>2. /\ ~consumer.borrowed /\ consumer'.borrowed /\ consumer'.index = consumer.index
      /\ consumer'.cursor = consumer.cursor /\ cells' = cells /\ published' = published
  BY Zenon DEF FifoReadAcquire, FifoInv, FifoTypeOK
<1>3. FifoContents' = FifoContents
  BY <1>2, ContentsSame, Zenon DEF FifoDepth, FifoAt
<1>4. FifoContents # <<>> /\ Head(FifoContents) = cells[consumer.index]
  <2>1. FifoContents[1] = cells[FifoAt(0)] /\ FifoContents # <<>>
    BY <1>1, ContentsFacts, SMTT(30) DEF ContentsOK
  <2>2. FifoAt(0) = consumer.index
    BY FifoAtFacts, Zenon DEF FifoInv
  <2> QED BY <2>1, <2>2
<1> QED BY <1>2, <1>3, <1>4, Zenon DEF Queue!Acquire, FifoLent

\* The mailbox loses, repeats and reorders nothing and never lends a slot that the
\* producer may write, for every capacity and every width of the cursors.
THEOREM ImplementsQueue == FifoSpec => QueueSpec
<1>1. FifoInit => Queue!Init
  <2> SUFFICES ASSUME FifoInit PROVE Queue!Init
    BY Zenon
  <2>1. FifoContents \in Seq(FifoValue) /\ Len(FifoContents) = 0
    BY FifoInitInv, ContentsFacts DEF FifoInit, FifoDepth, CursorSub, ContentsOK
  <2>2. FifoLent = NoView
    BY Zenon DEF FifoInit, FifoLent
  <2>3. FifoContents = <<>>
    BY <2>1, EmptySeq, Zenon
  <2> QED BY <2>2, <2>3, Zenon DEF Queue!Init
<1>2. FifoInv /\ FifoInv' /\ [FifoNext]_fifoVars => [Queue!Next]_(Queue!vars)
  <2> SUFFICES ASSUME FifoInv, FifoInv', [FifoNext]_fifoVars PROVE [Queue!Next]_(Queue!vars)
    BY Zenon
  <2>1. CASE FifoWriteClaim
    <3>1. FifoDepth < FifoCap
      BY <2>1, Zenon DEF FifoWriteClaim, FifoInv, CursorsAgree, FifoDepth
    <3> QED BY <2>1, <3>1, WriteIsHidden, Zenon DEF FifoWriteClaim, Queue!vars
  <2>2. ASSUME NEW v \in FifoValue, FifoPublishLoad(v) PROVE UNCHANGED Queue!vars
    <3>1. FifoDepth < FifoCap
      BY <2>2, Zenon DEF FifoPublishLoad, FifoInv, CursorsAgree
    <3> QED BY <2>2, <3>1, WriteIsHidden, Zenon DEF FifoPublishLoad, Queue!vars
  <2>3. CASE FifoPublishStore
    BY <2>3, StoreIsPublish, Zenon DEF Queue!Next
  <2>4. CASE FifoPublishMax \/ FifoWriteAbort \/ UNCHANGED fifoVars
    BY <2>4, Zenon DEF FifoPublishMax, FifoWriteAbort, fifoVars, Queue!vars, FifoContents, FifoLent,
                FifoDepth, FifoAt
  <2>5. CASE FifoReadAcquire
    BY <2>5, AcquireIsHead, Zenon DEF Queue!Next
  <2>6. CASE FifoReadRelease
    BY <2>6, ReleaseIsTail, Zenon DEF Queue!Next
  <2>7. CASE FifoReset
    <3>1. FifoDepth' = 0 /\ ~consumer.borrowed /\ ~consumer'.borrowed
      BY <2>7, FifoResetInv, Zenon DEF FifoReset, FifoInv, FifoTypeOK
    <3>2. ContentsOK'
      BY ContentsFacts, PTL
    <3>3. FifoContents' = <<>>
      BY <3>1, <3>2, EmptySeq, Zenon DEF ContentsOK
    <3> QED BY <3>1, <3>3, Zenon DEF Queue!Next, Queue!Reset, FifoLent
  <2> QED BY <2>1, <2>2, <2>3, <2>4, <2>5, <2>6, <2>7, Zenon DEF FifoNext
<1> QED BY <1>1, <1>2, FifoInvariant, PTL DEF FifoSpec, QueueSpec, Queue!Spec

-----------------------------------------------------------------------------
(***************************************************************************)
(* For every number of slots and every set of message ids: the newest      *)
(* value of an id is owed until it is settled (NewestOwed), no waiting     *)
(* slot is passed over by more items than there are other slots            *)
(* (FairTurn), and depth counts the waiting slots.                         *)
(***************************************************************************)

Item == [id : MessageId \cup {0}, gen : Nat]
OutboxTypeOK ==
    /\ box \in [BoxIndex -> Item]
    /\ turn \in BoxIndex /\ depth \in Nat /\ next_generation \in Nat
    /\ active \in [on : BOOLEAN, index : BoxIndex, token : Nat]
    /\ newest \in [MessageId -> Nat] /\ settled \in [MessageId -> Nat]
    /\ passed \in [BoxIndex -> Nat]

\* An id has one slot, which holds the newest value of the id, not settled yet; an id
\* whose newest value is not settled has a slot; generations are not from the future.
OneSlot == \A i, j \in BoxIndex : Waiting(i) /\ box[i].id = box[j].id => i = j
SlotIsNewest ==
    \A i \in BoxIndex : Waiting(i) => /\ box[i].gen = newest[box[i].id]
                                      /\ settled[box[i].id] # newest[box[i].id]
Owed == \A m \in MessageId : newest[m] # settled[m] => \E i \in BoxIndex : box[i].id = m
NotFuture ==
    /\ \A m \in MessageId : newest[m] <= next_generation /\ settled[m] <= next_generation
    /\ active.token <= next_generation
\* The slot of the item that is out stays in use: reset is refused, and only completing
\* the item frees the slot.
LentWaits == active.on => Waiting(active.index)

\* How many slots the cursor visits before slot i.
Away(i) == IF i >= turn THEN i - turn ELSE i - turn + OutboxSlots

\* What a slot has been passed and what is still ahead of it make at most one round.  A
\* slot the cursor would visit before the one whose item is out began to wait after that
\* item was taken, so nothing has passed it.
PassedBound == \A i \in BoxIndex : Waiting(i) => passed[i] + Away(i) < OutboxSlots
LateIsFresh ==
    active.on => \A i \in BoxIndex : Waiting(i) /\ Away(i) < Away(active.index) => passed[i] = 0

\* depth is the number of slots in use (wl_outbox_get_stats, wl_outbox_submit_latest).
DepthExact == depth = Cardinality({i \in BoxIndex : Waiting(i)})

OutboxInv ==
    /\ OutboxTypeOK /\ OneSlot /\ SlotIsNewest /\ Owed /\ NotFuture /\ LentWaits
    /\ PassedBound /\ LateIsFresh /\ DepthExact

-----------------------------------------------------------------------------
(* The operators *)

LEMMA BoxFacts == OutboxSlots \in Nat \ {0} /\ 0 \in BoxIndex /\ BoxIndex \in SUBSET Nat
BY OutboxAssumption DEF BoxIndex

\* Least finds the least slot of a set of slots.
LEMMA LeastFacts ==
    ASSUME NEW S \in SUBSET BoxIndex, S # {}
    PROVE  Least(S) \in S /\ \A j \in S : Least(S) <= j
<1>1. \E i \in S : \A j \in S : i <= j
  BY BoxFacts, LeastNat, Zenon
<1> QED BY <1>1, Zenon DEF Least

\* The slot k steps on from the cursor, and the number of steps to a slot.
LEMMA VisitFacts ==
    ASSUME turn \in BoxIndex
    PROVE  /\ \A k \in BoxIndex : Visit(k) \in BoxIndex /\ Away(Visit(k)) = k
           /\ \A i \in BoxIndex : Away(i) \in BoxIndex /\ Visit(Away(i)) = i
<1>1. ASSUME NEW k \in BoxIndex
      PROVE  Visit(k) = IF turn + k < OutboxSlots THEN turn + k ELSE turn + k - OutboxSlots
  <2>1. CASE turn + k < OutboxSlots
    <3>1. turn + k \in 0 .. OutboxSlots - 1
      BY <2>1, BoxFacts DEF BoxIndex
    <3> QED BY <3>1, <2>1, ModSmall, BoxFacts, Zenon DEF Visit
  <2>2. CASE ~(turn + k < OutboxSlots)
    <3>1. turn + k \in OutboxSlots .. 2 * OutboxSlots - 1
      BY <2>2, BoxFacts DEF BoxIndex
    <3> QED BY <3>1, <2>2, ModWrap, BoxFacts DEF Visit
  <2> QED BY <2>1, <2>2, Zenon
<1>2. \A i \in BoxIndex : Away(i) \in BoxIndex
  BY BoxFacts DEF Away, BoxIndex
<1> QED BY <1>1, <1>2, BoxFacts DEF Away, BoxIndex

\* The acquired slot is waiting, and no waiting slot is ahead of it.
LEMMA FirstWaitingFacts ==
    ASSUME OutboxTypeOK, \E i \in BoxIndex : Waiting(i)
    PROVE  /\ FirstWaiting \in BoxIndex /\ Waiting(FirstWaiting)
           /\ \A i \in BoxIndex : Waiting(i) => Away(FirstWaiting) <= Away(i)
<1> DEFINE S == {k \in BoxIndex : Waiting(Visit(k))}
<1>1. turn \in BoxIndex
  BY Zenon DEF OutboxTypeOK
<1>2. \A i \in BoxIndex : Waiting(i) => Away(i) \in S
  BY <1>1, VisitFacts, Zenon
<1>3. S \in SUBSET BoxIndex /\ S # {}
  BY <1>2, Zenon
<1>4. Least(S) \in S /\ \A j \in S : Least(S) <= j
  BY <1>3, LeastFacts, Zenon
<1>5. FirstWaiting = Visit(Least(S))
  BY Zenon DEF FirstWaiting
<1> HIDE DEF Least
<1>6. Away(FirstWaiting) = Least(S)
  BY <1>1, <1>4, <1>5, VisitFacts, Zenon
<1> QED BY <1>1, <1>2, <1>4, <1>5, <1>6, VisitFacts, Zenon

-----------------------------------------------------------------------------
(* The invariant *)

LEMMA OutboxInitInv == OutboxInit => OutboxInv
<1> SUFFICES ASSUME OutboxInit PROVE OutboxInv
  BY Zenon
<1>1. OutboxTypeOK
  BY BoxFacts, Zenon DEF OutboxInit, OutboxTypeOK, Item, Empty, NoItem
<1>2. \A i \in BoxIndex : ~Waiting(i)
  BY Zenon DEF OutboxInit, Waiting, Empty
<1>3. {i \in BoxIndex : Waiting(i)} = {}
  BY <1>2, Zenon
<1>4. DepthExact
  BY <1>3, FS_EmptySet, Zenon DEF DepthExact, OutboxInit
<1> QED BY <1>1, <1>2, <1>4 DEF OutboxInit, OutboxInv, OneSlot, SlotIsNewest, Owed, NotFuture, LentWaits,
           PassedBound, LateIsFresh, NoItem

\* The waiting slots are finitely many.
LEMMA WaitingFinite == IsFiniteSet({i \in BoxIndex : Waiting(i)})
<1>1. IsFiniteSet(BoxIndex)
  BY BoxFacts, FS_Interval DEF BoxIndex
<1> QED BY <1>1, FS_Subset, Zenon

LEMMA SubmitLatestInv ==
    ASSUME OutboxInv, NEW m \in MessageId, SubmitLatest(m)
    PROVE  OutboxInv'
<1> DEFINE gen == next_generation + 1
<1>1. PICK i \in BoxIndex :
         /\ i = Least(Selected(m))
         /\ box' = [box EXCEPT ![i] = [id |-> m, gen |-> gen]]
         /\ depth' = IF Waiting(i) THEN depth ELSE depth + 1
         /\ passed' = IF Waiting(i) THEN passed ELSE [passed EXCEPT ![i] = 0]
         /\ next_generation' = gen
         /\ newest' = [newest EXCEPT ![m] = gen]
         /\ UNCHANGED <<turn, active, settled>>
  <2>1. Selected(m) \in SUBSET BoxIndex /\ Selected(m) # {}
    BY Zenon DEF SubmitLatest, Selected
  <2>2. Least(Selected(m)) \in BoxIndex
    BY <2>1, LeastFacts, Zenon
  <2> QED BY <2>2, Zenon DEF SubmitLatest
<1>2. box[i].id = m \/ (box[i].id = 0 /\ \A j \in BoxIndex : box[j].id # m)
  <2>1. Selected(m) \in SUBSET BoxIndex /\ Selected(m) # {}
    BY Zenon DEF SubmitLatest, Selected
  <2>2. i \in Selected(m)
    BY <1>1, <2>1, LeastFacts, Zenon
  <2> QED BY <2>2, Zenon DEF Selected
<1>3. m # 0 /\ gen \in Nat /\ gen > next_generation
  BY OutboxAssumption DEF OutboxInv, OutboxTypeOK
<1> HIDE DEF gen
<1>4. OutboxTypeOK'
  BY <1>1, <1>2, <1>3 DEF OutboxInv, OutboxTypeOK, Item
<1>5. /\ \A j \in BoxIndex : j # i => box'[j] = box[j]
      /\ box'[i].id = m /\ box'[i].gen = gen
  BY <1>1, <1>2, Zenon DEF OutboxInv, OutboxTypeOK
<1>6. /\ \A j \in BoxIndex : j # i => (Waiting(j)' <=> Waiting(j)) /\ box[j].id # m
      /\ Waiting(i)'
  <2>1. \A j \in BoxIndex : j # i => box[j].id # m
    BY <1>2, <1>3, Zenon DEF Waiting, OutboxInv, OneSlot
  <2> QED BY <1>3, <1>5, <2>1, Zenon DEF Waiting
<1>7. OneSlot'
  BY <1>5, <1>6, Zenon DEF OneSlot, OutboxInv, Waiting
<1>8. SlotIsNewest'
  <2>1. settled[m] # gen
    BY <1>3 DEF OutboxInv, NotFuture, OutboxTypeOK
  <2>2. newest'[m] = gen /\ \A l \in MessageId : l # m => newest'[l] = newest[l]
    BY <1>1, Zenon DEF OutboxInv, OutboxTypeOK
  <2>3. \A j \in BoxIndex : Waiting(j) => box[j].id \in MessageId
    BY Zenon DEF OutboxInv, OutboxTypeOK, Item, Waiting
  <2> QED BY <1>1, <1>5, <1>6, <2>1, <2>2, <2>3, SMTT(30) DEF SlotIsNewest, OutboxInv
<1>9. Owed'
  <2> SUFFICES ASSUME NEW l \in MessageId, newest'[l] # settled[l]
               PROVE  \E j \in BoxIndex : box'[j].id = l
    BY <1>1, Zenon DEF Owed
  <2>1. CASE l = m
    BY <1>2, <1>5, <2>1, Zenon
  <2>2. CASE l # m
    <3>1. newest[l] # settled[l]
      BY <1>1, <2>2, Zenon DEF OutboxInv, OutboxTypeOK
    <3>2. PICK j \in BoxIndex : box[j].id = l
      BY <3>1, Zenon DEF OutboxInv, Owed
    <3>3. j # i
      BY <1>2, <2>2, <3>2, OutboxAssumption, Zenon
    <3> QED BY <1>5, <3>2, <3>3, Zenon
  <2> QED BY <2>1, <2>2, Zenon
<1>10. NotFuture'
  BY <1>1, <1>3 DEF NotFuture, OutboxInv, OutboxTypeOK
<1>11. LentWaits'
  BY <1>1, <1>6, Zenon DEF LentWaits, OutboxInv, OutboxTypeOK, Waiting
<1>12. \A j \in BoxIndex : Away(j)' = Away(j) /\ Away(j) \in BoxIndex
  BY <1>1, VisitFacts, Zenon DEF Away, OutboxInv, OutboxTypeOK
<1>13. \A j \in BoxIndex : passed'[j] = IF j = i /\ ~Waiting(i) THEN 0 ELSE passed[j]
  BY <1>1, Zenon DEF OutboxInv, OutboxTypeOK
<1>14. PassedBound'
  BY <1>2, <1>6, <1>12, <1>13, BoxFacts, SMTT(30) DEF PassedBound, OutboxInv, BoxIndex
<1>15. LateIsFresh'
  BY <1>1, <1>6, <1>12, <1>13, Zenon DEF LateIsFresh, OutboxInv, OutboxTypeOK
<1>16. DepthExact'
  <2> DEFINE W == {j \in BoxIndex : Waiting(j)}
  <2>1. {j \in BoxIndex : Waiting(j)'} = W \cup {i}
    BY <1>2, <1>6, Zenon DEF Waiting
  <2>2. IsFiniteSet(W) /\ depth = Cardinality(W)
    BY WaitingFinite, Zenon DEF OutboxInv, DepthExact
  <2>3. i \in W <=> Waiting(i)
    BY <1>2, Zenon
  <2> HIDE DEF W
  <2>4. Cardinality(W \cup {i}) = IF i \in W THEN Cardinality(W) ELSE Cardinality(W) + 1
    BY <2>2, FS_AddElement, Zenon
  <2> QED BY <1>1, <2>1, <2>2, <2>3, <2>4, Zenon DEF DepthExact
<1> QED BY <1>4, <1>7, <1>8, <1>9, <1>10, <1>11, <1>14, <1>15, <1>16, Zenon DEF OutboxInv

LEMMA AcquireCopyInv == OutboxInv /\ AcquireCopy => OutboxInv'
<1> SUFFICES ASSUME OutboxInv, AcquireCopy PROVE OutboxInv'
  BY Zenon
<1>1. /\ FirstWaiting \in BoxIndex /\ Waiting(FirstWaiting)
      /\ \A i \in BoxIndex : Waiting(i) => Away(FirstWaiting) <= Away(i)
  BY FirstWaitingFacts, Zenon DEF OutboxInv, AcquireCopy
<1>2. /\ active' = [on |-> TRUE, index |-> FirstWaiting, token |-> box[FirstWaiting].gen]
      /\ UNCHANGED <<box, turn, depth, next_generation, newest, settled, passed>>
  BY Zenon DEF AcquireCopy
<1>3. box[FirstWaiting].gen \in Nat /\ box[FirstWaiting].gen <= next_generation
  BY <1>1, Zenon DEF OutboxInv, OutboxTypeOK, Item, SlotIsNewest, NotFuture, Waiting
<1>4. OutboxTypeOK' /\ NotFuture'
  BY <1>1, <1>2, <1>3, Zenon DEF OutboxInv, OutboxTypeOK, NotFuture
<1>5. \A i \in BoxIndex : Away(i)' = Away(i) /\ Away(i) \in BoxIndex /\ (Waiting(i)' <=> Waiting(i))
  BY <1>2, VisitFacts, Zenon DEF Away, OutboxInv, OutboxTypeOK, Waiting
<1>6. LateIsFresh' /\ LentWaits'
  <2>1. active'.index = FirstWaiting
    BY <1>2, Zenon
  <2>2. Away(active.index)' = Away(FirstWaiting)
    BY <1>2, <2>1, Zenon DEF Away
  <2>3. \A i \in BoxIndex : Waiting(i) => ~(Away(i) < Away(FirstWaiting))
    BY <1>1, <1>5, BoxFacts DEF BoxIndex
  <2> QED BY <1>1, <1>5, <2>1, <2>2, <2>3, Zenon DEF LateIsFresh, LentWaits
<1>7. OneSlot' /\ SlotIsNewest' /\ Owed' /\ PassedBound' /\ DepthExact'
  BY <1>2, <1>5, Zenon DEF OutboxInv, OneSlot, SlotIsNewest, Owed, PassedBound, DepthExact, Waiting
<1> QED BY <1>4, <1>6, <1>7, Zenon DEF OutboxInv

LEMMA CompleteDeferredInv == OutboxInv /\ CompleteDeferred => OutboxInv'
<1> SUFFICES ASSUME OutboxInv, CompleteDeferred PROVE OutboxInv'
  BY Zenon
<1>1. OutboxTypeOK' /\ NotFuture'
  BY BoxFacts DEF OutboxInv, OutboxTypeOK, NotFuture, CompleteDeferred, NoItem
<1>2. OneSlot' /\ SlotIsNewest' /\ Owed' /\ PassedBound' /\ DepthExact'
  BY Zenon DEF CompleteDeferred, OutboxInv, OneSlot, SlotIsNewest, Owed, PassedBound, DepthExact, Waiting, Away
<1> QED BY <1>1, <1>2, Zenon DEF OutboxInv, LateIsFresh, LentWaits, CompleteDeferred, NoItem

\* The cursor moves behind slot a: the slots it skips are a round away.
LEMMA TurnFacts ==
    ASSUME turn \in BoxIndex, NEW a \in BoxIndex, turn' = (a + 1) % OutboxSlots
    PROVE  /\ turn' \in BoxIndex
           /\ \A i \in BoxIndex :
                Away(i)' = IF Away(i) > Away(a) THEN Away(i) - Away(a) - 1
                            ELSE Away(i) - Away(a) - 1 + OutboxSlots
<1>1. turn' = IF a + 1 = OutboxSlots THEN 0 ELSE a + 1
  <2>1. CASE a + 1 = OutboxSlots
    <3>1. a + 1 \in OutboxSlots .. 2 * OutboxSlots - 1
      BY <2>1, BoxFacts DEF BoxIndex
    <3> QED BY <3>1, <2>1, ModWrap, BoxFacts
  <2>2. CASE a + 1 # OutboxSlots
    <3>1. a + 1 \in 0 .. OutboxSlots - 1
      BY <2>2, BoxFacts DEF BoxIndex
    <3> QED BY <3>1, <2>2, ModSmall, BoxFacts, Zenon
  <2> QED BY <2>1, <2>2, Zenon
<1>2. turn' \in BoxIndex
  BY <1>1, BoxFacts DEF BoxIndex
<1>3. ASSUME NEW i \in BoxIndex
      PROVE  Away(i)' = IF Away(i) > Away(a) THEN Away(i) - Away(a) - 1
                         ELSE Away(i) - Away(a) - 1 + OutboxSlots
  BY <1>1, BoxFacts DEF BoxIndex, Away
<1> QED BY <1>2, <1>3, Zenon

LEMMA CompleteFinalInv == OutboxInv /\ CompleteFinal => OutboxInv'
<1> SUFFICES ASSUME OutboxInv, CompleteFinal PROVE OutboxInv'
  BY Zenon
<1>1. PICK a \in BoxIndex, token \in Nat :
         /\ a = active.index /\ token = active.token /\ token <= next_generation /\ Waiting(a)
         /\ box' = IF box[a].gen = token THEN [box EXCEPT ![a] = Empty] ELSE box
         /\ depth' = IF box[a].gen = token THEN depth - 1 ELSE depth
         /\ turn' = (a + 1) % OutboxSlots
         /\ settled' = [settled EXCEPT ![box[a].id] = token]
         /\ passed' = [i \in BoxIndex |-> IF i = a \/ ~Waiting(i) THEN 0 ELSE passed[i] + 1]
         /\ UNCHANGED <<next_generation, newest>> /\ active' = NoItem
  <2>1. active.index \in BoxIndex /\ active.token \in Nat /\ Waiting(active.index)
        /\ active.token <= next_generation
    BY Zenon DEF OutboxInv, OutboxTypeOK, LentWaits, CompleteFinal, NotFuture
  <2> QED BY <2>1, Zenon DEF CompleteFinal
<1>2. box[a].id \in MessageId /\ box[a].gen = newest[box[a].id]
  BY <1>1, Zenon DEF OutboxInv, OutboxTypeOK, Item, Waiting, SlotIsNewest
<1>3. /\ turn' \in BoxIndex
      /\ \A i \in BoxIndex :
                Away(i)' = IF Away(i) > Away(a) THEN Away(i) - Away(a) - 1
                            ELSE Away(i) - Away(a) - 1 + OutboxSlots
  BY <1>1, TurnFacts, Zenon DEF OutboxInv, OutboxTypeOK
<1>4. depth' \in Nat /\ DepthExact'
  <2> DEFINE W == {j \in BoxIndex : Waiting(j)}
  <2>1. IsFiniteSet(W) /\ depth = Cardinality(W) /\ Cardinality(W) \in Nat /\ a \in W
    BY <1>1, WaitingFinite, FS_CardinalityType, Zenon DEF OutboxInv, DepthExact
  <2>2. CASE box[a].gen = token
    <3>1. {j \in BoxIndex : Waiting(j)'} = W \ {a}
      BY <1>1, <2>2, Zenon DEF OutboxInv, OutboxTypeOK, Waiting, Empty
    <3> HIDE DEF W
    <3>2. Cardinality(W \ {a}) = Cardinality(W) - 1 /\ IsFiniteSet(W \ {a})
      BY <2>1, FS_RemoveElement, Zenon
    <3>3. Cardinality(W \ {a}) \in Nat
      BY <3>2, FS_CardinalityType, Zenon
    <3> QED BY <1>1, <2>1, <2>2, <3>1, <3>2, <3>3, Zenon DEF DepthExact
  <2>3. CASE box[a].gen # token
    BY <1>1, <2>3, Zenon DEF DepthExact, OutboxInv, OutboxTypeOK, Waiting
  <2> QED BY <2>2, <2>3, Zenon
<1>5. OutboxTypeOK'
  <2>1. box' \in [BoxIndex -> Item]
    BY <1>1, Zenon DEF OutboxInv, OutboxTypeOK, Item, Empty
  <2>2. active' \in [on : BOOLEAN, index : BoxIndex, token : Nat]
    BY <1>1, BoxFacts, Zenon DEF NoItem
  <2>3. settled' \in [MessageId -> Nat] /\ passed' \in [BoxIndex -> Nat]
    BY <1>1, <1>2 DEF OutboxInv, OutboxTypeOK
  <2> QED BY <1>1, <1>3, <1>4, <2>1, <2>2, <2>3, Zenon DEF OutboxInv, OutboxTypeOK
<1>6. /\ \A j \in BoxIndex : j # a => box'[j] = box[j] /\ (Waiting(j)' <=> Waiting(j))
      /\ box'[a] = box[a] \/ ~Waiting(a)'
  BY <1>1, Zenon DEF OutboxInv, OutboxTypeOK, Waiting, Empty
<1>7. \A l \in MessageId : settled'[l] = IF l = box[a].id THEN token ELSE settled[l]
  BY <1>1, <1>2, Zenon DEF OutboxInv, OutboxTypeOK
<1>8. OneSlot'
  BY <1>6, ZenonT(60) DEF OutboxInv, OneSlot, Waiting
<1>9. SlotIsNewest'
  <2> SUFFICES ASSUME NEW j \in BoxIndex, Waiting(j)'
               PROVE  /\ box'[j].gen = newest[box'[j].id]
                      /\ settled'[box'[j].id] # newest[box'[j].id]
    BY <1>1, Zenon DEF SlotIsNewest
  <2>1. box'[j] = box[j] /\ Waiting(j) /\ box[j].id \in MessageId
    BY <1>6, <1>1, Zenon DEF OutboxInv, OutboxTypeOK, Item, Waiting
  <2>2. CASE j = a
    <3>1. box[a].gen # token
      BY <1>1, <2>2, Zenon DEF OutboxInv, OutboxTypeOK, Waiting, Empty
    <3> QED BY <1>2, <1>7, <2>1, <2>2, <3>1, Zenon
  <2>3. CASE j # a
    <3>1. box[j].id # box[a].id
      BY <1>1, <2>3, Zenon DEF OutboxInv, OneSlot
    <3> QED BY <1>7, <2>1, <3>1, Zenon DEF OutboxInv, SlotIsNewest
  <2> QED BY <2>2, <2>3, Zenon
<1>10. Owed'
  <2> SUFFICES ASSUME NEW l \in MessageId, newest[l] # settled'[l]
               PROVE  \E j \in BoxIndex : box'[j].id = l
    BY <1>1, Zenon DEF Owed
  <2>1. CASE l = box[a].id
    BY <1>1, <1>2, <1>7, <2>1, Zenon
  <2>2. CASE l # box[a].id
    <3>1. PICK j \in BoxIndex : box[j].id = l
      BY <1>7, <2>2, Zenon DEF OutboxInv, Owed
    <3> QED BY <1>6, <2>2, <3>1, Zenon
  <2> QED BY <2>1, <2>2, Zenon
<1>11. NotFuture' /\ LentWaits' /\ LateIsFresh'
  BY <1>1, <1>7, OutboxAssumption DEF OutboxInv, NotFuture, LentWaits, LateIsFresh, NoItem, OutboxTypeOK
<1>12. PassedBound'
  <2> SUFFICES ASSUME NEW i \in BoxIndex, Waiting(i)'
               PROVE  passed'[i] + Away(i)' < OutboxSlots
    BY Zenon DEF PassedBound
  <2>1. Away(i) \in BoxIndex /\ Away(a) \in BoxIndex /\ (i # a => Away(i) # Away(a))
    BY VisitFacts, Zenon DEF OutboxInv, OutboxTypeOK
  <2>2. CASE i = a
    <3>1. passed'[i] = 0
      BY <1>1, <2>2, Zenon
    <3> QED BY <1>3, <2>1, <2>2, <3>1, BoxFacts DEF BoxIndex
  <2>3. CASE i # a
    <3>1. Waiting(i) /\ passed'[i] = passed[i] + 1 /\ passed[i] \in Nat
      BY <1>1, <1>6, <2>3, Zenon DEF OutboxInv, OutboxTypeOK
    <3>2. passed[i] + Away(i) < OutboxSlots /\ (Away(i) < Away(a) => passed[i] = 0)
      BY <1>1, <3>1, Zenon DEF OutboxInv, PassedBound, LateIsFresh, CompleteFinal
    <3> QED BY <1>3, <2>1, <2>3, <3>1, <3>2, BoxFacts, SMTT(30) DEF BoxIndex
  <2> QED BY <2>2, <2>3, Zenon
<1> QED BY <1>4, <1>5, <1>8, <1>9, <1>10, <1>11, <1>12, Zenon DEF OutboxInv

LEMMA OutboxResetInv == OutboxInv /\ OutboxReset => OutboxInv'
<1> SUFFICES ASSUME OutboxInv, OutboxReset PROVE OutboxInv'
  BY Zenon
<1>1. OutboxTypeOK'
  BY BoxFacts, Zenon DEF OutboxInv, OutboxReset, OutboxTypeOK, Item, Empty
<1>2. \A i \in BoxIndex : ~Waiting(i)'
  BY Zenon DEF OutboxReset, Waiting, Empty
<1>3. {i \in BoxIndex : Waiting(i)'} = {}
  BY <1>2, Zenon
<1>4. DepthExact'
  BY <1>3, FS_EmptySet, Zenon DEF DepthExact, OutboxReset
<1>5. Owed' /\ NotFuture'
  BY Zenon DEF OutboxInv, OutboxReset, Owed, NotFuture
<1> QED BY <1>1, <1>2, <1>4, <1>5, Zenon DEF OutboxReset, OutboxInv, OneSlot, SlotIsNewest, LentWaits,
           PassedBound, LateIsFresh

LEMMA OutboxNextInv == OutboxInv /\ [OutboxNext]_outboxVars => OutboxInv'
<1> SUFFICES ASSUME OutboxInv, [OutboxNext]_outboxVars PROVE OutboxInv'
  BY Zenon
<1>1. CASE UNCHANGED outboxVars
  BY <1>1, Zenon DEF outboxVars, OutboxInv, OutboxTypeOK, OneSlot, SlotIsNewest, Owed, NotFuture, LentWaits,
     PassedBound, LateIsFresh, DepthExact, Waiting, Away
<1> QED BY <1>1, SubmitLatestInv, AcquireCopyInv, CompleteDeferredInv, CompleteFinalInv, OutboxResetInv, Zenon
        DEF OutboxNext

-----------------------------------------------------------------------------
(* The theorems *)

\* The inductive invariant holds of every behaviour of the outbox.
THEOREM OutboxInvariant == OutboxSpec => []OutboxInv
BY OutboxInitInv, OutboxNextInv, PTL DEF OutboxSpec

\* The newest value of an id waits in exactly one slot until it is itself accepted or
\* rejected (wl_outbox_submit_latest against wl_outbox_complete of a replaced copy).
THEOREM NewestIsOwed == OutboxSpec => []NewestOwed
<1>1. ASSUME OutboxInv PROVE NewestOwed
  <2> SUFFICES ASSUME NEW m \in MessageId, newest[m] # settled[m]
               PROVE  \E i \in BoxIndex : /\ box[i] = [id |-> m, gen |-> newest[m]]
                                          /\ \A j \in BoxIndex : box[j].id = m => j = i
    BY Zenon DEF NewestOwed
  <2>1. PICK i \in BoxIndex : box[i].id = m
    BY <1>1, Zenon DEF OutboxInv, Owed
  <2>2. Waiting(i)
    BY <2>1, OutboxAssumption, Zenon DEF Waiting
  <2>3. box[i] \in Item /\ box[i].gen = newest[m]
    BY <1>1, <2>1, <2>2, Zenon DEF OutboxInv, OutboxTypeOK, SlotIsNewest
  <2>4. box[i] = [id |-> m, gen |-> newest[m]]
    BY <2>1, <2>3, Zenon DEF Item
  <2> QED BY <1>1, <2>1, <2>2, <2>4, Zenon DEF OutboxInv, OneSlot
<1> QED BY <1>1, OutboxInvariant, PTL

\* No waiting slot is passed over by more items than there are other slots (the cursor of
\* wl_outbox_acquire_copy and wl_outbox_complete).
THEOREM TurnIsFair == OutboxSpec => []FairTurn
<1>1. ASSUME OutboxInv PROVE FairTurn
  <2> SUFFICES ASSUME NEW i \in BoxIndex, Waiting(i) PROVE passed[i] < OutboxSlots
    BY Zenon DEF FairTurn
  <2>1. Away(i) \in BoxIndex /\ passed[i] \in Nat /\ passed[i] + Away(i) < OutboxSlots
    BY <1>1, VisitFacts, Zenon DEF OutboxInv, OutboxTypeOK, PassedBound
  <2> QED BY <2>1, BoxFacts DEF BoxIndex
<1> QED BY <1>1, OutboxInvariant, PTL

\* depth counts the slots in use, so that wl_outbox_get_stats is right and the outbox is
\* full exactly when every slot is in use.
THEOREM DepthIsExact == OutboxSpec => []DepthExact
<1>1. ASSUME OutboxInv PROVE DepthExact
  BY <1>1, Zenon DEF OutboxInv
<1> QED BY <1>1, OutboxInvariant, PTL
=============================================================================
