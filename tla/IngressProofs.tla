---------------------------- MODULE IngressProofs ---------------------------
(***************************************************************************)
(* The two ways bytes enter a link, for every size: the queue of received  *)
(* units keeps its units in order as long as the slot count divides the    *)
(* range of its cursors, and the byte ring hands the parser whole frames   *)
(* in order, whatever its producer does meanwhile.                         *)
(***************************************************************************)
EXTENDS UnitQueue, RxRing, NaturalFacts, SequenceTheorems

-----------------------------------------------------------------------------
(* The queue of received units *)

\* wl_rx_unit_slot takes the remainder of a cursor: slots follow each other across the
\* wrap of the cursors only when the slot count divides their range.
SlotsFitCursor == UnitCursorMod % SlotCount = 0

UnitTypeOK ==
    /\ units \in [0 .. SlotCount - 1 -> Unit \cup {Filling}]
    /\ write_cursor \in 0 .. UnitCursorMod - 1 /\ read_cursor \in 0 .. UnitCursorMod - 1
    /\ claim \in [active : BOOLEAN, cursor : 0 .. UnitCursorMod - 1]
    /\ lease \in BOOLEAN /\ backlog \in Seq(Unit)

\* The slot k behind the owner's.
UnitAt(k) == SlotOf((read_cursor + k) % UnitCursorMod)

UnitInv ==
    /\ UnitTypeOK
    /\ Len(backlog) <= SlotCount /\ write_cursor = (read_cursor + Len(backlog)) % UnitCursorMod
    /\ claim.active => claim.cursor = write_cursor /\ Len(backlog) < SlotCount
    /\ lease => Len(backlog) > 0
    /\ \A k \in 1 .. Len(backlog) : units[UnitAt(k - 1)] = backlog[k]

LEMMA LapFacts ==
    ASSUME NEW r \in 0 .. UnitCursorMod - 1, NEW k \in 0 .. SlotCount
    PROVE  /\ (r + k) % UnitCursorMod = IF r + k < UnitCursorMod THEN r + k ELSE r + k - UnitCursorMod
           /\ (r + k) % UnitCursorMod \in 0 .. UnitCursorMod - 1
           /\ UnitsHeld((r + k) % UnitCursorMod, r) = k
<1>1. SlotCount \in Nat \ {0, 1} /\ UnitCursorMod \in Nat /\ SlotCount < UnitCursorMod
  BY SlotCountAssumption, Zenon
<1>2. (r + k) % UnitCursorMod = IF r + k < UnitCursorMod THEN r + k ELSE r + k - UnitCursorMod
  <2>1. PICK a \in Nat : a = r + k /\ a < 2 * UnitCursorMod
    BY <1>1
  <2>2. CASE a < UnitCursorMod
    BY <1>1, <2>1, <2>2, ModSmall
  <2>3. CASE a >= UnitCursorMod
    <3>1. a \in UnitCursorMod .. 2 * UnitCursorMod - 1 /\ UnitCursorMod \in Nat \ {0}
      BY <1>1, <2>1, <2>3
    <3>2. a % UnitCursorMod = a - UnitCursorMod
      BY <3>1, ModWrap, Zenon
    <3> QED BY <1>1, <2>1, <2>3, <3>2
  <2> QED BY <1>1, <2>2, <2>3
<1>3. UnitsHeld((r + k) % UnitCursorMod, r) = k
  <2>1. CASE r + k < UnitCursorMod
    BY <1>1, <1>2, <2>1, ModSmall DEF UnitsHeld
  <2>2. CASE r + k >= UnitCursorMod
    <3>1. (k + UnitCursorMod * (-1)) % UnitCursorMod = k % UnitCursorMod
      BY <1>1, ModShift
    <3>2. k % UnitCursorMod = k
      BY <1>1, ModSmall
    <3>3. ((r + k) % UnitCursorMod) - r = k + UnitCursorMod * (-1)
      BY <1>1, <1>2, <2>2
    <3> QED BY <3>1, <3>2, <3>3, Zenon DEF UnitsHeld
  <2> QED BY <1>1, <2>1, <2>2
<1> QED BY <1>1, <1>2, <1>3

LEMMA SlotLap ==
    ASSUME SlotsFitCursor, NEW r \in 0 .. UnitCursorMod - 1, NEW k \in 0 .. SlotCount
    PROVE  /\ SlotOf(r) \in 0 .. SlotCount - 1
           /\ SlotOf((r + k) % UnitCursorMod)
                 = IF SlotOf(r) + k < SlotCount THEN SlotOf(r) + k ELSE SlotOf(r) + k - SlotCount
<1>1. SlotCount \in Nat \ {0, 1} /\ UnitCursorMod \in Nat /\ SlotCount < UnitCursorMod
  BY SlotCountAssumption, Zenon
<1>2. PICK q \in Int, s \in 0 .. SlotCount - 1 : s = SlotOf(r) /\ r = SlotCount * q + s
  <2>1. r \in Int /\ SlotCount \in Nat \ {0}
    BY <1>1
  <2>2. r \div SlotCount \in Int /\ r % SlotCount \in 0 .. SlotCount - 1
        /\ r = SlotCount * (r \div SlotCount) + (r % SlotCount)
    BY <2>1, DivFacts, Zenon
  <2> QED BY <2>2, Zenon DEF SlotOf
<1>3. (r + k) % SlotCount = IF s + k < SlotCount THEN s + k ELSE s + k - SlotCount
  <2>1. (s + k + SlotCount * q) % SlotCount = (s + k) % SlotCount
    <3>1. s + k \in Int /\ SlotCount \in Nat \ {0}
      BY <1>1
    <3> QED BY <3>1, ModShift, Zenon
  <2>2. r + k = s + k + SlotCount * q
    BY <1>1, <1>2
  <2>3. (s + k) % SlotCount = IF s + k < SlotCount THEN s + k ELSE s + k - SlotCount
    BY <1>1, ModSmall, ModWrap
  <2> QED BY <2>1, <2>2, <2>3, Zenon
<1>4. PICK m \in Int : UnitCursorMod = SlotCount * m
  <2>1. UnitCursorMod \in Int /\ SlotCount \in Nat \ {0}
    BY <1>1
  <2>2. UnitCursorMod \div SlotCount \in Int
        /\ UnitCursorMod = SlotCount * (UnitCursorMod \div SlotCount) + (UnitCursorMod % SlotCount)
    BY <2>1, DivFacts, Zenon
  <2>3. PICK q2 \in Int, p \in Int : q2 = UnitCursorMod \div SlotCount /\ p = SlotCount * q2
    BY <2>1, <2>2
  <2>4. UnitCursorMod = p + 0
    BY <2>2, <2>3, Zenon DEF SlotsFitCursor
  <2> QED BY <2>3, <2>4
<1>5. (r + k - UnitCursorMod) % SlotCount = (r + k) % SlotCount
  <2>1. (r + k + SlotCount * (-m)) % SlotCount = (r + k) % SlotCount
    <3>1. r + k \in Int /\ SlotCount \in Nat \ {0} /\ -m \in Int
      BY <1>1
    <3> QED BY <3>1, ModShift, Zenon
  <2>2. r + k - UnitCursorMod = r + k + SlotCount * (-m)
    BY <1>1, <1>4
  <2> QED BY <2>1, <2>2, Zenon
<1>6. SlotOf((r + k) % UnitCursorMod) = (r + k) % SlotCount
  BY <1>5, LapFacts, Zenon DEF SlotOf
<1> QED BY <1>2, <1>3, <1>6, Zenon

\* The slots behind the owner's are distinct for one lap.
LEMMA UnitAtFacts ==
    ASSUME SlotsFitCursor, UnitTypeOK
    PROVE  /\ \A k \in 0 .. SlotCount : UnitAt(k) \in 0 .. SlotCount - 1
           /\ \A j, k \in 0 .. SlotCount - 1 : UnitAt(j) = UnitAt(k) => j = k
           /\ \A j \in 1 .. SlotCount - 1 : UnitAt(j) # SlotOf(read_cursor)
           /\ UnitAt(0) = SlotOf(read_cursor)
<1>1. SlotCount \in Nat \ {0, 1} /\ read_cursor \in 0 .. UnitCursorMod - 1
  BY SlotCountAssumption, Zenon DEF UnitTypeOK
<1>2. PICK s \in 0 .. SlotCount - 1 : s = SlotOf(read_cursor)
  BY <1>1, SlotLap
<1>3. \A k \in 0 .. SlotCount : UnitAt(k) = IF s + k < SlotCount THEN s + k ELSE s + k - SlotCount
  BY <1>1, <1>2, SlotLap, Zenon DEF UnitAt
<1> QED BY <1>1, <1>2, <1>3

LEMMA UnitInitInv == UnitInit => UnitInv
<1> SUFFICES ASSUME UnitInit PROVE UnitInv
  BY Zenon
<1>1. 0 \in 0 .. UnitCursorMod - 1 /\ SlotCount \in Nat
  BY SlotCountAssumption
<1>2. UnitTypeOK
  <2>1. units \in [0 .. SlotCount - 1 -> Unit \cup {Filling}] /\ backlog \in Seq(Unit)
    BY EmptySeq, Zenon DEF UnitInit
  <2> QED BY <1>1, <2>1, Zenon DEF UnitInit, UnitTypeOK
<1>3. (0 + 0) % UnitCursorMod = 0
  BY SlotCountAssumption
<1> QED BY <1>1, <1>2, <1>3 DEF UnitInit, UnitInv

LEMMA UnitClaimInv == SlotsFitCursor /\ UnitInv /\ UnitClaim => UnitInv'
<1> SUFFICES ASSUME SlotsFitCursor, UnitInv, UnitClaim PROVE UnitInv'
  BY Zenon
<1>1. /\ Len(backlog) \in Nat /\ Len(backlog) <= SlotCount /\ SlotCount \in Nat
      /\ read_cursor \in 0 .. UnitCursorMod - 1 /\ write_cursor \in 0 .. UnitCursorMod - 1
      /\ write_cursor = (read_cursor + Len(backlog)) % UnitCursorMod
  BY SlotCountAssumption, LenProperties, Zenon DEF UnitInv, UnitTypeOK
<1>2. Len(backlog) < SlotCount
  <2>1. Len(backlog) \in 0 .. SlotCount
    BY <1>1
  <2>2. UnitsHeld(write_cursor, read_cursor) = Len(backlog)
    BY <1>1, <2>1, LapFacts, Zenon
  <2> QED BY <2>2, Zenon DEF UnitClaim
<1>3. SlotOf(write_cursor) = UnitAt(Len(backlog))
  BY <1>1, Zenon DEF UnitAt
<1>4. /\ units' = [units EXCEPT ![SlotOf(write_cursor)] = Filling]
      /\ claim' = [active |-> TRUE, cursor |-> write_cursor]
      /\ UNCHANGED <<write_cursor, read_cursor, lease, backlog>>
  BY Zenon DEF UnitClaim
<1>5. UnitTypeOK'
  BY <1>1, <1>4, Zenon DEF UnitInv, UnitTypeOK
<1>6. ASSUME NEW k \in 1 .. Len(backlog) PROVE units'[UnitAt(k - 1)] = units[UnitAt(k - 1)]
  <2>1. /\ k - 1 \in 0 .. SlotCount - 1 /\ Len(backlog) \in 0 .. SlotCount - 1
        /\ k - 1 # Len(backlog) /\ k - 1 \in 0 .. SlotCount
    BY <1>1, <1>2
  <2>2. UnitAt(k - 1) # UnitAt(Len(backlog)) /\ UnitAt(k - 1) \in 0 .. SlotCount - 1
    BY <2>1, UnitAtFacts, Zenon DEF UnitInv
  <2> QED BY <1>3, <1>4, <2>2, Zenon DEF UnitInv, UnitTypeOK
<1>7. \A k : UnitAt(k)' = UnitAt(k)
  BY <1>4, Zenon DEF UnitAt
<1> QED BY <1>1, <1>2, <1>4, <1>5, <1>6, <1>7, Zenon DEF UnitInv

LEMMA UnitCommitInv ==
    ASSUME SlotsFitCursor, UnitInv, NEW u \in Unit, UnitCommit(u)
    PROVE  UnitInv'
<1>1. /\ Len(backlog) \in Nat /\ Len(backlog) < SlotCount /\ SlotCount \in Nat
      /\ read_cursor \in 0 .. UnitCursorMod - 1 /\ claim.cursor = write_cursor
      /\ write_cursor = (read_cursor + Len(backlog)) % UnitCursorMod
      /\ backlog \in Seq(Unit) /\ UnitCursorMod \in Nat
  BY SlotCountAssumption, LenProperties, Zenon DEF UnitInv, UnitTypeOK, UnitCommit
<1>2. /\ units' = [units EXCEPT ![SlotOf(claim.cursor)] = u]
      /\ claim' = [claim EXCEPT !.active = FALSE]
      /\ write_cursor' = (claim.cursor + 1) % UnitCursorMod
      /\ backlog' = Append(backlog, u)
      /\ UNCHANGED <<read_cursor, lease>>
  BY Zenon DEF UnitCommit
<1>3. /\ backlog' \in Seq(Unit) /\ Len(backlog') = Len(backlog) + 1
      /\ \A k \in 1 .. Len(backlog) : backlog'[k] = backlog[k]
      /\ backlog'[Len(backlog) + 1] = u
  BY <1>1, <1>2, AppendProperties
<1>4. /\ write_cursor' = (read_cursor + (Len(backlog) + 1)) % UnitCursorMod
      /\ write_cursor' \in 0 .. UnitCursorMod - 1
  <2>1. Len(backlog) \in 0 .. SlotCount /\ Len(backlog) + 1 \in 0 .. SlotCount /\ 1 \in 0 .. SlotCount
        /\ write_cursor \in 0 .. UnitCursorMod - 1
    BY <1>1 DEF UnitInv, UnitTypeOK
  <2>2. /\ write_cursor = IF read_cursor + Len(backlog) < UnitCursorMod THEN read_cursor + Len(backlog)
                            ELSE read_cursor + Len(backlog) - UnitCursorMod
        /\ (write_cursor + 1) % UnitCursorMod = IF write_cursor + 1 < UnitCursorMod THEN write_cursor + 1
                            ELSE write_cursor + 1 - UnitCursorMod
        /\ (write_cursor + 1) % UnitCursorMod \in 0 .. UnitCursorMod - 1
        /\ (read_cursor + (Len(backlog) + 1)) % UnitCursorMod
              = IF read_cursor + (Len(backlog) + 1) < UnitCursorMod THEN read_cursor + (Len(backlog) + 1)
                            ELSE read_cursor + (Len(backlog) + 1) - UnitCursorMod
    BY <1>1, <2>1, LapFacts, ZenonT(60)
  <2>3. write_cursor' = (write_cursor + 1) % UnitCursorMod
    BY <1>1, <1>2, Zenon
  <2>4. SlotCount < UnitCursorMod
    BY SlotCountAssumption, Zenon
  <2>5. PICK w \in Int, w2 \in Int, w3 \in Int, d \in Nat :
          /\ w = write_cursor /\ w2 = (write_cursor + 1) % UnitCursorMod /\ d = Len(backlog)
          /\ w3 = (read_cursor + (Len(backlog) + 1)) % UnitCursorMod
    BY <1>1, <2>1, <2>2
  <2>6. /\ w = IF read_cursor + d < UnitCursorMod THEN read_cursor + d ELSE read_cursor + d - UnitCursorMod
        /\ w2 = IF w + 1 < UnitCursorMod THEN w + 1 ELSE w + 1 - UnitCursorMod
        /\ w3 = IF read_cursor + (d + 1) < UnitCursorMod THEN read_cursor + (d + 1)
                ELSE read_cursor + (d + 1) - UnitCursorMod
    BY <2>2, <2>5, Zenon
  <2>7. read_cursor \in 0 .. UnitCursorMod - 1 /\ d + 1 <= SlotCount
        /\ SlotCount \in Nat /\ UnitCursorMod \in Nat
    BY <1>1, <2>1, <2>5
  <2>8. w2 = w3
    BY <2>4, <2>6, <2>7
  <2> QED BY <2>2, <2>3, <2>5, <2>8, Zenon
<1>5. SlotOf(claim.cursor) = UnitAt(Len(backlog))
  BY <1>1, Zenon DEF UnitAt
<1>6. UnitTypeOK'
  BY <1>2, <1>3, <1>4, Zenon DEF UnitInv, UnitTypeOK
<1>7. ASSUME NEW k \in 1 .. Len(backlog) + 1 PROVE units'[UnitAt(k - 1)] = backlog'[k]
  <2>1. /\ k - 1 \in 0 .. SlotCount - 1 /\ Len(backlog) \in 0 .. SlotCount - 1
        /\ k - 1 \in 0 .. SlotCount
    BY <1>1
  <2>2. UnitAt(k - 1) \in 0 .. SlotCount - 1
    BY <2>1, UnitAtFacts, Zenon DEF UnitInv
  <2>3. CASE k = Len(backlog) + 1
    <3>1. k - 1 = Len(backlog)
      BY <1>1, <2>3
    <3> QED BY <1>2, <1>3, <1>5, <2>2, <2>3, <3>1, ZenonT(60) DEF UnitInv, UnitTypeOK
  <2>4. CASE k \in 1 .. Len(backlog)
    <3>1. k - 1 # Len(backlog)
      BY <1>1, <2>4
    <3>2. UnitAt(k - 1) # UnitAt(Len(backlog))
      BY <2>1, <3>1, UnitAtFacts, Zenon DEF UnitInv
    <3>3. units[UnitAt(k - 1)] = backlog[k]
      BY <2>4, Zenon DEF UnitInv
    <3> QED BY <1>2, <1>3, <1>5, <2>2, <2>4, <3>2, <3>3, ZenonT(60) DEF UnitInv, UnitTypeOK
  <2> QED BY <1>1, <2>3, <2>4
<1>8. \A k : UnitAt(k)' = UnitAt(k)
  BY <1>2, Zenon DEF UnitAt
<1>9. ~claim'.active
  BY <1>2, Zenon DEF UnitInv, UnitTypeOK
<1>10. Len(backlog') <= SlotCount /\ Len(backlog') > 0
  BY <1>1, <1>3
<1> QED BY <1>2, <1>3, <1>4, <1>6, <1>7, <1>8, <1>9, <1>10, Zenon DEF UnitInv

LEMMA UnitAbortInv == UnitInv /\ UnitAbort => UnitInv'
<1> SUFFICES ASSUME UnitInv, UnitAbort PROVE UnitInv'
  BY Zenon
<1>1. UnitTypeOK' /\ ~claim'.active
  BY Zenon DEF UnitInv, UnitTypeOK, UnitAbort
<1>2. \A k : UnitAt(k)' = UnitAt(k)
  BY Zenon DEF UnitAt, UnitAbort
<1> QED BY <1>1, <1>2, Zenon DEF UnitInv, UnitAbort

LEMMA UnitPeekInv == UnitInv /\ UnitPeek => UnitInv'
<1> SUFFICES ASSUME UnitInv, UnitPeek PROVE UnitInv'
  BY Zenon
<1>1. UnitTypeOK'
  BY Zenon DEF UnitInv, UnitTypeOK, UnitPeek
<1>2. \A k : UnitAt(k)' = UnitAt(k)
  BY Zenon DEF UnitAt, UnitPeek
<1>3. Len(backlog) > 0
  <2>1. Len(backlog) \in Nat /\ read_cursor \in 0 .. UnitCursorMod - 1
    BY LenProperties, Zenon DEF UnitInv, UnitTypeOK
  <2>2. (read_cursor + 0) % UnitCursorMod = read_cursor
    BY <2>1, SlotCountAssumption
  <2>3. Len(backlog) # 0
    BY <2>2, Zenon DEF UnitInv, UnitPeek
  <2> QED BY <2>1, <2>3
<1> QED BY <1>1, <1>2, <1>3, Zenon DEF UnitInv, UnitPeek

LEMMA UnitConsumeInv == SlotsFitCursor /\ UnitInv /\ UnitConsume => UnitInv'
<1> SUFFICES ASSUME SlotsFitCursor, UnitInv, UnitConsume PROVE UnitInv'
  BY Zenon
<1>1. PICK d \in Nat : /\ d = Len(backlog) /\ 0 < d /\ d <= SlotCount
                       /\ backlog \in Seq(Unit) /\ backlog # <<>>
  BY SlotCountAssumption, LenProperties DEF UnitInv, UnitTypeOK, UnitConsume
<1>2. /\ read_cursor \in 0 .. UnitCursorMod - 1
      /\ SlotCount \in Nat \ {0, 1} /\ UnitCursorMod \in Nat /\ SlotCount < UnitCursorMod
  BY SlotCountAssumption, Zenon DEF UnitInv, UnitTypeOK
<1>3. /\ units' = [units EXCEPT ![SlotOf(read_cursor)] = Filling]
      /\ read_cursor' = (read_cursor + 1) % UnitCursorMod
      /\ lease' = FALSE /\ backlog' = Tail(backlog) /\ UNCHANGED <<write_cursor, claim>>
  BY Zenon DEF UnitConsume
<1>4. /\ backlog' \in Seq(Unit) /\ Len(backlog') = d - 1
      /\ \A k \in 1 .. d - 1 : backlog'[k] = backlog[k + 1]
  BY <1>1, <1>3, HeadTailProperties, ZenonT(60)
<1>5. PICK r2 \in 0 .. UnitCursorMod - 1 : /\ r2 = read_cursor'
        /\ r2 = IF read_cursor + 1 < UnitCursorMod THEN read_cursor + 1
                ELSE read_cursor + 1 - UnitCursorMod
  <2>1. 1 \in 0 .. SlotCount
    BY <1>2
  <2> QED BY <1>2, <1>3, <2>1, LapFacts, Zenon
<1>6. ASSUME NEW k \in 0 .. SlotCount - 1
      PROVE  (r2 + k) % UnitCursorMod = (read_cursor + (k + 1)) % UnitCursorMod
  <2>1. k \in 0 .. SlotCount /\ k + 1 \in 0 .. SlotCount
    BY <1>2
  <2>2. /\ (r2 + k) % UnitCursorMod
              = IF r2 + k < UnitCursorMod THEN r2 + k ELSE r2 + k - UnitCursorMod
        /\ (read_cursor + (k + 1)) % UnitCursorMod
              = IF read_cursor + (k + 1) < UnitCursorMod THEN read_cursor + (k + 1)
                ELSE read_cursor + (k + 1) - UnitCursorMod
    BY <1>2, <1>5, <2>1, LapFacts, Zenon
  <2>3. PICK x \in Int, y \in Int : /\ x = (r2 + k) % UnitCursorMod
                                    /\ y = (read_cursor + (k + 1)) % UnitCursorMod
    BY <1>2, <1>5, <2>2
  <2>4. /\ x = IF r2 + k < UnitCursorMod THEN r2 + k ELSE r2 + k - UnitCursorMod
        /\ y = IF read_cursor + (k + 1) < UnitCursorMod THEN read_cursor + (k + 1)
               ELSE read_cursor + (k + 1) - UnitCursorMod
    BY <2>2, <2>3, Zenon
  <2>5. x = y
    BY <1>2, <1>5, <2>4
  <2> QED BY <2>3, <2>5, Zenon
<1>7. UnitTypeOK'
  BY <1>3, <1>4, <1>5, Zenon DEF UnitInv, UnitTypeOK
<1>8. write_cursor' = (read_cursor' + Len(backlog')) % UnitCursorMod
  <2>1. d - 1 \in 0 .. SlotCount - 1 /\ (d - 1) + 1 = d
    BY <1>1, <1>2
  <2>2. (r2 + (d - 1)) % UnitCursorMod = (read_cursor + d) % UnitCursorMod
    BY <1>6, <2>1, Zenon
  <2>3. write_cursor = (read_cursor + d) % UnitCursorMod
    BY <1>1, Zenon DEF UnitInv
  <2> QED BY <1>3, <1>4, <1>5, <2>2, <2>3, Zenon
<1>9. ASSUME NEW k \in 1 .. d - 1 PROVE units'[UnitAt(k - 1)'] = backlog'[k]
  <2>1. k - 1 \in 0 .. SlotCount - 1 /\ (k - 1) + 1 = k /\ k \in 1 .. SlotCount - 1
        /\ k \in 0 .. SlotCount /\ k + 1 \in 1 .. d /\ (k + 1) - 1 = k
    BY <1>1, <1>2
  <2>2. UnitAt(k - 1)' = UnitAt(k)
    BY <1>5, <1>6, <2>1, ZenonT(60) DEF UnitAt
  <2>3. UnitAt(k) # SlotOf(read_cursor) /\ UnitAt(k) \in 0 .. SlotCount - 1
    BY <2>1, UnitAtFacts, Zenon DEF UnitInv
  <2>4. units[UnitAt(k)] = backlog[k + 1]
    BY <1>1, <2>1, Zenon DEF UnitInv
  <2> QED BY <1>3, <1>4, <2>2, <2>3, <2>4, ZenonT(60) DEF UnitInv, UnitTypeOK
<1>10. Len(backlog') <= SlotCount /\ (Len(backlog) < SlotCount => Len(backlog') < SlotCount)
  BY <1>1, <1>2, <1>4
<1> QED BY <1>3, <1>4, <1>7, <1>8, <1>9, <1>10, ZenonT(60) DEF UnitInv

LEMMA UnitNextInv == SlotsFitCursor /\ UnitInv /\ [UnitNext]_unitVars => UnitInv'
<1> SUFFICES ASSUME SlotsFitCursor, UnitInv, [UnitNext]_unitVars PROVE UnitInv'
  BY Zenon
<1>1. CASE UNCHANGED unitVars
  BY <1>1, Zenon DEF unitVars, UnitInv, UnitTypeOK, UnitAt
<1>2. CASE UnitNext
  BY <1>2, UnitClaimInv, UnitCommitInv, UnitAbortInv, UnitPeekInv, UnitConsumeInv, ZenonT(60) DEF UnitNext
<1> QED BY <1>1, <1>2, Zenon

\* The queue of received units never loses, repeats, reorders or tears a unit, for every
\* slot count that divides the range of the cursors: wl_rx_unit_claim's test against a
\* full queue keeps the producer out of every slot that still holds a unit.
THEOREM UnitsStayInOrder == ASSUME SlotsFitCursor PROVE UnitSpec => []UnitsInOrder
<1>1. UnitInv => UnitsInOrder
  <2> SUFFICES ASSUME UnitInv PROVE UnitsInOrder
    BY Zenon
  <2>1. Len(backlog) \in 0 .. SlotCount /\ read_cursor \in 0 .. UnitCursorMod - 1
    BY LenProperties, SlotCountAssumption DEF UnitInv, UnitTypeOK
  <2>2. UnitsHeld(write_cursor, read_cursor) = Len(backlog)
    BY <2>1, LapFacts, Zenon DEF UnitInv
  <2>3. ASSUME NEW k \in 1 .. Len(backlog)
        PROVE  units[SlotOf((read_cursor + k - 1) % UnitCursorMod)] = backlog[k]
    <3>1. read_cursor + k - 1 = read_cursor + (k - 1)
      BY <2>1, SlotCountAssumption, Zenon
    <3>2. units[UnitAt(k - 1)] = backlog[k]
      BY Zenon DEF UnitInv
    <3> QED BY <3>1, <3>2, Zenon DEF UnitAt
  <2> QED BY <2>2, <2>3, Zenon DEF UnitsInOrder
<1> QED BY <1>1, UnitInitInv, UnitNextInv, PTL DEF UnitSpec

\* Under the same condition, the producer never fills the slot that an event borrows.
THEOREM LentSlotIsKept == ASSUME SlotsFitCursor PROVE UnitSpec => []LentSlotKept
<1>1. SlotsFitCursor /\ UnitInv => LentSlotKept
  <2> SUFFICES ASSUME SlotsFitCursor, UnitInv, lease, claim.active
               PROVE  SlotOf(claim.cursor) # SlotOf(read_cursor)
    BY Zenon DEF LentSlotKept
  <2>1. Len(backlog) \in 1 .. SlotCount - 1
    BY LenProperties, SlotCountAssumption DEF UnitInv, UnitTypeOK
  <2>2. SlotOf(claim.cursor) = UnitAt(Len(backlog))
    BY Zenon DEF UnitInv, UnitAt
  <2> QED BY <2>1, <2>2, UnitAtFacts, Zenon DEF UnitInv
<1> QED BY <1>1, UnitInitInv, UnitNextInv, PTL DEF UnitSpec

-----------------------------------------------------------------------------
(* The byte ring *)

RingTypeOK ==
    /\ ring \in [0 .. RingCap - 1 -> RingByte]
    /\ rd \in 0 .. Period - 1 /\ wr \in 0 .. Period - 1 /\ overflow_events \in Nat
    /\ prod \in [kind : {"none", "reserve", "dma", "normalize"}, cursor : 0 .. Period - 1,
                 length : 0 .. RingCap, published : 0 .. RingCap, filled : 0 .. RingCap]
    /\ cons \in [pc : {"idle", "w", "r", "do", "parse", "lent"},
                 op : {"none", "readable", "find", "peek", "copy", "consume"},
                 w : 0 .. Period - 1, r : 0 .. Period - 1, n : 0 .. RingCap, want : Nat, off : Nat,
                 next : {"idle", "find"}, frame : Seq(RingByte), drop : BOOLEAN]
    /\ cache \in [valid : BOOLEAN, read : 0 .. Period - 1, scanned : Nat, offset : Nat,
                  found : BOOLEAN]
    /\ stream \in Seq(RingByte)

\* What the cursors show is the stream; while a claim moves them to offset zero of the
\* other epoch they show nothing.
CursorsShow ==
    IF prod.kind = "normalize"
    THEN /\ stream = <<>> /\ overflow_events = 0
         /\ rd = prod.cursor /\ Distance(rd, wr) > RingCap
         /\ Physical(rd) = 0 /\ prod.published = 0 /\ prod.filled = 0
    ELSE /\ Distance(rd, wr) = Len(stream) /\ Len(stream) <= RingCap
         /\ \A k \in 1 .. Len(stream) : stream[k] = ring[Physical(Advance(rd, k - 1))]

\* An open span lies behind the stream and fits into what is free.
SpanIsFree ==
    prod.kind \in {"reserve", "dma"} =>
        /\ wr = Advance(prod.cursor, prod.published)
        /\ prod.kind = "reserve" => prod.published = 0
        /\ prod.published <= prod.filled /\ prod.filled <= prod.length
        /\ Len(stream) + (prod.length - prod.published) <= RingCap

\* A frame of off bytes without its delimiter is the oldest of the stream.
OldestFrame(off) ==
    /\ off \in 1 .. Len(stream) - 1 /\ stream[off + 1] = 0
    /\ \A k \in 1 .. off : stream[k] # 0

\* The owner's snapshot is good, or shows nothing: a claim has normalized since.
SnapshotGood ==
    /\ cons.pc = "r" => \/ Distance(rd, cons.w) <= Len(stream)
                        \/ Distance(rd, cons.w) > RingCap /\ Physical(rd) = 0
    /\ cons.pc = "do" => \/ cons.r = rd /\ cons.n <= Len(stream)
                         \/ cons.n = 0 /\ ~cons.drop

\* Which calls discard, and what the calls in between carry from one to the next.
CallGood ==
    /\ cons.pc = "idle" => ~cons.drop
    /\ cons.drop => cons.op \in {"readable", "consume"}
    /\ cons.op = "readable" => cons.drop
    /\ cons.op = "consume" => cons.drop \/ cons.want >= 1
    /\ cons.pc \in {"parse", "lent"} => cons.op \in {"peek", "copy"}
    /\ cons.op \in {"peek", "copy"} => OldestFrame(cons.off)
    /\ cons.pc = "parse" => cons.frame = SubSeq(stream, 1, cons.off)

\* The cache is about the oldest bytes of the stream, or about none.
CacheGood ==
    cache.valid =>
        \/ cache.scanned = 0 /\ ~cache.found
        \/ /\ cache.read = rd /\ cache.scanned <= Len(stream)
           /\ IF cache.found
              THEN /\ cache.offset < cache.scanned /\ stream[cache.offset + 1] = 0
                   /\ \A k \in 1 .. cache.offset : stream[k] # 0
              ELSE \A k \in 1 .. cache.scanned : stream[k] # 0

RingInv == RingTypeOK /\ CursorsShow /\ SpanIsFree /\ SnapshotGood /\ CallGood /\ CacheGood

\* Arithmetic of the cursors, which count two laps of the storage.
LEMMA AdvanceFacts ==
    ASSUME NEW c \in 0 .. Period - 1
    PROVE  /\ RingCap \in Nat \ {0} /\ Period \in Nat
           /\ \A k \in 0 .. Period - 1 : /\ Advance(c, k) \in 0 .. Period - 1
                                         /\ Distance(c, Advance(c, k)) = k
                                         /\ Physical(Advance(c, k)) \in 0 .. RingCap - 1
           /\ Advance(c, 0) = c
           /\ Physical(c) \in 0 .. RingCap - 1
<1>1. RingCap \in Nat \ {0}
  BY RingAssumption, Zenon
<1> QED BY <1>1 DEF Period, Advance, Distance, Physical

LEMMA AdvanceTwice ==
    ASSUME NEW c \in 0 .. Period - 1, NEW a \in Nat, NEW b \in Nat, a + b < Period
    PROVE  Advance(Advance(c, a), b) = Advance(c, a + b)
<1>1. RingCap \in Nat \ {0}
  BY RingAssumption, Zenon
<1> QED BY <1>1 DEF Period, Advance

LEMMA DistanceFacts ==
    ASSUME NEW c \in 0 .. Period - 1, NEW d \in 0 .. Period - 1
    PROVE  /\ Distance(c, d) \in 0 .. Period - 1 /\ Advance(c, Distance(c, d)) = d
           /\ Distance(c, d) = 0 <=> c = d
<1>1. RingCap \in Nat \ {0}
  BY RingAssumption, Zenon
<1> QED BY <1>1 DEF Period, Advance, Distance

LEMMA DistanceShrinks ==
    ASSUME NEW c \in 0 .. Period - 1, NEW d \in 0 .. Period - 1, NEW k \in 0 .. Distance(c, d)
    PROVE  Distance(Advance(c, k), d) = Distance(c, d) - k
<1>1. RingCap \in Nat \ {0}
  BY RingAssumption, Zenon
<1> QED BY <1>1 DEF Period, Advance, Distance

\* One lap meets no slot of the storage twice.
LEMMA PhysicalDistinct ==
    ASSUME NEW c \in 0 .. Period - 1, NEW j \in 0 .. RingCap - 1, NEW k \in 0 .. RingCap - 1,
           Physical(Advance(c, j)) = Physical(Advance(c, k))
    PROVE  j = k
<1>1. RingCap \in Nat \ {0}
  BY RingAssumption, Zenon
<1> QED BY <1>1 DEF Period, Advance, Physical

LEMMA RingTypes ==
    ASSUME RingTypeOK
    PROVE  /\ RingCap \in Nat \ {0} /\ Period \in Nat /\ Period = 2 * RingCap
           /\ rd \in 0 .. Period - 1 /\ wr \in 0 .. Period - 1
           /\ Len(stream) \in Nat /\ stream \in Seq(RingByte)
           /\ prod.cursor \in 0 .. Period - 1 /\ prod.length \in 0 .. RingCap
           /\ prod.published \in 0 .. RingCap /\ prod.filled \in 0 .. RingCap
           /\ cons.w \in 0 .. Period - 1 /\ cons.r \in 0 .. Period - 1 /\ cons.n \in 0 .. RingCap
           /\ cons.want \in Nat /\ cons.off \in Nat /\ cons.drop \in BOOLEAN
           /\ cons.pc \in {"idle", "w", "r", "do", "parse", "lent"}
           /\ cons.op \in {"none", "readable", "find", "peek", "copy", "consume"}
           /\ cache.read \in 0 .. Period - 1 /\ cache.scanned \in Nat /\ cache.offset \in Nat
           /\ cache.found \in BOOLEAN /\ cache.valid \in BOOLEAN
           /\ \A k \in 1 .. Len(stream) : stream[k] \in RingByte
<1>1. RingCap \in Nat \ {0} /\ Period \in Nat /\ Period = 2 * RingCap
  BY RingAssumption DEF Period
<1> QED BY <1>1, LenProperties, ElementOfSeq, ZenonT(60) DEF RingTypeOK

LEMMA RingInitInv == RingInit => RingInv
<1> SUFFICES ASSUME RingInit PROVE RingInv
  BY Zenon
<1>1. /\ 0 \in 0 .. Period - 1 /\ 0 \in 0 .. RingCap /\ RingCap \in Nat \ {0} /\ 0 \in Nat
      /\ <<>> \in Seq(RingByte) /\ Len(<<>>) = 0
  BY RingAssumption, EmptySeq DEF Period
<1>2. RingTypeOK
  BY <1>1, RingAssumption, ZenonT(60) DEF RingInit, RingTypeOK, NoClaim, Idle, NoCache
<1>3. Distance(rd, wr) = 0
  BY DEF RingInit, Distance
<1> QED BY <1>1, <1>2, <1>3 DEF RingInit, RingInv, CursorsShow, SpanIsFree, SnapshotGood, CallGood,
                                CacheGood, NoClaim, Idle, NoCache

\* A step of the producer that only adds to the stream leaves the owner's knowledge valid.
LEMMA StreamGrows ==
    ASSUME RingInv, UNCHANGED <<rd, cons, cache>>, RingTypeOK',
           Len(stream) <= Len(stream'), \A k \in 1 .. Len(stream) : stream'[k] = stream[k]
    PROVE  SnapshotGood' /\ CallGood' /\ CacheGood'
<1>1. /\ Len(stream) \in Nat /\ Len(stream') \in Nat /\ cons.off \in Nat /\ cons.n \in Nat
      /\ cache.offset \in Nat /\ cache.scanned \in Nat /\ stream \in Seq(RingByte)
      /\ stream' \in Seq(RingByte)
  BY LenProperties DEF RingInv, RingTypeOK
<1>2. ASSUME NEW off \in Nat, OldestFrame(off)
      PROVE  OldestFrame(off)' /\ SubSeq(stream', 1, off) = SubSeq(stream, 1, off)
  <2>1. OldestFrame(off)'
    BY <1>1, <1>2 DEF OldestFrame
  <2>2. \A k \in 1 .. off : stream[k] \in RingByte /\ stream'[k] = stream[k]
    BY <1>1, <1>2, ElementOfSeq DEF OldestFrame
  <2>3. SubSeq(stream', 1, off) = SubSeq(stream, 1, off)
    BY <1>1, <2>2, SubSeqProperties, SeqEqual
  <2> QED BY <2>1, <2>3, Zenon
<1>3. CallGood'
  BY <1>1, <1>2, Zenon DEF RingInv, CallGood
<1>4. SnapshotGood'
  <2>1. Distance(rd, cons.w) \in Int
    <3>1. rd \in 0 .. Period - 1 /\ cons.w \in 0 .. Period - 1 /\ Period \in Nat
      BY RingTypes, Zenon DEF RingInv
    <3>2. Distance(rd, cons.w) \in 0 .. Period - 1
      BY <3>1, DistanceFacts, Zenon
    <3> QED BY <3>1, <3>2
  <2> QED BY <1>1, <2>1 DEF RingInv, SnapshotGood
<1>5. CacheGood'
  <2> SUFFICES ASSUME cache.valid, ~(cache.scanned = 0 /\ ~cache.found) PROVE CacheGood'
    BY Zenon DEF CacheGood
  <2>1. /\ cache.read = rd /\ cache.scanned <= Len(stream)
        /\ IF cache.found
           THEN /\ cache.offset < cache.scanned /\ stream[cache.offset + 1] = 0
                /\ \A k \in 1 .. cache.offset : stream[k] # 0
           ELSE \A k \in 1 .. cache.scanned : stream[k] # 0
    BY Zenon DEF RingInv, CacheGood
  <2>2. cache.found => stream'[cache.offset + 1] = 0 /\ \A k \in 1 .. cache.offset : stream'[k] # 0
    <3> SUFFICES ASSUME cache.found
                 PROVE  stream'[cache.offset + 1] = 0 /\ \A k \in 1 .. cache.offset : stream'[k] # 0
      BY Zenon
    <3>1. cache.offset + 1 \in 1 .. Len(stream) /\ 1 .. cache.offset \subseteq 1 .. Len(stream)
      BY <1>1, <2>1
    <3> QED BY <2>1, <3>1, Zenon
  <2>3. ~cache.found => \A k \in 1 .. cache.scanned : stream'[k] # 0
    BY <1>1, <2>1
  <2>4. cache.scanned <= Len(stream')
    BY <1>1, <2>1
  <2> QED BY <2>1, <2>2, <2>3, <2>4, ZenonT(60) DEF CacheGood
<1> QED BY <1>3, <1>4, <1>5, ZenonT(60)

LEMMA ReserveInv == RingInv /\ Reserve => RingInv'
<1> SUFFICES ASSUME RingInv, Reserve PROVE RingInv'
  BY Zenon
<1>1. /\ prod.kind = "none" /\ prod' = Claimed("reserve", wr, Contiguous(wr, Free))
      /\ UNCHANGED <<ring, rd, wr, overflow_events, cons, cache, stream>>
  BY Zenon DEF Reserve
<1>2. /\ Distance(rd, wr) = Len(stream) /\ Len(stream) <= RingCap /\ Len(stream) \in Nat
      /\ RingCap \in Nat \ {0} /\ Physical(wr) \in 0 .. RingCap - 1
      /\ wr \in 0 .. Period - 1
  BY <1>1, RingTypes, AdvanceFacts, Zenon DEF RingInv, CursorsShow
<1>3. Contiguous(wr, Free) \in 0 .. RingCap /\ Len(stream) + Contiguous(wr, Free) <= RingCap
  BY <1>2 DEF Contiguous, Free, MinOf
<1>4. RingTypeOK'
  BY <1>1, <1>2, <1>3 DEF RingInv, RingTypeOK, Claimed
<1>5. CursorsShow'
  BY <1>1, Zenon DEF RingInv, CursorsShow, Claimed
<1>6. SpanIsFree'
  BY <1>1, <1>2, <1>3, AdvanceFacts DEF SpanIsFree, Claimed
<1>7. SnapshotGood' /\ CallGood' /\ CacheGood'
  BY <1>1, <1>2, <1>4, StreamGrows
<1> QED BY <1>4, <1>5, <1>6, <1>7, ZenonT(60) DEF RingInv

\* The place of a published byte differs from the place of the next one, in numbers alone.
LEMMA IndexArith ==
    ASSUME NEW cap \in Nat \ {0}, NEW lap, lap = 2 * cap, NEW n \in Nat, NEW d \in Nat, n + d < cap,
           NEW k \in 1 .. n
    PROVE  /\ k - 1 \in 0 .. cap - 1 /\ n + d \in 0 .. cap - 1
           /\ k - 1 # n + d /\ k - 1 \in 0 .. lap - 1
OBVIOUS

LEMMA FillInv ==
    ASSUME RingInv, NEW b \in RingByte, Fill(b)
    PROVE  RingInv'
<1>1. /\ prod.kind \in {"reserve", "dma"} /\ prod.filled < prod.length
      /\ ring' = [ring EXCEPT ![Physical(Advance(prod.cursor, prod.filled))] = b]
      /\ prod' = [prod EXCEPT !.filled = @ + 1]
      /\ UNCHANGED <<rd, wr, overflow_events, cons, cache, stream>>
  BY Zenon DEF Fill
<1>2. /\ RingCap \in Nat \ {0} /\ Len(stream) \in Nat
      /\ prod.length \in 0 .. RingCap /\ prod.published \in 0 .. RingCap
      /\ prod.filled \in 0 .. RingCap /\ rd \in 0 .. Period - 1 /\ prod.cursor \in 0 .. Period - 1
      /\ wr \in 0 .. Period - 1 /\ Period = 2 * RingCap
  BY RingTypes, Zenon DEF RingInv
<1>3. /\ Distance(rd, wr) = Len(stream) /\ Len(stream) <= RingCap
      /\ wr = Advance(prod.cursor, prod.published) /\ prod.published <= prod.filled
      /\ Len(stream) + (prod.length - prod.published) <= RingCap
  BY <1>1, Zenon DEF RingInv, CursorsShow, SpanIsFree
<1>4. PICK d \in Nat : /\ prod.published + d = prod.filled /\ prod.published + d < Period
                       /\ prod.published \in Nat
                       /\ Len(stream) + d < RingCap /\ prod.filled + 1 \in 0 .. RingCap
                       /\ prod.published <= prod.filled + 1 /\ prod.filled + 1 <= prod.length
  <2>1. prod.filled < prod.length /\ prod.published <= prod.filled
        /\ Len(stream) + (prod.length - prod.published) <= RingCap
    BY <1>1, <1>3, Zenon
  <2>2. PICK c \in Nat, n \in Nat, l \in Nat, q \in Nat, f \in Nat :
          c = RingCap /\ n = Len(stream) /\ l = prod.length /\ q = prod.published /\ f = prod.filled
    <3>1. RingCap \in Nat /\ Len(stream) \in Nat /\ prod.length \in Nat /\ prod.published \in Nat
          /\ prod.filled \in Nat
      BY <1>2
    <3> QED BY <3>1, Zenon
  <2>3. f < l /\ q <= f /\ n + (l - q) <= c /\ Period = 2 * c /\ l \in 0 .. c
    BY <1>2, <2>1, <2>2, Zenon
  <2>4. f - q \in Nat /\ q + (f - q) = f /\ q + (f - q) < 2 * c /\ n + (f - q) < c
        /\ f + 1 \in 0 .. c /\ q <= f + 1 /\ f + 1 <= l
    BY <2>3
  <2> QED BY <2>2, <2>3, <2>4, Zenon
<1>5. Advance(prod.cursor, prod.filled) = Advance(rd, Len(stream) + d)
  <2>1. Advance(wr, d) = Advance(prod.cursor, prod.filled)
    <3>1. Advance(Advance(prod.cursor, prod.published), d) = Advance(prod.cursor, prod.published + d)
      BY <1>2, <1>4, AdvanceTwice, Zenon
    <3> QED BY <1>3, <1>4, <3>1, Zenon
  <2>2. wr = Advance(rd, Len(stream))
    BY <1>2, <1>3, DistanceFacts
  <2>3. Advance(Advance(rd, Len(stream)), d) = Advance(rd, Len(stream) + d)
    BY <1>2, <1>4, AdvanceTwice
  <2> QED BY <2>1, <2>2, <2>3, Zenon
<1>6. ASSUME NEW k \in 1 .. Len(stream)
      PROVE  ring'[Physical(Advance(rd, k - 1))] = ring[Physical(Advance(rd, k - 1))]
  <2>1. /\ k - 1 \in 0 .. RingCap - 1 /\ Len(stream) + d \in 0 .. RingCap - 1
        /\ k - 1 # Len(stream) + d /\ k - 1 \in 0 .. Period - 1
    BY <1>2, <1>4, IndexArith, Zenon
  <2>2. Physical(Advance(rd, k - 1)) # Physical(Advance(rd, Len(stream) + d))
    BY <1>2, <2>1, PhysicalDistinct, ZenonT(60)
  <2>3. Physical(Advance(rd, k - 1)) \in 0 .. RingCap - 1
    BY <1>2, <2>1, AdvanceFacts, ZenonT(60)
  <2> QED BY <1>1, <1>5, <2>2, <2>3 DEF RingInv, RingTypeOK
<1>7. RingTypeOK'
  BY <1>1, <1>2, <1>4, ZenonT(60) DEF RingInv, RingTypeOK
<1>8. /\ prod'.kind = prod.kind /\ prod'.cursor = prod.cursor /\ prod'.length = prod.length
      /\ prod'.published = prod.published /\ prod'.filled = prod.filled + 1
  BY <1>1, Zenon DEF RingInv, RingTypeOK
<1>9. CursorsShow'
  BY <1>1, <1>6, <1>8, ZenonT(60) DEF RingInv, CursorsShow
<1>10. SpanIsFree'
  BY <1>1, <1>4, <1>8, ZenonT(60) DEF RingInv, SpanIsFree
<1>11. SnapshotGood' /\ CallGood' /\ CacheGood'
  BY <1>1, <1>2, <1>7, StreamGrows
<1> QED BY <1>7, <1>9, <1>10, <1>11, ZenonT(60) DEF RingInv

LEMMA WindowType ==
    ASSUME RingTypeOK, NEW c \in 0 .. Period - 1, NEW len \in 0 .. RingCap
    PROVE  Window(c, len) \in Seq(RingByte) /\ Len(Window(c, len)) = len
<1>1. RingCap \in Nat \ {0} /\ Period = 2 * RingCap
  BY RingTypes, Zenon
<1>2. ASSUME NEW k \in 1 .. len PROVE ring[Physical(Advance(c, k - 1))] \in RingByte
  <2>1. k - 1 \in 0 .. Period - 1
    BY <1>1
  <2>2. Physical(Advance(c, k - 1)) \in 0 .. RingCap - 1
    BY <2>1, AdvanceFacts, ZenonT(60)
  <2> QED BY <2>2, Zenon DEF RingTypeOK
<1>3. len \in Nat
  BY <1>1
<1> QED BY <1>2, <1>3 DEF Window

\* Publishing len written bytes of the span appends them to the stream.
Publishes(len) ==
    /\ prod.kind \in {"reserve", "dma"} /\ len <= prod.filled - prod.published
    /\ wr' = Advance(wr, len) /\ stream' = stream \o Window(wr, len)
    /\ \/ prod' = NoClaim
       \/ prod.kind = "dma" /\ prod' = [prod EXCEPT !.published = @ + len]
    /\ UNCHANGED <<ring, rd, overflow_events, cons, cache>>

LEMMA PublishInv ==
    ASSUME RingInv, NEW len \in Nat, Publishes(len), RingTypeOK'
    PROVE  RingInv'
<1>0. /\ len <= prod.filled - prod.published
      /\ UNCHANGED <<ring, rd, overflow_events, cons, cache>>
      /\ wr' = Advance(wr, len) /\ stream' = stream \o Window(wr, len)
  BY Zenon DEF Publishes
<1>1. /\ RingCap \in Nat \ {0} /\ Len(stream) \in Nat /\ stream \in Seq(RingByte)
      /\ prod.length \in 0 .. RingCap /\ prod.published \in 0 .. RingCap
      /\ prod.filled \in 0 .. RingCap /\ rd \in 0 .. Period - 1 /\ prod.cursor \in 0 .. Period - 1
      /\ wr \in 0 .. Period - 1 /\ Period = 2 * RingCap
  BY RingTypes, Zenon DEF RingInv
<1>2. /\ Distance(rd, wr) = Len(stream) /\ Len(stream) <= RingCap
      /\ wr = Advance(prod.cursor, prod.published)
      /\ prod.published <= prod.filled /\ prod.filled <= prod.length
      /\ Len(stream) + (prod.length - prod.published) <= RingCap
      /\ \A k \in 1 .. Len(stream) : stream[k] = ring[Physical(Advance(rd, k - 1))]
  BY Zenon DEF RingInv, CursorsShow, SpanIsFree, Publishes
<1>3. Len(stream) + len <= RingCap /\ prod.published + len <= prod.filled /\ len <= RingCap
  <2>1. PICK f \in Nat, q \in Nat, l \in Nat, t \in Nat :
          f = prod.filled /\ q = prod.published /\ l = prod.length /\ t = Len(stream)
    BY <1>1
  <2>2. len <= f - q /\ q <= f /\ f <= l /\ t + (l - q) <= RingCap
    BY <1>0, <1>2, <2>1, Zenon
  <2>3. t + len <= RingCap /\ q + len <= f /\ len <= RingCap
    BY <2>2, RingAssumption
  <2> QED BY <2>1, <2>3, ZenonT(60)
<1>a. /\ prod.published \in Nat /\ prod.published + len < Period
      /\ Len(stream) + len + (prod.length - (prod.published + len)) <= RingCap
      /\ Len(stream) + len \in 0 .. Period - 1 /\ len \in 0 .. len
  <2>0. PICK c \in Nat \ {0} : c = RingCap
    BY <1>1, Zenon
  <2>1. PICK f \in 0 .. c, q \in 0 .. c, l \in 0 .. c, t \in Nat :
          f = prod.filled /\ q = prod.published /\ l = prod.length /\ t = Len(stream)
    BY <1>1, <2>0, Zenon
  <2>2. Period = 2 * c /\ t + len <= c /\ q + len <= f /\ f <= l /\ t + (l - q) <= c
    BY <1>1, <1>2, <1>3, <2>0, <2>1, Zenon
  <2>3. q \in Nat /\ q + len < 2 * c /\ t + len + (l - (q + len)) <= c
        /\ t + len \in 0 .. 2 * c - 1 /\ len \in 0 .. len
    BY <2>2
  <2> QED BY <2>0, <2>1, <2>2, <2>3, Zenon
<1>4. wr = Advance(rd, Len(stream))
  BY <1>1, <1>2, DistanceFacts
<1>5. ASSUME NEW k \in 0 .. len PROVE Advance(wr, k) = Advance(rd, Len(stream) + k)
  <2>1. k \in Nat /\ Len(stream) + k < Period
    BY <1>1, <1>3
  <2> QED BY <1>1, <1>4, <2>1, AdvanceTwice
<1>6. /\ Window(wr, len) \in Seq(RingByte) /\ Len(Window(wr, len)) = len
      /\ \A k \in 1 .. len : Window(wr, len)[k] = ring[Physical(Advance(rd, Len(stream) + (k - 1)))]
  <2>1. ASSUME NEW k \in 1 .. len
        PROVE  /\ ring[Physical(Advance(wr, k - 1))] \in RingByte
               /\ ring[Physical(Advance(wr, k - 1))] = ring[Physical(Advance(rd, Len(stream) + (k - 1)))]
    <3>1. k - 1 \in 0 .. Period - 1 /\ k - 1 \in 0 .. len
      BY <1>1, <1>3
    <3>2. Physical(Advance(wr, k - 1)) \in 0 .. RingCap - 1
      BY <1>1, <3>1, AdvanceFacts, Zenon
    <3> QED BY <1>5, <3>1, <3>2, ZenonT(60) DEF RingInv, RingTypeOK
  <2> QED BY <2>1 DEF Window
<1>7. /\ Len(stream') = Len(stream) + len
      /\ \A k \in 1 .. Len(stream) : stream'[k] = stream[k]
      /\ \A k \in 1 .. Len(stream) + len :
            stream'[k] = IF k <= Len(stream) THEN stream[k] ELSE Window(wr, len)[k - Len(stream)]
  <2>1. PICK W \in Seq(RingByte) : W = Window(wr, len) /\ Len(W) = len
    BY <1>6, Zenon
  <2>2. /\ stream' = stream \o W
        /\ Len(stream \o W) = Len(stream) + Len(W)
        /\ \A k \in 1 .. Len(stream) + Len(W) :
              (stream \o W)[k] = IF k <= Len(stream) THEN stream[k] ELSE W[k - Len(stream)]
    BY <1>0, <1>1, <2>1, ConcatProperties, ZenonT(60)
  <2>3. \A k \in 1 .. Len(stream) + len :
          stream'[k] = IF k <= Len(stream) THEN stream[k] ELSE Window(wr, len)[k - Len(stream)]
    BY <2>1, <2>2, Zenon
  <2>4. \A k \in 1 .. Len(stream) : stream'[k] = stream[k]
    <3>1. \A k \in 1 .. Len(stream) : k \in 1 .. Len(stream) + len /\ k <= Len(stream)
      BY <1>1
    <3> QED BY <2>3, <3>1, Zenon
  <2> QED BY <2>1, <2>2, <2>3, <2>4, Zenon
<1>8. ASSUME NEW k \in 1 .. Len(stream) + len
      PROVE  stream'[k] = ring[Physical(Advance(rd, k - 1))]
  <2>1. CASE k <= Len(stream)
    <3>1. k \in 1 .. Len(stream)
      BY <1>1, <2>1
    <3> QED BY <1>2, <1>7, <3>1, Zenon
  <2>2. CASE k > Len(stream)
    <3>1. k - Len(stream) \in 1 .. len /\ Len(stream) + ((k - Len(stream)) - 1) = k - 1
      BY <1>1, <2>2
    <3>2. stream'[k] = Window(wr, len)[k - Len(stream)]
      BY <1>1, <1>7, <2>2
    <3> QED BY <1>6, <3>1, <3>2, Zenon
  <2> QED BY <1>1, <2>1, <2>2
<1>9. prod'.kind # "normalize"
  <2>1. CASE prod' = NoClaim
    BY <2>1, Zenon DEF NoClaim
  <2>2. CASE prod.kind = "dma" /\ prod' = [prod EXCEPT !.published = @ + len]
    BY <2>2, Zenon DEF RingInv, RingTypeOK
  <2> QED BY <2>1, <2>2, Zenon DEF Publishes
<1>10. Distance(rd, wr') = Len(stream')
  <2>1. wr' = Advance(rd, Len(stream) + len) /\ Len(stream) + len \in 0 .. Period - 1
    BY <1>0, <1>5, <1>a, Zenon
  <2> QED BY <1>1, <1>7, <2>1, AdvanceFacts, Zenon
<1>11. CursorsShow'
  BY <1>0, <1>3, <1>7, <1>8, <1>9, <1>10, Zenon DEF CursorsShow
<1>12. SpanIsFree'
  <2>1. CASE prod' = NoClaim
    BY <2>1, Zenon DEF SpanIsFree, NoClaim
  <2>2. CASE prod.kind = "dma" /\ prod' = [prod EXCEPT !.published = @ + len]
    <3>1. /\ prod'.kind = prod.kind /\ prod'.cursor = prod.cursor /\ prod'.length = prod.length
          /\ prod'.published = prod.published + len /\ prod'.filled = prod.filled
      BY <2>2, Zenon DEF RingInv, RingTypeOK
    <3>2. wr' = Advance(prod.cursor, prod.published + len)
      BY <1>0, <1>1, <1>2, <1>a, AdvanceTwice, ZenonT(60)
    <3>3. Len(stream') + (prod.length - (prod.published + len)) <= RingCap
      BY <1>7, <1>a, Zenon
    <3> QED BY <1>2, <1>3, <2>2, <3>1, <3>2, <3>3, Zenon DEF SpanIsFree
  <2> QED BY <2>1, <2>2, Zenon DEF Publishes
<1>13. SnapshotGood' /\ CallGood' /\ CacheGood'
  BY <1>0, <1>1, <1>7, StreamGrows
<1> QED BY <1>11, <1>12, <1>13, Zenon DEF RingInv

LEMMA CommitInv ==
    ASSUME RingInv, NEW len \in 0 .. RingCap, Commit(len)
    PROVE  RingInv'
<1>1. /\ prod.kind = "reserve" /\ len <= prod.filled /\ prod' = NoClaim
      /\ wr' = Advance(prod.cursor, len) /\ stream' = stream \o Window(prod.cursor, len)
      /\ UNCHANGED <<ring, rd, overflow_events, cons, cache>>
  BY Zenon DEF Commit
<1>2. /\ RingCap \in Nat \ {0} /\ Period = 2 * RingCap /\ prod.filled \in 0 .. RingCap
      /\ prod.cursor \in 0 .. Period - 1 /\ stream \in Seq(RingByte) /\ 0 \in 0 .. RingCap
      /\ len \in Nat
  BY RingTypes DEF RingInv
<1>3. prod.published = 0 /\ wr = prod.cursor
  <2>1. prod.published = 0 /\ wr = Advance(prod.cursor, 0)
    BY <1>1, Zenon DEF RingInv, SpanIsFree
  <2> QED BY <1>2, <2>1, AdvanceFacts, Zenon
<1>4. Publishes(len)
  <2>1. len <= prod.filled - prod.published
    BY <1>1, <1>2, <1>3
  <2> QED BY <1>1, <1>3, <2>1, Zenon DEF Publishes
<1>5. Window(wr, len) \in Seq(RingByte) /\ Advance(wr, len) \in 0 .. Period - 1
  <2>1. len \in 0 .. Period - 1 /\ wr \in 0 .. Period - 1
    BY <1>2, <1>3
  <2>2. Advance(wr, len) \in 0 .. Period - 1
    BY <2>1, AdvanceFacts, Zenon
  <2> QED BY <2>1, <2>2, WindowType, Zenon DEF RingInv
<1>6. RingTypeOK'
  <2>1. stream' \in Seq(RingByte) /\ 0 \in 0 .. Period - 1
    BY <1>1, <1>2, <1>3, <1>5, ConcatProperties
  <2> QED BY <1>1, <1>2, <1>3, <1>5, <2>1 DEF RingInv, RingTypeOK, NoClaim
<1> QED BY <1>2, <1>4, <1>6, PublishInv, Zenon

LEMMA DmaPublishInv ==
    ASSUME RingInv, NEW len \in 0 .. RingCap, DmaPublish(len)
    PROVE  RingInv'
<1>1. /\ prod.kind = "dma" /\ len <= prod.filled - prod.published
      /\ prod' = [prod EXCEPT !.published = @ + len]
      /\ wr' = Advance(prod.cursor, prod.published + len)
      /\ stream' = stream \o Window(Advance(prod.cursor, prod.published), len)
      /\ UNCHANGED <<ring, rd, overflow_events, cons, cache>>
  BY Zenon DEF DmaPublish
<1>2. /\ RingCap \in Nat \ {0} /\ Period = 2 * RingCap /\ prod.filled \in 0 .. RingCap
      /\ prod.cursor \in 0 .. Period - 1 /\ stream \in Seq(RingByte) /\ wr \in 0 .. Period - 1
      /\ prod.published \in 0 .. RingCap /\ len \in Nat
  BY RingTypes DEF RingInv
<1>3. wr = Advance(prod.cursor, prod.published)
  BY <1>1, Zenon DEF RingInv, SpanIsFree
<1>4. prod.published + len \in 0 .. RingCap
  <2>1. len <= prod.filled - prod.published
    BY <1>1, ZenonT(60)
  <2> QED BY <1>2, <2>1
<1>5. Advance(prod.cursor, prod.published + len) = Advance(wr, len)
  <2>1. prod.published \in Nat /\ prod.published + len < Period
    BY <1>2, <1>4
  <2> QED BY <1>2, <1>3, <2>1, AdvanceTwice
<1>6. Publishes(len)
  BY <1>1, <1>3, <1>5, ZenonT(60) DEF Publishes
<1>7. Window(wr, len) \in Seq(RingByte) /\ Advance(wr, len) \in 0 .. Period - 1
  <2>1. len \in 0 .. Period - 1 /\ wr \in 0 .. Period - 1
    BY <1>2, <1>3
  <2>2. Advance(wr, len) \in 0 .. Period - 1
    BY <2>1, AdvanceFacts, Zenon
  <2> QED BY <2>1, <2>2, WindowType, Zenon DEF RingInv
<1>8. RingTypeOK'
  <2>1. stream' \in Seq(RingByte)
    BY <1>1, <1>2, <1>3, <1>7, ConcatProperties, Zenon
  <2> QED BY <1>1, <1>4, <1>5, <1>7, <2>1, ZenonT(60) DEF RingInv, RingTypeOK
<1> QED BY <1>2, <1>6, <1>8, PublishInv, Zenon

LEMMA DmaEndInv == RingInv /\ (DmaFinish \/ DmaAbort \/ NoteOverflow) => RingInv'
<1> SUFFICES ASSUME RingInv, DmaFinish \/ DmaAbort \/ NoteOverflow PROVE RingInv'
  BY Zenon
<1>1. /\ UNCHANGED <<ring, rd, wr, cons, cache, stream>> /\ overflow_events' \in Nat
      /\ \/ prod' = NoClaim /\ prod.kind = "dma"
         \/ prod' = prod /\ prod.kind # "normalize"
  <2>1. overflow_events \in Nat /\ overflow_events + 1 \in Nat
    BY DEF RingInv, RingTypeOK
  <2> QED BY <2>1, Zenon DEF DmaFinish, DmaAbort, NoteOverflow
<1>2. 0 \in 0 .. RingCap /\ 0 \in 0 .. Period - 1 /\ Len(stream) \in Nat
  BY RingTypes DEF RingInv
<1>3. RingTypeOK'
  <2>1. prod' \in [kind : {"none", "reserve", "dma", "normalize"}, cursor : 0 .. Period - 1,
                   length : 0 .. RingCap, published : 0 .. RingCap, filled : 0 .. RingCap]
    BY <1>1, <1>2, SMTT(30) DEF RingInv, RingTypeOK, NoClaim
  <2> QED BY <1>1, <2>1 DEF RingInv, RingTypeOK
<1>4. CursorsShow' /\ SpanIsFree'
  BY <1>1 DEF RingInv, CursorsShow, SpanIsFree, NoClaim
<1>5. SnapshotGood' /\ CallGood' /\ CacheGood'
  BY <1>1, <1>2, <1>3, StreamGrows
<1> QED BY <1>3, <1>4, <1>5, ZenonT(60) DEF RingInv

\* A claim that moves the cursors finds the stream empty, so whatever the owner has read
\* of them so far shows it nothing.
LEMMA NormalizeFacts ==
    ASSUME RingInv, NEW max \in 1 .. RingCap + 1, prod.kind = "none", Normalizes(max)
    PROVE  /\ max \in 0 .. RingCap /\ ResetCursor \in 0 .. Period - 1 /\ rd = wr
           /\ Distance(ResetCursor, wr) > RingCap /\ Physical(ResetCursor) = 0 /\ Physical(rd) # 0
           /\ Len(stream) = 0 /\ stream = <<>>
<1>1. /\ RingCap \in Nat \ {0} /\ Period = 2 * RingCap /\ wr \in 0 .. Period - 1
      /\ rd \in 0 .. Period - 1 /\ Physical(wr) \in 0 .. RingCap - 1 /\ stream \in Seq(RingByte)
  BY RingTypes, AdvanceFacts, Zenon DEF RingInv
<1>2. rd = wr /\ max <= RingCap /\ Contiguous(wr, RingCap) < max
  BY Zenon DEF Normalizes
<1>3. Physical(wr) # 0
  BY <1>1, <1>2 DEF Contiguous, MinOf
<1>4. /\ ResetCursor \in 0 .. Period - 1 /\ Distance(ResetCursor, wr) > RingCap
      /\ Physical(ResetCursor) = 0
  BY <1>1, <1>3 DEF ResetCursor, Distance, Physical
<1>5. Len(stream) = 0
  BY <1>1, <1>2, DistanceFacts, Zenon DEF RingInv, CursorsShow
<1>6. max \in 0 .. RingCap
  BY <1>1, <1>2
<1> QED BY <1>1, <1>2, <1>3, <1>4, <1>5, <1>6, EmptySeq, ZenonT(60)

LEMMA DmaClaimInv ==
    ASSUME ~ResumeEarly, RingInv, NEW max \in 1 .. RingCap + 1, DmaClaim(max)
    PROVE  RingInv'
<1>1. /\ prod.kind = "none" /\ overflow_events = 0 /\ ~cons.drop
      /\ UNCHANGED <<ring, wr, overflow_events, cons, cache, stream>>
  BY Zenon DEF DmaClaim, MayClaim
<1>2. /\ RingCap \in Nat \ {0} /\ Period = 2 * RingCap /\ wr \in 0 .. Period - 1
      /\ rd \in 0 .. Period - 1 /\ Physical(wr) \in 0 .. RingCap - 1 /\ Len(stream) \in Nat
      /\ Distance(rd, wr) = Len(stream) /\ Len(stream) <= RingCap /\ 0 \in 0 .. RingCap
  BY <1>1, RingTypes, AdvanceFacts DEF RingInv, CursorsShow
<1>3. CASE /\ Normalizes(max) /\ rd' = ResetCursor
           /\ prod' = Claimed("normalize", ResetCursor, max)
  <2>1. /\ max \in 0 .. RingCap /\ ResetCursor \in 0 .. Period - 1 /\ rd = wr
        /\ Distance(ResetCursor, wr) > RingCap /\ Physical(ResetCursor) = 0 /\ Physical(rd) # 0
        /\ Len(stream) = 0 /\ stream = <<>>
    BY <1>1, <1>3, NormalizeFacts, Zenon
  <2>2. RingTypeOK'
    BY <1>1, <1>2, <1>3, <2>1 DEF RingInv, RingTypeOK, Claimed
  <2>3. CursorsShow' /\ SpanIsFree'
    BY <1>1, <1>3, <2>1, Zenon DEF CursorsShow, SpanIsFree, Claimed
  <2>4. SnapshotGood'
    <3>1. cons.pc = "r" => Distance(ResetCursor, cons.w) > RingCap
      <4> SUFFICES ASSUME cons.pc = "r" PROVE cons.w = wr
        BY <2>1, Zenon
      <4>1. cons.w \in 0 .. Period - 1
        BY RingTypes, Zenon DEF RingInv
      <4>2. Distance(rd, cons.w) <= 0
        BY <2>1, Zenon DEF RingInv, SnapshotGood
      <4>3. Distance(rd, cons.w) \in 0 .. Period - 1 /\ (Distance(rd, cons.w) = 0 <=> rd = cons.w)
        BY <1>2, <4>1, DistanceFacts, Zenon
      <4>4. Distance(rd, cons.w) = 0
        BY <1>2, <4>2, <4>3
      <4> QED BY <2>1, <4>3, <4>4, Zenon
    <3>2. cons.pc = "do" => cons.n = 0
      <4>1. cons.n \in 0 .. RingCap
        BY RingTypes, Zenon DEF RingInv
      <4>2. cons.pc = "do" => cons.n <= 0
        BY <1>2, <2>1, <4>1 DEF RingInv, SnapshotGood
      <4> QED BY <1>2, <4>1, <4>2
    <3> QED BY <1>1, <1>3, <2>1, <3>1, <3>2, Zenon DEF SnapshotGood
  <2>5. CallGood'
    BY <1>1, Zenon DEF RingInv, CallGood, OldestFrame
  <2>6. CacheGood'
    <3>1. cache.offset \in Nat /\ cache.scanned \in Nat /\ cache.found \in BOOLEAN
      BY RingTypes, Zenon DEF RingInv
    <3>2. cache.valid => cache.scanned = 0 /\ ~cache.found
      BY <2>1, <3>1 DEF RingInv, CacheGood
    <3> QED BY <1>1, <3>2, Zenon DEF CacheGood
  <2> QED BY <2>2, <2>3, <2>4, <2>5, <2>6, Zenon DEF RingInv
<1>4. ASSUME prod' = Claimed("dma", wr, MinOf(Contiguous(wr, Free), max)), rd' = rd
      PROVE  RingInv'
  <2>1. PICK len \in 0 .. RingCap : /\ len = MinOf(Contiguous(wr, Free), max)
                                    /\ Len(stream) + len <= RingCap
    BY <1>2 DEF Contiguous, Free, MinOf
  <2>2. prod' = Claimed("dma", wr, len)
    BY <1>4, <2>1, Zenon
  <2>3. RingTypeOK'
    <3>1. prod' \in [kind : {"none", "reserve", "dma", "normalize"}, cursor : 0 .. Period - 1,
                     length : 0 .. RingCap, published : 0 .. RingCap, filled : 0 .. RingCap]
      BY <1>2, <2>2, Zenon DEF Claimed
    <3> QED BY <1>1, <1>4, <3>1 DEF RingInv, RingTypeOK
  <2>4. CursorsShow'
    BY <1>1, <1>4, <2>2 DEF RingInv, CursorsShow, Claimed
  <2>5. SpanIsFree'
    BY <1>1, <1>2, <2>1, <2>2, AdvanceFacts DEF SpanIsFree, Claimed
  <2>6. SnapshotGood' /\ CallGood' /\ CacheGood'
    BY <1>1, <1>2, <1>4, <2>3, StreamGrows
  <2> QED BY <2>3, <2>4, <2>5, <2>6, Zenon DEF RingInv
<1> QED BY <1>3, <1>4, Zenon DEF DmaClaim

LEMMA DmaNormalizeInv == RingInv /\ DmaNormalize => RingInv'
<1> SUFFICES ASSUME RingInv, DmaNormalize PROVE RingInv'
  BY Zenon
<1>1. /\ prod.kind = "normalize" /\ wr' = prod.cursor /\ prod' = [prod EXCEPT !.kind = "dma"]
      /\ UNCHANGED <<ring, rd, overflow_events, cons, cache, stream>>
  BY Zenon DEF DmaNormalize
<1>2. /\ stream = <<>> /\ rd = prod.cursor /\ prod.published = 0 /\ prod.filled = 0
  BY <1>1, Zenon DEF RingInv, CursorsShow
<1>3. /\ RingCap \in Nat \ {0} /\ rd \in 0 .. Period - 1 /\ prod.length \in 0 .. RingCap
      /\ prod.cursor \in 0 .. Period - 1 /\ Len(stream) = 0
  BY <1>2, RingTypes, EmptySeq, Zenon DEF RingInv
<1>4. RingTypeOK'
  BY <1>1, <1>3, ZenonT(60) DEF RingInv, RingTypeOK
<1>5. /\ prod'.kind = "dma" /\ prod'.cursor = prod.cursor /\ prod'.length = prod.length
      /\ prod'.published = 0 /\ prod'.filled = 0
  BY <1>1, <1>2, Zenon DEF RingInv, RingTypeOK
<1>6. Distance(rd, wr') = 0 /\ wr' = Advance(prod.cursor, 0)
  BY <1>1, <1>2, <1>3, DistanceFacts, AdvanceFacts, Zenon
<1>7. CursorsShow'
  BY <1>1, <1>3, <1>5, <1>6 DEF CursorsShow
<1>8. SpanIsFree'
  BY <1>1, <1>3, <1>5, <1>6 DEF SpanIsFree
<1>9. SnapshotGood' /\ CallGood' /\ CacheGood'
  BY <1>1, <1>3, <1>4, StreamGrows
<1> QED BY <1>4, <1>7, <1>8, <1>9, Zenon DEF RingInv

-----------------------------------------------------------------------------
(* The owner of the ring *)

\* A step of the owner that stores nothing leaves stream and span alone.
LEMMA OwnerReads ==
    ASSUME RingInv, UNCHANGED <<ring, rd, wr, prod, stream>>,
           overflow_events' \in {0, overflow_events}
    PROVE  CursorsShow' /\ SpanIsFree'
BY Zenon DEF RingInv, CursorsShow, SpanIsFree

\* Between calls, and at the start of one, there is no snapshot to be wrong about.
LEMMA OwnerCalls ==
    ASSUME RingInv, NEW c, cons' = c, UNCHANGED <<ring, rd, wr, prod, stream, cache>>,
           overflow_events' \in {0, overflow_events}, RingTypeOK',
           c.pc \in {"idle", "w"}, c.pc = "idle" => ~c.drop,
           c.drop => c.op \in {"readable", "consume"}, c.op = "readable" => c.drop,
           c.op = "consume" => c.drop \/ c.want >= 1,
           c.op \in {"peek", "copy"} => OldestFrame(c.off)
    PROVE  RingInv'
<1>1. CursorsShow' /\ SpanIsFree'
  BY OwnerReads, Zenon
<1>2. SnapshotGood' /\ CallGood' /\ CacheGood'
  BY Zenon DEF RingInv, SnapshotGood, CallGood, CacheGood, OldestFrame
<1> QED BY <1>1, <1>2, Zenon DEF RingInv

ConsType == [pc : {"idle", "w", "r", "do", "parse", "lent"},
             op : {"none", "readable", "find", "peek", "copy", "consume"},
             w : 0 .. Period - 1, r : 0 .. Period - 1, n : 0 .. RingCap, want : Nat, off : Nat,
             next : {"idle", "find"}, frame : Seq(RingByte), drop : BOOLEAN]

LEMMA ConsTypes ==
    ASSUME RingTypeOK
    PROVE  /\ Idle \in ConsType /\ Idle.pc = "idle" /\ Idle.op = "none" /\ ~Idle.drop
           /\ cons \in ConsType /\ cons.drop \in BOOLEAN
<1>1. cons \in ConsType
  BY Zenon DEF RingTypeOK, ConsType
<1>2. 0 \in 0 .. Period - 1 /\ 0 \in 0 .. RingCap /\ <<>> \in Seq(RingByte) /\ cons.drop \in BOOLEAN
  BY RingTypes, EmptySeq
<1>3. Idle \in ConsType /\ Idle.pc = "idle" /\ Idle.op = "none" /\ ~Idle.drop
  BY <1>2, Zenon DEF Idle, ConsType
<1> QED BY <1>1, <1>2, <1>3, Zenon

Op == {"readable", "find", "peek", "copy", "consume"}

LEMMA CallType ==
    ASSUME RingTypeOK, NEW op \in Op
    PROVE  Call(op) \in ConsType /\ Call(op).pc = "w" /\ Call(op).op = op /\ ~Call(op).drop
BY ConsTypes, ZenonT(60) DEF Call, ConsType, Op

LEMMA CallOffType ==
    ASSUME RingTypeOK, NEW op \in Op, NEW off \in Nat, NEW c, c = [Call(op) EXCEPT !.off = off]
    PROVE  c \in ConsType /\ c.pc = "w" /\ c.op = op /\ ~c.drop /\ c.off = off
<1>1. PICK b \in ConsType : b = Call(op) /\ b.pc = "w" /\ b.op = op /\ ~b.drop
  BY CallType, Zenon
<1> QED BY <1>1, Zenon DEF ConsType

LEMMA CallConsumeType ==
    ASSUME RingTypeOK, NEW len \in Nat, NEW next \in {"idle", "find"},
           NEW c, c = CallConsume(len, next)
    PROVE  c \in ConsType /\ c.pc = "w" /\ c.op = "consume" /\ c.drop = cons.drop /\ c.want = len
<1>1. PICK b \in ConsType : b = Call("consume") /\ b.pc = "w" /\ b.op = "consume" /\ ~b.drop
  BY CallType, Zenon DEF Op
<1>2. cons.drop \in BOOLEAN
  BY ConsTypes, Zenon
<1> QED BY <1>1, <1>2, ZenonT(60) DEF ConsType, CallConsume

\* Typing of a step that changes only the owner's place.
LEMMA ConsTyped ==
    ASSUME RingTypeOK, cons' \in ConsType, UNCHANGED <<ring, rd, wr, prod, stream, cache>>,
           overflow_events' \in {0, overflow_events}
    PROVE  RingTypeOK'
<1>1. overflow_events' \in Nat
  <2>1. overflow_events \in Nat
    BY Zenon DEF RingTypeOK
  <2> QED BY <2>1
<1> QED BY <1>1, Zenon DEF RingTypeOK, ConsType

LEMMA ProcessStreamInv == RingInv /\ (ProcessStream \/ RecoverRing) => RingInv'
<1> SUFFICES ASSUME RingInv, ProcessStream \/ RecoverRing PROVE RingInv'
  BY Zenon
<1>1. /\ UNCHANGED <<ring, rd, wr, prod, stream, cache>>
      /\ overflow_events' \in {0, overflow_events}
      /\ \/ cons' = [Call("readable") EXCEPT !.next = "find", !.drop = TRUE]
         \/ cons' = [Call("readable") EXCEPT !.next = "idle", !.drop = TRUE]
         \/ cons' = Call("find")
  BY Zenon DEF ProcessStream, RecoverRing
<1>2. RingTypeOK
  BY Zenon DEF RingInv
<1>3. /\ cons' \in ConsType /\ cons'.pc = "w"
      /\ (cons'.op = "readable" /\ cons'.drop) \/ (cons'.op = "find" /\ ~cons'.drop)
  <2>1. CASE cons' = Call("find")
    BY <1>2, <2>1, CallType, Zenon DEF Op
  <2>2. ASSUME NEW next \in {"idle", "find"},
               cons' = [Call("readable") EXCEPT !.next = next, !.drop = TRUE]
        PROVE  cons' \in ConsType /\ cons'.pc = "w" /\ cons'.op = "readable" /\ cons'.drop
    <3>1. PICK b \in ConsType : b = Call("readable") /\ b.pc = "w" /\ b.op = "readable" /\ ~b.drop
      BY <1>2, CallType, ZenonT(60) DEF Op
    <3> QED BY <2>2, <3>1, ZenonT(60) DEF ConsType
  <2>3. \/ cons' = Call("find")
        \/ \E next \in {"idle", "find"} : cons' = [Call("readable") EXCEPT !.next = next, !.drop = TRUE]
    BY <1>1, Zenon
  <2> QED BY <2>1, <2>2, <2>3, Zenon
<1>4. RingTypeOK'
  BY <1>1, <1>2, <1>3, ConsTyped, ZenonT(60)
<1> QED BY <1>1, <1>3, <1>4, OwnerCalls, Zenon

LEMMA SnapshotWriteInv == RingInv /\ SnapshotWrite => RingInv'
<1> SUFFICES ASSUME RingInv, SnapshotWrite PROVE RingInv'
  BY Zenon
<1>1. /\ cons.pc = "w" /\ cons' = [cons EXCEPT !.pc = "r", !.w = wr]
      /\ UNCHANGED <<ring, rd, wr, overflow_events, prod, cache, stream>>
  BY Zenon DEF SnapshotWrite
<1>2. cons \in ConsType /\ wr \in 0 .. Period - 1 /\ Len(stream) \in Nat
  BY RingTypes, ConsTypes, Zenon DEF RingInv
<1>3. /\ cons' \in ConsType /\ cons'.pc = "r" /\ cons'.w = wr /\ cons'.op = cons.op
      /\ cons'.drop = cons.drop /\ cons'.want = cons.want /\ cons'.off = cons.off
  BY <1>1, <1>2, ZenonT(60) DEF ConsType
<1>4. RingTypeOK'
  BY <1>1, <1>3, ConsTyped, ZenonT(60) DEF RingInv
<1>5. CursorsShow' /\ SpanIsFree'
  BY <1>1, OwnerReads, ZenonT(60)
<1>6. SnapshotGood'
  BY <1>1, <1>2, <1>3 DEF RingInv, CursorsShow, SnapshotGood
<1>7. CallGood' /\ CacheGood'
  BY <1>1, <1>3, ZenonT(60) DEF RingInv, CallGood, CacheGood, OldestFrame
<1> QED BY <1>4, <1>5, <1>6, <1>7, ZenonT(60) DEF RingInv

LEMMA SnapshotReadInv == RingInv /\ SnapshotRead => RingInv'
<1> SUFFICES ASSUME RingInv, SnapshotRead PROVE RingInv'
  BY Zenon
<1>1. /\ cons.pc = "r" /\ UNCHANGED <<ring, rd, wr, overflow_events, prod, cache, stream>>
      /\ cons' = [cons EXCEPT !.pc = "do", !.w = 0, !.r = rd, !.n = Readable(rd, cons.w)]
  BY Zenon DEF SnapshotRead
<1>2. /\ cons \in ConsType /\ rd \in 0 .. Period - 1 /\ cons.w \in 0 .. Period - 1
      /\ Len(stream) \in Nat /\ RingCap \in Nat \ {0} /\ Period = 2 * RingCap
      /\ 0 \in 0 .. Period - 1
  BY RingTypes, ConsTypes DEF RingInv
<1>3. Distance(rd, cons.w) \in 0 .. Period - 1
  BY <1>2, DistanceFacts, Zenon
<1>4. PICK n \in 0 .. RingCap : n = Readable(rd, cons.w) /\ n <= Len(stream)
  <2>1. Distance(rd, cons.w) <= Len(stream) \/ Distance(rd, cons.w) > RingCap
    BY <1>1, Zenon DEF RingInv, SnapshotGood
  <2> QED BY <1>2, <1>3, <2>1 DEF Readable
<1>5. /\ cons' \in ConsType /\ cons'.pc = "do" /\ cons'.r = rd /\ cons'.n = n /\ cons'.op = cons.op
      /\ cons'.drop = cons.drop /\ cons'.want = cons.want /\ cons'.off = cons.off
  BY <1>1, <1>2, <1>4, ZenonT(60) DEF ConsType
<1>6. RingTypeOK'
  BY <1>1, <1>5, ConsTyped, Zenon DEF RingInv
<1>7. CursorsShow' /\ SpanIsFree'
  BY <1>1, OwnerReads, Zenon
<1>8. SnapshotGood'
  BY <1>1, <1>4, <1>5, ZenonT(60) DEF SnapshotGood
<1>9. CallGood' /\ CacheGood'
  BY <1>1, <1>5, ZenonT(60) DEF RingInv, CallGood, CacheGood, OldestFrame
<1> QED BY <1>6, <1>7, <1>8, <1>9, ZenonT(60) DEF RingInv

LEMMA DoReadableInv == RingInv /\ DoReadable => RingInv'
<1> SUFFICES ASSUME RingInv, DoReadable PROVE RingInv'
  BY Zenon
<1>1. /\ cons.op = "readable" /\ cons' = CallConsume(cons.n, cons.next)
      /\ UNCHANGED <<ring, rd, wr, overflow_events, prod, cache, stream>>
  BY Zenon DEF DoReadable, Doing
<1>2. cons.n \in Nat /\ cons.next \in {"idle", "find"} /\ cons.drop
  <2>1. cons.n \in 0 .. RingCap /\ RingCap \in Nat
    BY RingTypes, Zenon DEF RingInv
  <2>2. cons.next \in {"idle", "find"} /\ cons.drop
    BY <1>1, Zenon DEF RingInv, RingTypeOK, CallGood
  <2> QED BY <2>1, <2>2
<1>3. cons' \in ConsType /\ cons'.pc = "w" /\ cons'.op = "consume" /\ cons'.drop
  <2>1. PICK len \in Nat, next \in {"idle", "find"} : cons' = CallConsume(len, next)
    BY <1>1, <1>2, Zenon
  <2>2. cons' \in ConsType /\ cons'.pc = "w" /\ cons'.op = "consume" /\ cons'.drop = cons.drop
    BY <2>1, CallConsumeType DEF RingInv
  <2> QED BY <1>2, <2>2, Zenon
<1>4. RingTypeOK'
  BY <1>1, <1>3, ConsTyped, Zenon DEF RingInv
<1> QED BY <1>1, <1>3, <1>4, OwnerCalls, ZenonT(60)

LEMMA ReleaseFrameInv == RingInv /\ (Parse \/ ReleaseFrame) => RingInv'
<1> SUFFICES ASSUME RingInv, Parse \/ ReleaseFrame PROVE RingInv'
  BY Zenon
<1>1. /\ cons.pc \in {"parse", "lent"}
      /\ UNCHANGED <<ring, rd, wr, overflow_events, prod, cache, stream>>
  BY Zenon DEF Parse, ReleaseFrame
<1>2. cons.off \in Nat /\ cons.off + 1 \in Nat /\ cons.off + 1 >= 1 /\ cons \in ConsType
  <2>1. cons.off \in Nat /\ cons \in ConsType
    BY RingTypes, ConsTypes, Zenon DEF RingInv
  <2> QED BY <2>1
<1>3. ASSUME NEW next \in {"idle", "find"}, cons' = CallConsume(cons.off + 1, next)
      PROVE  RingInv'
  <2>1. cons' \in ConsType /\ cons'.pc = "w" /\ cons'.op = "consume" /\ cons'.want >= 1
        /\ cons'.drop = cons.drop
    BY <1>2, <1>3, CallConsumeType DEF RingInv
  <2>2. RingTypeOK'
    BY <1>1, <2>1, ConsTyped, Zenon DEF RingInv
  <2> QED BY <1>1, <2>1, <2>2, OwnerCalls, ZenonT(60)
<1>4. CASE cons' = [cons EXCEPT !.pc = "lent", !.frame = <<>>]
  <2>1. /\ cons' \in ConsType /\ cons'.pc = "lent" /\ cons'.op = cons.op
        /\ cons'.drop = cons.drop /\ cons'.want = cons.want /\ cons'.off = cons.off
    BY <1>2, <1>4, EmptySeq, ZenonT(60) DEF ConsType
  <2>2. RingTypeOK'
    BY <1>1, <2>1, ConsTyped, ZenonT(60) DEF RingInv
  <2>3. CursorsShow' /\ SpanIsFree'
    BY <1>1, OwnerReads, ZenonT(60)
  <2>4. SnapshotGood' /\ CallGood' /\ CacheGood'
    BY <1>1, <2>1, ZenonT(60) DEF RingInv, SnapshotGood, CallGood, CacheGood, OldestFrame
  <2> QED BY <2>2, <2>3, <2>4, Zenon DEF RingInv
<1> QED BY <1>3, <1>4, ZenonT(60) DEF Parse, ReleaseFrame

\* A window of the ring that starts at the owner's cursor is a prefix of the stream.
LEMMA WindowIsPrefix ==
    ASSUME RingInv, NEW off \in Nat, off <= Len(stream)
    PROVE  Window(rd, off) = SubSeq(stream, 1, off)
<1>1. /\ RingCap \in Nat \ {0} /\ rd \in 0 .. Period - 1 /\ stream \in Seq(RingByte)
      /\ Len(stream) \in Nat /\ \A k \in 1 .. Len(stream) : stream[k] \in RingByte
  BY RingTypes, Zenon DEF RingInv
<1>2. CASE off = 0
  <2>1. Window(rd, off) = <<>>
    BY <1>2 DEF Window
  <2>2. SubSeq(stream, 1, off) = <<>>
    BY <1>2, SubSeqEmpty
  <2> QED BY <2>1, <2>2, Zenon
<1>3. CASE off > 0
  <2>1. /\ Len(stream) <= RingCap
        /\ \A k \in 1 .. Len(stream) : stream[k] = ring[Physical(Advance(rd, k - 1))]
    BY <1>1, <1>3, EmptySeq DEF RingInv, CursorsShow
  <2>2. off \in 0 .. RingCap
    BY <1>1, <2>1
  <2>3. Window(rd, off) \in Seq(RingByte) /\ Len(Window(rd, off)) = off
    BY <1>1, <2>2, WindowType, ZenonT(60) DEF RingInv
  <2>4. \A k \in 1 .. off : Window(rd, off)[k] = stream[k]
    BY <1>1, <2>1 DEF Window
  <2>5. /\ SubSeq(stream, 1, off) \in Seq(RingByte) /\ Len(SubSeq(stream, 1, off)) = off
        /\ \A k \in 1 .. off : SubSeq(stream, 1, off)[k] = stream[k]
    BY <1>1, <1>3, SubSeqProperties
  <2> QED BY <2>3, <2>4, <2>5, SeqEqual, ZenonT(60)
<1> QED BY <1>2, <1>3

\* The owner parses the frame it found, in place or from the fallback buffer.
ParsesFrame == /\ cons.pc = "do" /\ cons.op \in {"peek", "copy"} /\ cons.off <= cons.n
               /\ cons' = [cons EXCEPT !.pc = "parse", !.n = 0, !.frame = Window(cons.r, cons.off)]
               /\ UNCHANGED <<ring, rd, wr, overflow_events, prod, cache, stream>>

LEMMA ParsesFrameInv == RingInv /\ ParsesFrame => RingInv'
<1> SUFFICES ASSUME RingInv, ParsesFrame PROVE RingInv'
  BY Zenon
<1>1. /\ cons.pc = "do" /\ cons.op \in {"peek", "copy"} /\ cons.off <= cons.n
      /\ cons' = [cons EXCEPT !.pc = "parse", !.n = 0, !.frame = Window(cons.r, cons.off)]
      /\ UNCHANGED <<ring, rd, wr, overflow_events, prod, cache, stream>>
  BY Zenon DEF ParsesFrame
<1>2. /\ cons \in ConsType /\ cons.off \in Nat /\ cons.n \in 0 .. RingCap /\ RingCap \in Nat
      /\ 0 \in 0 .. RingCap /\ stream \in Seq(RingByte) /\ Len(stream) \in Nat
      /\ \A k \in 1 .. Len(stream) : stream[k] \in RingByte
  BY RingTypes, ConsTypes DEF RingInv
<1>3. OldestFrame(cons.off)
  BY <1>1, Zenon DEF RingInv, CallGood
<1>4. cons.r = rd /\ cons.off <= Len(stream)
  BY <1>1, <1>2, <1>3 DEF RingInv, SnapshotGood, OldestFrame
<1>5. Window(cons.r, cons.off) = SubSeq(stream, 1, cons.off)
  BY <1>2, <1>4, WindowIsPrefix, Zenon
<1>6. SubSeq(stream, 1, cons.off) \in Seq(RingByte)
  BY <1>2, <1>4, SubSeqProperties
<1>7. /\ cons' \in ConsType /\ cons'.pc = "parse" /\ cons'.op = cons.op /\ cons'.drop = cons.drop
      /\ cons'.want = cons.want /\ cons'.off = cons.off
      /\ cons'.frame = SubSeq(stream, 1, cons.off)
  BY <1>1, <1>2, <1>5, <1>6, Zenon DEF ConsType
<1>8. RingTypeOK'
  BY <1>1, <1>7, ConsTyped, Zenon DEF RingInv
<1>9. CursorsShow' /\ SpanIsFree'
  BY <1>1, OwnerReads, ZenonT(60)
<1>10. SnapshotGood' /\ CallGood' /\ CacheGood'
  BY <1>1, <1>7, ZenonT(60) DEF RingInv, SnapshotGood, CallGood, CacheGood, OldestFrame
<1> QED BY <1>8, <1>9, <1>10, Zenon DEF RingInv

LEMMA DoPeekInv == RingInv /\ DoPeek => RingInv'
<1> SUFFICES ASSUME RingInv, DoPeek PROVE RingInv'
  BY Zenon
<1>1. /\ cons.pc = "do" /\ cons.op = "peek"
      /\ UNCHANGED <<ring, rd, wr, overflow_events, prod, cache, stream>>
  BY Zenon DEF DoPeek, Doing
<1>2. CASE /\ cons.off <= Contiguous(cons.r, cons.n)
           /\ cons' = [cons EXCEPT !.pc = "parse", !.n = 0, !.frame = Window(cons.r, cons.off)]
  <2>1. Contiguous(cons.r, cons.n) <= cons.n /\ Contiguous(cons.r, cons.n) \in Int
        /\ cons.n \in Nat /\ cons.off \in Nat
    <3>1. /\ cons.r \in 0 .. Period - 1 /\ cons.n \in 0 .. RingCap /\ RingCap \in Nat
          /\ cons.off \in Nat
      BY RingTypes, Zenon DEF RingInv
    <3>2. Physical(cons.r) \in 0 .. RingCap - 1
      BY <3>1, AdvanceFacts, Zenon
    <3> QED BY <3>1, <3>2 DEF Contiguous, MinOf
  <2>2. cons.off <= cons.n
    BY <1>2, <2>1
  <2> QED BY <1>1, <1>2, <2>2, ParsesFrameInv, ZenonT(60) DEF ParsesFrame
<1>3. CASE cons' = [Call("copy") EXCEPT !.off = cons.off]
  <2>1. cons.off \in Nat /\ OldestFrame(cons.off)
    BY <1>1, RingTypes, ZenonT(60) DEF RingInv, CallGood
  <2>2. PICK b \in ConsType : b = Call("copy") /\ b.pc = "w" /\ b.op = "copy" /\ ~b.drop
    BY CallType, ZenonT(60) DEF Op, RingInv
  <2>3. /\ cons' \in ConsType /\ cons'.pc = "w" /\ cons'.op = "copy" /\ ~cons'.drop
        /\ cons'.off = cons.off
    BY <1>3, <2>1, <2>2, ZenonT(60) DEF ConsType
  <2>4. RingTypeOK'
    BY <1>1, <2>3, ConsTyped, Zenon DEF RingInv
  <2> QED BY <1>1, <2>1, <2>3, <2>4, OwnerCalls, ZenonT(60)
<1> QED BY <1>2, <1>3, Zenon DEF DoPeek

LEMMA DoCopyInv == RingInv /\ DoCopy => RingInv'
<1> SUFFICES ASSUME RingInv, DoCopy PROVE RingInv'
  BY Zenon
<1>1. /\ cons.pc = "do" /\ cons.op = "copy"
      /\ UNCHANGED <<ring, rd, wr, overflow_events, prod, cache, stream>>
  BY Zenon DEF DoCopy, Doing
<1>2. cons.off \in Nat /\ cons.n \in 0 .. RingCap /\ RingCap \in Nat
  BY RingTypes, Zenon DEF RingInv
<1>3. CASE cons' = CallConsume(cons.off + 1, "find")
  <2>1. PICK len \in Nat : len = cons.off + 1 /\ len >= 1
    BY <1>2
  <2>2. cons' = CallConsume(len, "find")
    BY <1>3, <2>1, Zenon
  <2>3. cons' \in ConsType /\ cons'.pc = "w" /\ cons'.op = "consume" /\ cons'.drop = cons.drop
        /\ cons'.want = len
    BY <2>2, CallConsumeType DEF RingInv
  <2>4. RingTypeOK'
    BY <1>1, <2>3, ConsTyped, Zenon DEF RingInv
  <2> QED BY <1>1, <2>1, <2>3, <2>4, OwnerCalls, Zenon
<1>4. CASE /\ ~(cons.off > Fallback \/ cons.off > cons.n)
           /\ cons' = [cons EXCEPT !.pc = "parse", !.n = 0, !.frame = Window(cons.r, cons.off)]
  <2>1. cons.off <= cons.n
    BY <1>2, <1>4
  <2> QED BY <1>1, <1>4, <2>1, ParsesFrameInv, Zenon DEF ParsesFrame
<1> QED BY <1>3, <1>4, Zenon DEF DoCopy

\* Cached prefix and scanned rest: a result is the first delimiter of the stream, and no
\* result means that the part shown has none.
FirstDelimiter(off) ==
    /\ off \in Nat /\ off < cons.n /\ cons.r = rd /\ cons.n <= Len(stream)
    /\ stream[off + 1] = 0 /\ \A k \in 1 .. off : stream[k] # 0

LEMMA FindFacts ==
    ASSUME RingInv, Doing("find")
    PROVE  /\ FindResult = {} => \/ cons.n = 0
                                 \/ /\ cons.r = rd /\ cons.n <= Len(stream)
                                    /\ \A k \in 1 .. cons.n : stream[k] # 0
           /\ \A off \in FindResult : (\A j \in FindResult : off <= j) => FirstDelimiter(off)
           /\ FindResult \subseteq Nat
<1>1. /\ cons.n \in 0 .. RingCap /\ RingCap \in Nat /\ cons.r \in 0 .. Period - 1
      /\ cache.scanned \in Nat /\ cache.offset \in Nat /\ cache.found \in BOOLEAN
      /\ cache.valid \in BOOLEAN /\ rd \in 0 .. Period - 1 /\ Len(stream) \in Nat
      /\ cons.n \in Nat
  BY RingTypes, SMTT(30) DEF RingInv
<1>2. (cons.r = rd /\ cons.n <= Len(stream)) \/ cons.n = 0
  BY Zenon DEF RingInv, SnapshotGood, Doing
<1>3. CASE CacheHit /\ cache.found
  <2>1. FindResult = {cache.offset}
    BY <1>3, Zenon DEF FindResult
  <2>2. cache.valid /\ cache.read = cons.r /\ cache.scanned <= cons.n
    BY <1>3, Zenon DEF CacheHit
  <2>3. /\ cache.read = rd /\ cache.scanned <= Len(stream)
        /\ cache.offset < cache.scanned /\ stream[cache.offset + 1] = 0
        /\ \A k \in 1 .. cache.offset : stream[k] # 0
    BY <1>3, <2>2, Zenon DEF RingInv, CacheGood
  <2>4. cache.offset < cons.n /\ cons.n # 0
    BY <1>1, <2>2, <2>3
  <2>5. FirstDelimiter(cache.offset)
    BY <1>1, <1>2, <2>3, <2>4, Zenon DEF FirstDelimiter
  <2> QED BY <1>1, <2>1, <2>5, Zenon
<1>4. CASE ~(CacheHit /\ cache.found)
  <2>1. PICK from \in Nat : from = IF CacheHit THEN cache.scanned ELSE 0
    BY <1>1, Zenon
  <2>2. FindResult = {k \in from .. cons.n - 1 : ring[Physical(Advance(cons.r, k))] = 0}
    BY <1>4, <2>1, Zenon DEF FindResult, Delimiters
  <2>3. CASE cons.n = 0
    BY <2>2, <2>3
  <2>4. CASE cons.n > 0
    <3>1. cons.r = rd /\ cons.n <= Len(stream)
      BY <1>1, <1>2, <2>4
    <3>2. stream # <<>>
      BY <1>1, <2>4, <3>1, EmptySeq
    <3>3. \A k \in 1 .. Len(stream) : stream[k] = ring[Physical(Advance(rd, k - 1))]
      BY <3>2, Zenon DEF RingInv, CursorsShow
    <3>4. ASSUME NEW k \in 0 .. cons.n - 1 PROVE ring[Physical(Advance(cons.r, k))] = stream[k + 1]
      <4>1. k + 1 \in 1 .. Len(stream) /\ (k + 1) - 1 = k
        BY <1>1, <3>1
      <4> QED BY <3>1, <3>3, <4>1, Zenon
    <3>5. \A k \in 1 .. from : stream[k] # 0
      <4>1. CASE CacheHit
        <5>1. cache.valid /\ ~cache.found /\ from = cache.scanned
          BY <1>1, <1>4, <2>1, <4>1, Zenon DEF CacheHit
        <5> QED BY <1>1, <5>1 DEF RingInv, CacheGood
      <4>2. CASE ~CacheHit
        BY <2>1, <4>2
      <4> QED BY <4>1, <4>2, Zenon
    <3>6. ASSUME NEW top \in 0 .. cons.n, \A j \in FindResult : top <= j
          PROVE  \A k \in 1 .. top : stream[k] # 0
      <4> SUFFICES ASSUME NEW k \in 1 .. top, stream[k] = 0, k > from PROVE FALSE
        BY <3>5
      <4>1. k - 1 \in 0 .. cons.n - 1 /\ k - 1 \in from .. cons.n - 1 /\ (k - 1) + 1 = k /\ ~(top <= k - 1)
        BY <1>1
      <4>2. ring[Physical(Advance(cons.r, k - 1))] = 0
        BY <3>4, <4>1, Zenon
      <4>3. k - 1 \in FindResult
        BY <2>2, <4>1, <4>2, Zenon
      <4> QED BY <3>6, <4>1, <4>3, Zenon
    <3>7. FindResult = {} => \A k \in 1 .. cons.n : stream[k] # 0
      <4>1. cons.n \in 0 .. cons.n
        BY <1>1
      <4> QED BY <3>6, <4>1, Zenon
    <3>8. ASSUME NEW off \in FindResult, \A j \in FindResult : off <= j PROVE FirstDelimiter(off)
      <4>1. off \in 0 .. cons.n - 1 /\ off \in 0 .. cons.n /\ off \in Nat /\ off < cons.n
            /\ ring[Physical(Advance(cons.r, off))] = 0
        BY <1>1, <2>2
      <4>2. stream[off + 1] = 0
        BY <3>4, <4>1, Zenon
      <4>3. \A k \in 1 .. off : stream[k] # 0
        BY <3>6, <3>8, <4>1, Zenon
      <4> QED BY <3>1, <4>1, <4>2, <4>3, ZenonT(30) DEF FirstDelimiter
    <3>9. FindResult \subseteq Nat
      BY <1>1, <2>2
    <3> QED BY <3>1, <3>7, <3>8, <3>9, Zenon
  <2> QED BY <1>1, <2>3, <2>4
<1> QED BY <1>3, <1>4, ZenonT(30)

LEMMA DoFindInv == RingInv /\ DoFind => RingInv'
<1> SUFFICES ASSUME RingInv, DoFind PROVE RingInv'
  BY Zenon
<1>1. /\ Doing("find") /\ cons.op = "find" /\ ~cons.drop
      /\ UNCHANGED <<ring, rd, wr, overflow_events, prod, stream>>
  BY Zenon DEF DoFind, Doing, RingInv, CallGood
<1>2. /\ cons.n \in Nat /\ cons.r \in 0 .. Period - 1 /\ cons.n \in 0 .. RingCap
      /\ Len(stream) \in Nat /\ cons \in ConsType /\ RingTypeOK /\ Idle \in ConsType
      /\ Idle.pc = "idle" /\ Idle.op = "none" /\ ~Idle.drop
  <2>1. RingTypeOK /\ cons.n \in 0 .. RingCap /\ RingCap \in Nat
    BY RingTypes, Zenon DEF RingInv
  <2>2. cons.n \in Nat
    BY <2>1
  <2> QED BY <2>1, <2>2, RingTypes, ConsTypes, Zenon
<1>3. CursorsShow' /\ SpanIsFree'
  BY <1>1, OwnerReads, Zenon
<1>4. CASE FindResult = {}
  <2>1. /\ cons' = Idle
        /\ cache' = [valid |-> TRUE, read |-> cons.r, scanned |-> cons.n, offset |-> 0,
                     found |-> FALSE]
    BY <1>4, Zenon DEF DoFind
  <2>2. RingTypeOK'
    BY <1>1, <1>2, <2>1, Zenon DEF RingTypeOK, ConsType
  <2>3. SnapshotGood' /\ CallGood'
    BY <1>2, <2>1, Zenon DEF SnapshotGood, CallGood
  <2>4. \/ cons.n = 0
        \/ cons.r = rd /\ cons.n <= Len(stream) /\ \A k \in 1 .. cons.n : stream[k] # 0
    BY <1>1, <1>4, FindFacts, Zenon
  <2>5. CacheGood'
    BY <1>1, <2>1, <2>4, ZenonT(30) DEF CacheGood
  <2> QED BY <1>3, <2>2, <2>3, <2>5, Zenon DEF RingInv
<1>5. CASE FindResult # {}
  <2>1. PICK off : /\ off = CHOOSE k \in FindResult : \A j \in FindResult : k <= j
                   /\ cons' = IF off = 0 THEN CallConsume(1, "find")
                              ELSE [Call("peek") EXCEPT !.off = off]
                   /\ cache' = IF CacheHit /\ cache.found THEN cache
                               ELSE [valid |-> TRUE, read |-> cons.r, scanned |-> cons.n,
                                     offset |-> off, found |-> TRUE]
    BY <1>5, Zenon DEF DoFind
  <2>2. FirstDelimiter(off)
    <3>1. FindResult \subseteq Nat
      BY <1>1, FindFacts, Zenon
    <3>2. \E k \in FindResult : \A j \in FindResult : k <= j
      BY <1>5, <3>1, LeastNat, Zenon
    <3>3. off \in FindResult /\ \A j \in FindResult : off <= j
      BY <2>1, <3>2, Zenon
    <3> QED BY <1>1, <3>3, FindFacts, Zenon
  <2>3. /\ off \in Nat /\ off < cons.n /\ cons.r = rd /\ cons.n <= Len(stream)
        /\ stream[off + 1] = 0 /\ \A k \in 1 .. off : stream[k] # 0
    BY <2>2, Zenon DEF FirstDelimiter
  <2>4. /\ cons' \in ConsType /\ cons'.pc = "w" /\ ~cons'.drop
        /\ \/ cons'.op = "consume" /\ cons'.want = 1
           \/ cons'.op = "peek" /\ cons'.off = off /\ off # 0
    <3>1. CASE off = 0 /\ cons' = CallConsume(1, "find")
      <4>1. PICK len \in Nat : len = 1 /\ cons' = CallConsume(len, "find")
        BY <3>1, Zenon
      <4> QED BY <1>1, <1>2, <4>1, CallConsumeType
    <3>2. CASE off # 0 /\ cons' = [Call("peek") EXCEPT !.off = off]
      <4>1. PICK b \in ConsType : b = Call("peek") /\ b.pc = "w" /\ b.op = "peek" /\ ~b.drop
        BY <1>2, CallType, Zenon DEF Op
      <4> QED BY <2>3, <3>2, <4>1, Zenon DEF ConsType
    <3> QED BY <2>1, <3>1, <3>2, Zenon
  <2>5. cache' \in [valid : BOOLEAN, read : 0 .. Period - 1, scanned : Nat, offset : Nat,
                    found : BOOLEAN]
    BY <1>2, <2>1, <2>3, Zenon DEF RingTypeOK
  <2>6. RingTypeOK'
    BY <1>1, <1>2, <2>4, <2>5, ZenonT(30) DEF RingTypeOK, ConsType
  <2>7. off # 0 => OldestFrame(off)
    BY <1>2, <2>3 DEF OldestFrame
  <2>8. SnapshotGood' /\ CallGood'
    BY <1>1, <2>4, <2>7 DEF SnapshotGood, CallGood, OldestFrame
  <2>9. CacheGood'
    <3>1. CASE cache' = cache
      BY <1>1, <3>1, Zenon DEF RingInv, CacheGood
    <3>2. CASE cache' = [valid |-> TRUE, read |-> cons.r, scanned |-> cons.n,
                         offset |-> off, found |-> TRUE]
      BY <1>1, <2>3, <3>2, Zenon DEF CacheGood
    <3> QED BY <2>1, <3>1, <3>2, Zenon
  <2> QED BY <1>3, <2>6, <2>8, <2>9, Zenon DEF RingInv
<1> QED BY <1>4, <1>5, Zenon

LEMMA DoConsumeInv == RingInv /\ DoConsume => RingInv'
<1> SUFFICES ASSUME RingInv, DoConsume PROVE RingInv'
  BY Zenon
<1>1. /\ cons.pc = "do" /\ cons.op = "consume" /\ cons' = Return(cons.next)
      /\ UNCHANGED <<ring, wr, overflow_events, prod>>
  BY Zenon DEF DoConsume, Doing
<1>2. /\ RingTypeOK /\ cons.n \in 0 .. RingCap /\ RingCap \in Nat \ {0} /\ cons.want \in Nat
      /\ Len(stream) \in Nat /\ stream \in Seq(RingByte) /\ Period = 2 * RingCap
      /\ rd \in 0 .. Period - 1 /\ wr \in 0 .. Period - 1 /\ 0 \in 0 .. Period - 1
      /\ \A k \in 1 .. Len(stream) : stream[k] \in RingByte
  BY RingTypes DEF RingInv
<1>3. /\ cons' \in ConsType /\ cons'.pc \in {"idle", "w"} /\ ~cons'.drop
      /\ cons'.op \in {"none", "find"}
  BY <1>1, <1>2, ConsTypes, CallType, Zenon DEF Return, Op
<1>4. CASE cons.want > cons.n
  <2>1. UNCHANGED <<rd, cache, stream>>
    BY <1>4, Zenon DEF DoConsume
  <2>2. RingTypeOK'
    BY <1>1, <1>2, <1>3, <2>1, ConsTyped, Zenon
  <2> QED BY <1>1, <1>3, <2>1, <2>2, OwnerCalls, Zenon
<1>5. CASE cons.want <= cons.n
  <2>1. /\ rd' = Advance(cons.r, cons.want) /\ cache' = NoCache
        /\ stream' = SubSeq(stream, cons.want + 1, Len(stream))
    BY <1>2, <1>5 DEF DoConsume
  <2>2. cons.r = rd /\ cons.n <= Len(stream)
    <3>1. cons.drop \/ cons.want >= 1
      BY <1>1, Zenon DEF RingInv, CallGood
    <3>2. cons.drop \/ cons.n # 0
      BY <1>2, <1>5, <3>1
    <3> QED BY <1>1, <3>2, Zenon DEF RingInv, SnapshotGood
  <2>3. PICK w \in Nat : w = cons.want /\ w <= Len(stream)
    BY <1>2, <1>5, <2>2
  <2>4. /\ stream' \in Seq(RingByte) /\ Len(stream') = Len(stream) - w
        /\ \A k \in 1 .. Len(stream) - w : stream'[k] = stream[w + k]
    <3>1. \A k \in w + 1 .. Len(stream) : stream[k] \in RingByte
      BY <1>2
    <3>2. /\ SubSeq(stream, w + 1, Len(stream)) \in Seq(RingByte)
          /\ Len(SubSeq(stream, w + 1, Len(stream)))
               = IF w + 1 <= Len(stream) THEN Len(stream) - (w + 1) + 1 ELSE 0
          /\ \A k \in 1 .. Len(stream) - (w + 1) + 1 :
               SubSeq(stream, w + 1, Len(stream))[k] = stream[w + 1 + k - 1]
      BY <1>2, <3>1, SubSeqProperties, SMTT(30)
    <3>3. Len(stream) - (w + 1) + 1 = Len(stream) - w
          /\ \A k \in 1 .. Len(stream) - w : w + 1 + k - 1 = w + k
      BY <1>2
    <3>4. \A k \in 1 .. Len(stream) - w : SubSeq(stream, w + 1, Len(stream))[k] = stream[w + k]
      BY <3>2, <3>3, Zenon
    <3>5. Len(SubSeq(stream, w + 1, Len(stream))) = Len(stream) - w
      BY <1>2, <2>3, <3>2
    <3> QED BY <2>1, <2>3, <3>2, <3>4, <3>5, ZenonT(30)
  <2>a. /\ Len(stream') \in Nat /\ Len(stream') <= Len(stream) /\ Len(stream') <= RingCap
        /\ w \in 0 .. Period - 1
        /\ \A k \in 1 .. Len(stream') :
              /\ w + k \in 1 .. Len(stream) /\ (w + k) - 1 = w + (k - 1) /\ k - 1 \in Nat
              /\ w + (k - 1) < Period /\ k \in 1 .. Len(stream) - w
    <3>1. Len(stream) <= RingCap
      <4>1. stream = <<>> => Len(stream) <= RingCap
        BY <1>2, EmptySeq
      <4> QED BY <4>1, Zenon DEF RingInv, CursorsShow
    <3>2. PICK c \in Nat \ {0}, n \in Nat : c = RingCap /\ n = Len(stream)
      BY <1>2, Zenon
    <3>m. PICK m : m = Len(stream')
      BY Zenon
    <3>3. Period = 2 * c /\ n <= c /\ w <= n /\ m = n - w
      BY <1>2, <2>3, <2>4, <3>1, <3>2, <3>m, ZenonT(30)
    <3>4. /\ m \in Nat /\ m <= n /\ m <= c /\ w \in 0 .. Period - 1
          /\ \A k \in 1 .. m : /\ w + k \in 1 .. n /\ (w + k) - 1 = w + (k - 1) /\ k - 1 \in Nat
                                /\ w + (k - 1) < Period /\ k \in 1 .. n - w
      BY <3>3
    <3> QED BY <3>2, <3>4, <3>m, Zenon
  <2>5. rd' = Advance(rd, w)
    BY <2>1, <2>2, <2>3, Zenon
  <2>6. CursorsShow' /\ rd' \in 0 .. Period - 1
    <3>1. CASE prod.kind = "normalize"
      <4>1. stream = <<>> /\ Len(stream) = 0
        BY <3>1, EmptySeq, Zenon DEF RingInv, CursorsShow
      <4>2. w = 0 /\ Len(stream') = 0
        BY <2>3, <2>4, <4>1
      <4>3. rd' = rd /\ stream' = <<>>
        BY <1>2, <2>4, <2>5, <4>2, AdvanceFacts, EmptySeq, Zenon
      <4> QED BY <1>1, <1>2, <3>1, <4>1, <4>3, Zenon DEF RingInv, CursorsShow
    <3>2. CASE prod.kind # "normalize"
      <4>1. /\ Distance(rd, wr) = Len(stream) /\ Len(stream) <= RingCap
            /\ \A k \in 1 .. Len(stream) : stream[k] = ring[Physical(Advance(rd, k - 1))]
        BY <3>2, Zenon DEF RingInv, CursorsShow
      <4>2. w \in 0 .. Period - 1 /\ w \in 0 .. Distance(rd, wr)
        BY <1>2, <2>3, <4>1
      <4>3. rd' \in 0 .. Period - 1 /\ Distance(rd', wr) = Len(stream')
        <5>1. Advance(rd, w) \in 0 .. Period - 1
          BY <1>2, <4>2, AdvanceFacts, Zenon
        <5>2. Distance(Advance(rd, w), wr) = Distance(rd, wr) - w
          BY <1>2, <4>2, DistanceShrinks, Zenon
        <5> QED BY <2>4, <2>5, <4>1, <5>1, <5>2, Zenon
      <4>4. ASSUME NEW k \in 1 .. Len(stream') PROVE stream'[k] = ring[Physical(Advance(rd', k - 1))]
        <5>1. /\ w + k \in 1 .. Len(stream) /\ (w + k) - 1 = w + (k - 1) /\ k - 1 \in Nat
              /\ w + (k - 1) < Period /\ k \in 1 .. Len(stream) - w
          BY <2>a, Zenon
        <5>2. Advance(rd', k - 1) = Advance(rd, w + (k - 1))
          BY <1>2, <2>5, <5>1, AdvanceTwice, ZenonT(60)
        <5>3. stream[w + k] = ring[Physical(Advance(rd, (w + k) - 1))]
          BY <4>1, <5>1, Zenon
        <5> QED BY <2>4, <5>1, <5>2, <5>3, Zenon
      <4>5. Len(stream') <= RingCap
        BY <2>a, Zenon
      <4> QED BY <1>1, <3>2, <4>3, <4>4, <4>5, Zenon DEF CursorsShow
    <3> QED BY <3>1, <3>2, Zenon
  <2>7. RingTypeOK'
    BY <1>1, <1>2, <1>3, <2>1, <2>4, <2>6, ZenonT(30) DEF RingTypeOK, ConsType, NoCache
  <2>8. SpanIsFree'
    <3>1. prod.length \in Int /\ prod.published \in Int /\ Len(stream') <= Len(stream)
          /\ Len(stream') \in Nat
      <4>1. prod.length \in 0 .. RingCap /\ prod.published \in 0 .. RingCap
        BY RingTypes, Zenon DEF RingInv
      <4> QED BY <2>a, <4>1
    <3>2. Len(stream) + (prod.length - prod.published) <= RingCap
            => Len(stream') + (prod.length - prod.published) <= RingCap
      BY <1>2, <3>1
    <3> QED BY <1>1, <3>2, Zenon DEF RingInv, SpanIsFree
  <2>9. SnapshotGood' /\ CallGood' /\ CacheGood'
    BY <1>3, <2>1, Zenon DEF SnapshotGood, CallGood, CacheGood, NoCache
  <2> QED BY <2>6, <2>7, <2>8, <2>9, Zenon DEF RingInv
<1> QED BY <1>2, <1>4, <1>5

LEMMA RingNextInv == ~ResumeEarly /\ RingInv /\ [RingNext]_ringVars => RingInv'
<1> SUFFICES ASSUME ~ResumeEarly, RingInv, [RingNext]_ringVars PROVE RingInv'
  BY Zenon
<1>1. CASE UNCHANGED ringVars
  <2>0. RingTypeOK'
    BY <1>1, ZenonT(60) DEF ringVars, RingInv, RingTypeOK, ConsType
  <2>1. CursorsShow' /\ SpanIsFree'
    BY <1>1, Zenon DEF ringVars, RingInv, CursorsShow, SpanIsFree
  <2>2. SnapshotGood' /\ CallGood' /\ CacheGood'
    BY <1>1, Zenon DEF ringVars, RingInv, SnapshotGood, CallGood, CacheGood, OldestFrame
  <2> QED BY <2>0, <2>1, <2>2, Zenon DEF RingInv
<1>2. CASE Producer
  BY <1>2, ReserveInv, CommitInv, DmaPublishInv, FillInv, DmaClaimInv, DmaNormalizeInv, DmaEndInv, Zenon
     DEF Producer
<1>3. CASE Consumer
  BY <1>3, ProcessStreamInv, SnapshotWriteInv, SnapshotReadInv, DoReadableInv, DoFindInv, DoPeekInv,
     DoCopyInv, ReleaseFrameInv, DoConsumeInv, Zenon DEF Consumer
<1> QED BY <1>1, <1>2, <1>3, Zenon DEF RingNext

\* Cursors, open span, snapshot, carried offsets and delimiter cache of the ring stay
\* consistent with the stream of published bytes through every interleaving.
THEOREM RingInvariant == ASSUME ~ResumeEarly PROVE RingSpec => []RingInv
BY RingInitInv, RingNextInv, PTL DEF RingSpec

\* Bytes lost at offset g, already taken by the owner: the discard under way reaches them.
Doomed(g) ==
    /\ cons.drop
    /\ cons.pc = "r" => g <= Distance(rd, cons.w) /\ Distance(rd, cons.w) <= Len(stream)
    /\ cons.op = "readable" /\ cons.pc = "do" => g <= cons.n
    /\ cons.op = "consume" =>
          /\ g <= cons.want /\ cons.want <= Len(stream)
          /\ cons.pc = "r" => cons.want <= Distance(rd, cons.w)
          /\ cons.pc = "do" => cons.want <= cons.n

\* Every loss inside the stream is noted, or about to be discarded.
GapsGood ==
    /\ gaps \subseteq 0 .. Len(stream)
    /\ overflow_events = 0 => \A g \in gaps : g > 0 => Doomed(g)

\* A step of the producer that keeps the read cursor notes what it loses.
LEMMA GapsKept ==
    ASSUME GapsGood, UNCHANGED <<rd, cons>>, Len(stream) \in Nat, Len(stream') \in Nat,
           RingTypeOK, Len(stream) <= Len(stream'), gaps' \subseteq gaps \cup {Len(stream)},
           overflow_events' # 0 \/ UNCHANGED <<overflow_events, gaps>>
    PROVE  GapsGood'
<1>1. gaps' \subseteq 0 .. Len(stream')
  BY DEF GapsGood
<1>2. /\ Distance(rd, cons.w) \in Int /\ cons.want \in Nat
  <2>1. rd \in 0 .. Period - 1 /\ cons.w \in 0 .. Period - 1 /\ Period \in Nat /\ cons.want \in Nat
    BY RingTypes, Zenon
  <2>2. Distance(rd, cons.w) \in 0 .. Period - 1
    BY <2>1, DistanceFacts, Zenon
  <2> QED BY <2>1, <2>2
<1>3. ASSUME NEW g \in gaps, Doomed(g) PROVE Doomed(g)'
  BY <1>2, <1>3 DEF Doomed
<1> QED BY <1>1, <1>3, Zenon DEF GapsGood

\* The producer: a claim moves the read cursor only when the owner is not discarding.
LEMMA ProducerGaps ==
    ASSUME ~ResumeEarly, RingInv, RingInv', GapsGood, Producer
    PROVE  GapsGood'
<1>1. Len(stream) \in Nat /\ Len(stream') \in Nat /\ RingTypeOK /\ overflow_events \in Nat
  BY LenProperties, Zenon DEF RingInv, RingTypeOK
<1>2. CASE UNCHANGED <<rd, cons, stream>> /\ gaps' \subseteq gaps \cup {Len(stream)}
           /\ (overflow_events' # 0 \/ UNCHANGED <<overflow_events, gaps>>)
  <2>1. Len(stream) <= Len(stream')
    BY <1>1, <1>2
  <2> QED BY <1>1, <1>2, <2>1, GapsKept, Zenon
<1>3. ASSUME NEW len \in 0 .. RingCap, Commit(len) \/ DmaPublish(len) PROVE GapsGood'
  <2>1. /\ UNCHANGED <<rd, cons, overflow_events, gaps>>
        /\ \/ stream' = stream \o Window(prod.cursor, len)
           \/ stream' = stream \o Window(Advance(prod.cursor, prod.published), len)
    BY <1>3, Zenon DEF Commit, DmaPublish
  <2>2. PICK c \in 0 .. Period - 1 : stream' = stream \o Window(c, len)
    <3>1. prod.cursor \in 0 .. Period - 1 /\ prod.published \in 0 .. Period - 1
      <4>1. /\ prod.cursor \in 0 .. Period - 1 /\ prod.published \in 0 .. RingCap
            /\ RingCap \in Nat \ {0} /\ Period = 2 * RingCap
        BY <1>1, RingTypes, Zenon
      <4> QED BY <4>1
    <3>2. Advance(prod.cursor, prod.published) \in 0 .. Period - 1
      BY <3>1, AdvanceFacts, Zenon
    <3> QED BY <2>1, <3>1, <3>2, Zenon
  <2>3. stream \in Seq(RingByte) /\ Window(c, len) \in Seq(RingByte) /\ Len(Window(c, len)) = len
    BY <1>1, RingTypes, WindowType, Zenon
  <2>4. Len(stream) <= Len(stream')
    <3>1. Len(stream') = Len(stream) + len
      BY <2>2, <2>3, ConcatProperties, Zenon
    <3>2. len \in Nat
      BY <1>1, RingTypes
    <3> QED BY <1>1, <3>1, <3>2
  <2> QED BY <1>1, <2>1, <2>4, GapsKept, Zenon
<1>4. ASSUME NEW max \in 1 .. RingCap + 1, DmaClaim(max) PROVE GapsGood'
  <2>1. overflow_events = 0 /\ ~cons.drop /\ UNCHANGED <<overflow_events, cons, stream, gaps>>
    BY <1>4, Zenon DEF DmaClaim, MayClaim
  <2> QED BY <2>1, Zenon DEF GapsGood, Doomed
<1>5. overflow_events + 1 # 0
  BY <1>1
<1> QED BY <1>2, <1>3, <1>4, <1>5, ZenonT(60)
        DEF Producer, Reserve, Fill, DmaNormalize, DmaFinish, DmaAbort, NoteOverflow

\* The owner: what it takes over from the count it discards, to the last byte.
LEMMA ConsumerGaps ==
    ASSUME RingInv, RingInv', GapsGood, Consumer
    PROVE  GapsGood'
<1>1. /\ Len(stream) \in Nat /\ RingTypeOK /\ overflow_events \in Nat /\ Period \in Nat
      /\ RingCap \in Nat \ {0} /\ cons.n \in 0 .. RingCap /\ cons.want \in Nat
      /\ cons.drop \in BOOLEAN /\ rd \in 0 .. Period - 1 /\ wr \in 0 .. Period - 1
      /\ cons.pc \in {"idle", "w", "r", "do", "parse", "lent"}
  BY RingTypes, Zenon DEF RingInv, RingTypeOK
<1>2. ASSUME NEW g \in gaps, g > 0
      PROVE  Distance(rd, wr) = Len(stream) /\ Len(stream) <= RingCap
  <2>1. Len(stream) # 0
    BY <1>1, <1>2 DEF GapsGood
  <2>2. prod.kind # "normalize"
    BY <2>1, EmptySeq, Zenon DEF RingInv, CursorsShow
  <2> QED BY <2>2, Zenon DEF RingInv, CursorsShow
<1>3. /\ cons.drop => cons.op \in {"readable", "consume"} /\ cons.pc \in {"w", "r", "do"}
      /\ cons.op = "readable" => cons.drop
  BY <1>1, Zenon DEF RingInv, CallGood
<1>4. CASE ProcessStream
  <2>1. /\ UNCHANGED <<stream, gaps>>
        /\ cons' = IF overflow_events # 0
                   THEN [Call("readable") EXCEPT !.next = "find", !.drop = TRUE] ELSE Call("find")
        /\ ~cons.drop
    BY <1>3, <1>4, Zenon DEF ProcessStream, RingInv, CallGood
  <2>2. CASE overflow_events = 0
    BY <2>1, <2>2, Zenon DEF GapsGood, Doomed
  <2>3. CASE overflow_events # 0
    <3>1. cons'.pc = "w" /\ cons'.op = "readable" /\ cons'.drop
      BY <2>1, <2>3 DEF Call, Idle
    <3> QED BY <2>1, <3>1, Zenon DEF GapsGood, Doomed
  <2> QED BY <2>2, <2>3, Zenon
<1>5. CASE RecoverRing \/ DoFind \/ DoPeek \/ DoCopy \/ Parse \/ ReleaseFrame
  <2>1. UNCHANGED <<stream, gaps, overflow_events>> /\ ~cons.drop
    <3>1. cons.pc = "idle" \/ cons.op \in {"find", "peek", "copy"}
      BY <1>5, Zenon DEF RecoverRing, DoFind, DoPeek, DoCopy, Parse, ReleaseFrame, Doing, RingInv,
                         CallGood
    <3>2. ~cons.drop
      BY <1>3, <3>1, Zenon
    <3> QED BY <1>5, <3>2, Zenon DEF RecoverRing, DoFind, DoPeek, DoCopy, Parse, ReleaseFrame
  <2> QED BY <2>1, Zenon DEF GapsGood, Doomed
<1>6. CASE SnapshotWrite
  <2>1. /\ cons.pc = "w" /\ cons' = [cons EXCEPT !.pc = "r", !.w = wr]
        /\ UNCHANGED <<rd, wr, stream, gaps, overflow_events>>
    BY <1>6, Zenon DEF SnapshotWrite
  <2>2. /\ cons'.pc = "r" /\ cons'.w = wr /\ cons'.drop = cons.drop /\ cons'.op = cons.op
        /\ cons'.want = cons.want
    BY <1>1, <2>1 DEF RingTypeOK
  <2>3. ASSUME NEW g \in gaps, g > 0, Doomed(g) PROVE Doomed(g)'
    BY <1>1, <1>2, <2>1, <2>2, <2>3 DEF Doomed, GapsGood
  <2> QED BY <2>1, <2>3, Zenon DEF GapsGood
<1>7. CASE SnapshotRead
  <2>1. /\ cons.pc = "r"
        /\ cons' = [cons EXCEPT !.pc = "do", !.w = 0, !.r = rd, !.n = Readable(rd, cons.w)]
        /\ UNCHANGED <<rd, wr, stream, gaps, overflow_events>>
    BY <1>7, Zenon DEF SnapshotRead
  <2>2. /\ cons'.pc = "do" /\ cons'.n = Readable(rd, cons.w) /\ cons'.drop = cons.drop
        /\ cons'.op = cons.op /\ cons'.want = cons.want
    BY <1>1, <2>1 DEF RingTypeOK
  <2>d. Distance(rd, cons.w) \in Int
    <3>1. Distance(rd, cons.w) \in 0 .. Period - 1
      BY <1>1, RingTypes, DistanceFacts, Zenon
    <3> QED BY <1>1, <3>1
  <2>3. ASSUME NEW g \in gaps, g > 0, Doomed(g) PROVE Doomed(g)'
    <3>1. Readable(rd, cons.w) = Distance(rd, cons.w)
      BY <1>1, <1>2, <2>1, <2>3, <2>d DEF Doomed, Readable
    <3> QED BY <2>1, <2>2, <2>3, <3>1, Zenon DEF Doomed
  <2> QED BY <2>1, <2>3, Zenon DEF GapsGood
<1>8. CASE DoReadable
  <2>1. /\ cons.pc = "do" /\ cons.op = "readable" /\ cons.drop
        /\ cons' = CallConsume(cons.n, cons.next)
        /\ UNCHANGED <<rd, wr, stream, gaps, overflow_events>>
    BY <1>3, <1>8, Zenon DEF DoReadable, Doing
  <2>2. /\ cons'.pc = "w" /\ cons'.op = "consume" /\ cons'.want = cons.n /\ cons'.drop
    <3>1. cons.n \in Nat
      BY <1>1
    <3>2. cons.next \in {"idle", "find"}
      BY <1>1, ConsTypes, Zenon DEF ConsType
    <3>3. PICK len \in Nat, next \in {"idle", "find"} : len = cons.n /\ cons' = CallConsume(len, next)
      BY <2>1, <3>1, <3>2, Zenon
    <3>4. cons'.pc = "w" /\ cons'.op = "consume" /\ cons'.drop = cons.drop /\ cons'.want = len
      BY <1>1, <3>3, CallConsumeType
    <3> QED BY <2>1, <3>3, <3>4, Zenon
  <2>3. ASSUME NEW g \in gaps, g > 0, Doomed(g) PROVE Doomed(g)'
    <3>1. cons.n <= Len(stream)
      BY <1>1, <2>1, <2>3 DEF RingInv, SnapshotGood, Doomed
    <3> QED BY <2>1, <2>2, <2>3, <3>1, Zenon DEF Doomed
  <2> QED BY <2>1, <2>3, Zenon DEF GapsGood
<1>9. CASE DoConsume
  <2>1. cons.pc = "do" /\ cons.op = "consume" /\ UNCHANGED overflow_events
    BY <1>9, Zenon DEF DoConsume, Doing
  <2>2. CASE cons.want > cons.n
    <3>1. UNCHANGED <<stream, gaps>>
      BY <1>9, <2>2, Zenon DEF DoConsume
    <3>2. ASSUME NEW g \in gaps, g > 0, overflow_events = 0 PROVE FALSE
      BY <1>1, <2>1, <2>2, <3>2 DEF GapsGood, Doomed
    <3> QED BY <2>1, <3>1, <3>2, Zenon DEF GapsGood
  <2>3. CASE cons.want <= cons.n
    <3>1. /\ stream' = SubSeq(stream, cons.want + 1, Len(stream))
          /\ gaps' = {g - cons.want : g \in {h \in gaps : h > cons.want}}
      BY <1>1, <1>9, <2>3 DEF DoConsume
    <3>2. gaps' \subseteq 0 .. Len(stream')
      <4> SUFFICES ASSUME NEW h \in gaps, h > cons.want PROVE h - cons.want \in 0 .. Len(stream')
        BY <3>1, Zenon
      <4>1. h \in 0 .. Len(stream)
        BY Zenon DEF GapsGood
      <4>2. stream \in Seq(RingByte)
        BY <1>1, Zenon DEF RingTypeOK
      <4>3. Len(stream') = Len(stream) - cons.want
        BY <1>1, <3>1, <4>1, <4>2, SubSeqProperties
      <4> QED BY <1>1, <4>1, <4>3
    <3>3. ASSUME overflow_events = 0 PROVE gaps' = {}
      <4>1. ASSUME NEW h \in gaps, h > cons.want PROVE FALSE
        <5>1. h \in Nat /\ h > 0
          BY <1>1, <4>1 DEF GapsGood
        <5>2. h <= cons.want
          BY <2>1, <3>3, <5>1, Zenon DEF GapsGood, Doomed
        <5> QED BY <1>1, <4>1, <5>1, <5>2
      <4> QED BY <3>1, <4>1, Zenon
    <3> QED BY <2>1, <3>2, <3>3, Zenon DEF GapsGood
  <2> QED BY <1>1, <2>2, <2>3
<1> QED BY <1>4, <1>5, <1>6, <1>7, <1>8, <1>9, Zenon DEF Consumer

\* No bytes are lost inside the stream unnoticed: a loss is counted, or the owner that
\* took the count is discarding past it.
THEOREM LossesAreNoted == ASSUME ~ResumeEarly PROVE RingSpec => []GapsGood
<1>1. RingInit => GapsGood
  BY Zenon DEF RingInit, GapsGood
<1>2. RingInv /\ RingInv' /\ GapsGood /\ [RingNext]_ringVars => GapsGood'
  <2>1. CASE UNCHANGED ringVars
    BY <2>1, Zenon DEF ringVars, GapsGood, Doomed
  <2> QED BY <2>1, ProducerGaps, ConsumerGaps, Zenon DEF RingNext
<1> QED BY <1>1, <1>2, RingInvariant, PTL DEF RingSpec

\* Every frame handed to the parser is the oldest of the stream, whole and without its
\* delimiter, with no loss inside it that was noted before the pass, for every size of the ring, whatever the producer does between the owner's
\* loads, provided that ingress resumes only after the owner has discarded: the contract
\* of wl_rx_dma_abort.
THEOREM FramesAreNext == ASSUME ~ResumeEarly PROVE RingSpec => []FrameIsNext
<1>1. RingInv /\ GapsGood => FrameIsNext
  <2> SUFFICES ASSUME RingInv, GapsGood, cons.pc = "parse" PROVE FrameIsNext
    BY Zenon DEF FrameIsNext
  <2>1. /\ OldestFrame(cons.off) /\ cons.frame = SubSeq(stream, 1, cons.off)
    BY Zenon DEF RingInv, CallGood
  <2>2. /\ cons.off \in Nat /\ Len(stream) \in Nat /\ stream \in Seq(RingByte)
        /\ \A k \in 1 .. Len(stream) : stream[k] \in RingByte
    BY RingTypes, Zenon DEF RingInv
  <2>3. \A k \in 1 .. cons.off : stream[k] \in RingByte
    BY <2>1, <2>2 DEF OldestFrame
  <2>4. \A k \in 1 .. cons.off : SubSeq(stream, 1, cons.off)[k] = stream[k]
    BY <2>2, <2>3, SubSeqProperties
  <2>5. overflow_events = 0 => gaps \cap (1 .. cons.off) = {}
    <3>1. ~cons.drop
      BY Zenon DEF RingInv, CallGood
    <3>2. \A g \in gaps : g \in 1 .. cons.off => g > 0
      BY <2>2
    <3> QED BY <3>1, <3>2, Zenon DEF GapsGood, Doomed
  <2>6. cons.off < Len(stream) /\ stream[cons.off + 1] = 0 /\ \A k \in 1 .. cons.off : cons.frame[k] # 0
    BY <2>1, <2>2, <2>4 DEF OldestFrame
  <2> QED BY <2>1, <2>5, <2>6, Zenon DEF FrameIsNext
<1> QED BY <1>1, RingInvariant, LossesAreNoted, PTL

\* A frame that an RX event borrows stays the oldest of the stream, byte for byte in the
\* ring, until wl_event_release.
LentStays == cons.pc = "lent" => OldestFrame(cons.off) /\ WindowIsStream

THEOREM LentFrameStays == ASSUME ~ResumeEarly PROVE RingSpec => []LentStays
<1>1. RingInv => LentStays
  <2> SUFFICES ASSUME RingInv, cons.pc = "lent" PROVE OldestFrame(cons.off) /\ WindowIsStream
    BY Zenon DEF LentStays
  <2>1. OldestFrame(cons.off)
    BY Zenon DEF RingInv, CallGood
  <2>2. /\ Len(stream) \in Nat /\ stream \in Seq(RingByte)
    BY RingTypes, Zenon DEF RingInv
  <2>3. stream # <<>>
    BY <2>1, <2>2, EmptySeq DEF OldestFrame
  <2>4. Distance(rd, wr) = Len(stream) /\ Len(stream) <= RingCap
    BY <2>3, Zenon DEF RingInv, CursorsShow
  <2>5. Window(rd, Len(stream)) = SubSeq(stream, 1, Len(stream))
    BY <2>2, WindowIsPrefix
  <2>6. SubSeq(stream, 1, Len(stream)) = stream
    <3>1. \A k \in 1 .. Len(stream) : stream[k] \in RingByte
      BY <2>2, ElementOfSeq, Zenon
    <3>2. /\ SubSeq(stream, 1, Len(stream)) \in Seq(RingByte)
          /\ Len(SubSeq(stream, 1, Len(stream))) = Len(stream)
          /\ \A k \in 1 .. Len(stream) : SubSeq(stream, 1, Len(stream))[k] = stream[k]
      BY <2>2, <3>1, SubSeqProperties
    <3> QED BY <2>2, <3>2, SeqEqual, Zenon
  <2>7. ~(Len(stream) > RingCap)
    BY <2>2, <2>4, RingAssumption
  <2> QED BY <2>1, <2>4, <2>5, <2>6, <2>7, Zenon DEF WindowIsStream
<1> QED BY <1>1, RingInvariant, PTL
=============================================================================
