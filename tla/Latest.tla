------------------------------- MODULE Latest -------------------------------
(***************************************************************************)
(* src/src/latest.c: the single-producer single-consumer LATEST mailbox.   *)
(* Three value slots are owned by the reader (front), by nobody (middle)   *)
(* and by the writer (back).  Slot ownership moves only by the atomic      *)
(* exchange of the middle word, so every atomic access of publish and      *)
(* acquire is a step of its own here.                                      *)
(*                                                                         *)
(* Statistics counters and the argument checks of each call are left out;  *)
(* claim tokens are represented by write_claimed and read_borrowed.        *)
(***************************************************************************)
EXTENDS Naturals

CONSTANTS Value,     \* the values an application publishes
          GenMod,    \* generations wrap at this modulus (2^32 in the code)
          Torn,      \* a slot the writer is in the middle of filling
          NoRecord   \* "no record", for the abstract register

ASSUME GenModAssumption == GenMod \in Nat \ {0}

Slot == 0 .. 2
Record == [gen : 0 .. GenMod - 1, val : Value]

ASSUME TornAssumption == Torn \notin Record
ASSUME NoRecordAssumption == NoRecord \notin Record

VARIABLES slot,          \* contents of the three value slots
          middle,        \* the atomic word: slot index and dirty flag
          generation,    \* the atomic generation counter
          writer_back, write_claimed, wpc,
          reader_front, read_borrowed, rpc,
          last           \* history: the record last made visible, for the properties

latestVars == <<slot, middle, generation, writer_back, write_claimed, wpc,
                reader_front, read_borrowed, rpc, last>>

writerVars == <<writer_back, write_claimed, wpc>>
readerVars == <<reader_front, read_borrowed, rpc>>

\* wl_latest_init: front 0, middle 1 and clean, back 2.
LatestInit ==
        /\ slot = [s \in Slot |-> Torn]
        /\ middle = [idx |-> 1, dirty |-> FALSE]
        /\ generation \in 0 .. GenMod - 1
        /\ writer_back = 2 /\ write_claimed = FALSE /\ wpc = "idle"
        /\ reader_front = 0 /\ read_borrowed = FALSE /\ rpc = "idle"
        /\ last = NoRecord

-----------------------------------------------------------------------------
(* Plausible mistakes: each stands in for the action it is named after when *)
(* the runs are checked for their power to notice it.                       *)

\* The writer keeps its slot instead of taking the exchanged one.
PublishSwapKeepsBack ==
    /\ wpc = "swap"
    /\ middle' = [idx |-> writer_back, dirty |-> TRUE]
    /\ write_claimed' = FALSE
    /\ wpc' = "idle"
    /\ last' = slot[writer_back]
    /\ UNCHANGED <<slot, generation, writer_back, readerVars>>

\* The old front goes back with the dirty bit still set.
AcquireSwapStaysDirty ==
    /\ rpc = "swap"
    /\ middle' = [middle EXCEPT !.idx = reader_front]
    /\ reader_front' = middle.idx
    /\ read_borrowed' = TRUE
    /\ rpc' = "idle"
    /\ UNCHANGED <<slot, generation, writerVars, last>>

-----------------------------------------------------------------------------
(* The producer *)

\* The application owns the claimed slot and may leave it half written.
WriteClaim == /\ wpc = "idle"
              /\ ~write_claimed
              /\ write_claimed' = TRUE
              /\ slot' = [slot EXCEPT ![writer_back] = Torn]
              /\ UNCHANGED <<middle, generation, writer_back, wpc, readerVars, last>>

\* wl_latest_write_publish up to the exchange: the value is complete, the
\* generation counter moves and stamps the slot.
PublishStamp(v) ==
    LET gen == (generation + 1) % GenMod
    IN /\ wpc = "idle"
       /\ write_claimed
       /\ generation' = gen
       /\ slot' = [slot EXCEPT ![writer_back] = [gen |-> gen, val |-> v]]
       /\ wpc' = "swap"
       /\ UNCHANGED <<middle, writer_back, write_claimed, readerVars, last>>

\* The exchange: the filled slot becomes the dirty middle, the former middle
\* the writer's next back slot.
PublishSwap == /\ wpc = "swap"
               /\ middle' = [idx |-> writer_back, dirty |-> TRUE]
               /\ writer_back' = middle.idx
               /\ write_claimed' = FALSE
               /\ wpc' = "idle"
               /\ last' = slot[writer_back]
               /\ UNCHANGED <<slot, generation, readerVars>>

WriteAbort == /\ wpc = "idle"
              /\ write_claimed
              /\ write_claimed' = FALSE
              /\ UNCHANGED <<slot, middle, generation, writer_back, wpc, readerVars, last>>

-----------------------------------------------------------------------------
(* The consumer *)

\* wl_latest_read_acquire, the load: a clean middle is WL_ERR_NO_DATA and
\* changes nothing; a dirty one leads to the exchange.
AcquireLoad == /\ rpc = "idle"
               /\ ~read_borrowed
               /\ middle.dirty
               /\ rpc' = "swap"
               /\ UNCHANGED <<slot, middle, generation, writerVars,
                              reader_front, read_borrowed, last>>

\* The exchange stores the old front without the dirty bit and takes whatever
\* middle holds by now.
AcquireSwap == /\ rpc = "swap"
               /\ middle' = [idx |-> reader_front, dirty |-> FALSE]
               /\ reader_front' = middle.idx
               /\ read_borrowed' = TRUE
               /\ rpc' = "idle"
               /\ UNCHANGED <<slot, generation, writerVars, last>>

ReadRelease == /\ rpc = "idle"
               /\ read_borrowed
               /\ read_borrowed' = FALSE
               /\ UNCHANGED <<slot, middle, generation, writerVars, reader_front, rpc, last>>

\* wl_latest_reset needs quiescence: no claim, no view, no call in progress.
LatestReset ==
         /\ wpc = "idle" /\ rpc = "idle"
         /\ ~write_claimed /\ ~read_borrowed
         /\ reader_front' = 0
         /\ writer_back' = 2
         /\ middle' = [idx |-> 1, dirty |-> FALSE]
         /\ UNCHANGED <<slot, generation, write_claimed, wpc, read_borrowed, rpc, last>>

LatestNext ==
        \/ WriteClaim
        \/ \E v \in Value : PublishStamp(v)
        \/ PublishSwap
        \/ WriteAbort
        \/ AcquireLoad
        \/ AcquireSwap
        \/ ReadRelease
        \/ LatestReset

LatestSpec == LatestInit /\ [][LatestNext]_latestVars

-----------------------------------------------------------------------------
(* Properties *)

LatestTypeOK ==
          /\ slot \in [Slot -> Record \cup {Torn}]
          /\ middle \in [idx : Slot, dirty : BOOLEAN]
          /\ generation \in 0 .. GenMod - 1
          /\ writer_back \in Slot /\ reader_front \in Slot
          /\ write_claimed \in BOOLEAN /\ read_borrowed \in BOOLEAN
          /\ wpc \in {"idle", "swap"} /\ rpc \in {"idle", "swap"}
          /\ last \in Record \cup {NoRecord}

\* Front, middle and back are always three different slots: the exchanges of
\* the two roles, in whatever order, never give one slot to both of them.
OwnershipExclusive == /\ reader_front # writer_back
                      /\ reader_front # middle.idx
                      /\ writer_back # middle.idx

\* A consumer past its load never exchanges a clean or half-written middle,
\* although the producer may replace the middle between load and exchange.
AcquireFindsRecord == rpc = "swap" => middle.dirty /\ slot[middle.idx] \in Record

\* A dirty middle is the newest published record, complete, and carries the
\* newest generation unless the writer has stamped the next one already.
UnreadIsNewest ==
    middle.dirty =>
        /\ slot[middle.idx] = last
        /\ last \in Record
        /\ wpc = "idle" => last.gen = generation
        /\ wpc = "swap" => (last.gen + 1) % GenMod = generation

\* Whatever the producer does meanwhile, a borrowed view keeps its slot and
\* its contents until the consumer releases it.
BorrowedViewStable ==
    [][read_borrowed /\ read_borrowed' =>
          reader_front' = reader_front /\ slot'[reader_front] = slot[reader_front]]_latestVars

\* The mailbox implements the register that keeps only the newest record.
Register == INSTANCE LatestRegister WITH
    None <- NoRecord,
    unread <- IF middle.dirty THEN slot[middle.idx] ELSE NoRecord,
    view <- IF read_borrowed THEN slot[reader_front] ELSE NoRecord

RegisterSpec == Register!Spec

=============================================================================
