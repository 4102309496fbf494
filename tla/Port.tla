-------------------------------- MODULE Port --------------------------------
(***************************************************************************)
(* What every transport adapter under src/adapters shares: the link it     *)
(* serves, as the adapter sees it.  A behaviour runs one adapter, and port *)
(* is its state:                                                           *)
(*   kind      which adapter;                                              *)
(*   stream    what the link has been given: bytes or units, numbered in   *)
(*             the order of arrival; 0 marks a noted overflow, -1 a stop;  *)
(*   lost      what arrived and was dropped, with no overflow noted since; *)
(*   unit      the unit the link has lent to its sink: "none", "lent", or  *)
(*             "draining" once its memory is back;                         *)
(*   twice     a completion was reported that the link does not await;     *)
(*   dtx       the hardware or the operating system reads the lent bytes;  *)
(*   blocked   the sink said BUSY and nothing has told the link to retry;  *)
(*   closed    the adapter has let go of the link.                         *)
(***************************************************************************)
EXTENDS Integers, SequencesExt

VARIABLE port

LinkSide == [stream |-> << >>, lost |-> {}, unit |-> "none", twice |-> FALSE, dtx |-> FALSE,
             blocked |-> FALSE, closed |-> FALSE]

\* wl_rx_commit, wl_rx_unit_commit
Give(p, b) == [p EXCEPT !.stream = Append(@, b)]

\* wl_rx_note_overflow
NoteOverflow(p) ==
    [p EXCEPT !.lost = {}, !.stream = IF @ # << >> /\ Last(@) = 0 THEN @ ELSE Append(@, 0)]

\* wl_tx_consumed: the memory of the unit is the link's again, and so is the line unless
\* the link waits for it to be idle; a report the link does not await is refused
Consumed(p, drains) ==
    IF p.unit # "lent" THEN [p EXCEPT !.twice = TRUE]
    ELSE [p EXCEPT !.unit = IF drains THEN "draining" ELSE "none", !.blocked = FALSE]

\* wl_tx_drained
Drained(p) ==
    IF p.unit # "draining" THEN [p EXCEPT !.twice = TRUE]
    ELSE [p EXCEPT !.unit = "none", !.blocked = FALSE]

\* wl_tx_writable
Writable(p) == [p EXCEPT !.blocked = FALSE]

\* the link hands a unit to its sink only when it may
MayHand(p) == ~p.closed /\ p.unit = "none" /\ ~p.blocked

StreamInOrder(p) ==
    LET items == SelectSeq(p.stream, LAMBDA b : b > 0)
    IN \A i \in 1 .. Len(items) - 1 : items[i] < items[i + 1]

\* nothing that came after a loss is handed over before the loss is noted
LossNotedFirst(p) == \A x \in p.lost : \A i \in 1 .. Len(p.stream) : p.stream[i] < x
=============================================================================
