---------------------------- MODULE BulkReceiver ----------------------------
(***************************************************************************)
(* The receiving half of the bulk transfer (src/bulk_receiver.c) and the   *)
(* product's sink that it drives.  Every message is answered by one        *)
(* retained Status; nothing is taken while one is retained.                *)
(*                                                                         *)
(* The sink is the product's: it may answer any of its calls OK, BUSY or   *)
(* FAILED (one value for the three failure codes), and may resume an       *)
(* object where it once got to.  Its variables record what it was asked.   *)
(* The idle timer may be found elapsed at any moment of a transfer.  The   *)
(* terminal phase only selects which counter a late End adds to.           *)
(***************************************************************************)
EXTENDS BulkSender

CONSTANTS
    MaxObject,      \* config.max_object_length
    MaxChunk,       \* config.max_chunk_size
    Alignment       \* config.write_alignment

ASSUME BulkLimits ==
    Alignment \in Nat \ {0} /\ MaxChunk \in Nat /\ MaxChunk >= Alignment /\ MaxObject \in Nat

VARIABLES
    rcv,            \* wl_bulk_receiver_impl_t
    out,            \* its retained Status and whether the application holds it
    sink            \* the product: session it has open, bytes stored, commits made

receiver == <<rcv, out, sink>>

NoStatus == [id |-> 0, phase |-> "NONE", code |-> "OK", off |-> 0, chunk |-> 0]

Vacant == [state |-> "IDLE", id |-> 0, total |-> 0, request |-> 0, off |-> 0, chunk |-> 0,
           code |-> "OK", sink |-> FALSE]

ReceiverInit ==
    /\ rcv = Vacant
    /\ out = [pending |-> FALSE, held |-> FALSE, status |-> NoStatus]
    /\ sink = [open |-> 0, stored |-> 0, reached |-> [t \in Transfers |-> 0],
               commits |-> [t \in Transfers |-> 0]]

-----------------------------------------------------------------------------
(* Helpers of the receiver.                                                *)

\* retain_status: the Status that answers the message.
Retain(id, phase, code, off, chunk) ==
    out' = [pending |-> TRUE, held |-> FALSE,
            status |-> [id |-> id, phase |-> phase, code |-> code, off |-> off, chunk |-> chunk]]

\* The same with what the receiver holds now.
Report(id, phase, code) == Retain(id, phase, code, rcv.off, rcv.chunk)

\* negotiate_chunk_size: 0 when the transfer cannot be received.
Negotiated(id) ==
    LET limit == IF Requested[id] > MaxChunk THEN MaxChunk ELSE Requested[id]
        whole == limit - (limit % Alignment)
    IN  IF Length[id] > MaxObject THEN 0
        ELSE IF whole # 0 THEN whole
        ELSE IF Length[id] > limit THEN 0 ELSE limit

ResumeValid(id, offset) ==
    offset <= Length[id] /\ (offset = Length[id] \/ offset % Alignment = 0)

SameDescriptor(id) ==
    rcv.id = id /\ rcv.total = Length[id] /\ rcv.request = Requested[id]

TerminalCode ==
    CASE rcv.state = "COMPLETED" -> "OK" [] rcv.state = "ABORTED" -> "ABORTED" [] OTHER -> rcv.code

EnterFailure(r, code) == [r EXCEPT !.state = "FAILED", !.code = code]

ChunkShapeValid(m) ==
    /\ m.len <= rcv.chunk
    /\ m.off + m.len <= rcv.total
    /\ m.off % Alignment = 0
    /\ m.off + m.len # rcv.total => m.len % Alignment = 0

\* What the sink records of a begin, a write, an abort and a commit.  A write
\* adds its bytes to those stored, wherever the receiver believes they go.
Holding(s, id, length) ==
    [s EXCEPT !.open = id, !.stored = length, !.reached[id] = IF length > @ THEN length ELSE @]
Opened(s, id, offset) == Holding(s, id, offset)
Written(s, id, length) == Holding(s, id, s.stored + length)
Closed(s) == [s EXCEPT !.open = 0, !.stored = 0]
Committed(s, id) == [Closed(s) EXCEPT !.commits[id] = IF @ < 2 THEN @ + 1 ELSE @]

-----------------------------------------------------------------------------
(* wl_bulk_receiver_on_begin.                                              *)

Takes(m, kind) == m.kind = kind /\ ~out.pending

BeginInvalid(m) ==
    /\ Takes(m, "BEGIN") /\ Negotiated(m.id) = 0
    /\ Report(m.id, "BEGIN", "INVALID")
    /\ UNCHANGED <<rcv, sink>>

BeginDuplicate(m) ==
    /\ Takes(m, "BEGIN") /\ Negotiated(m.id) # 0
    /\ rcv.state # "IDLE" /\ SameDescriptor(m.id)
    /\ Report(m.id, "BEGIN", TerminalCode)
    /\ UNCHANGED <<rcv, sink>>

BeginConflict(m) ==
    /\ Takes(m, "BEGIN") /\ Negotiated(m.id) # 0
    /\ rcv.state # "IDLE" /\ ~SameDescriptor(m.id)
    /\ rcv.state = "RECEIVING" \/ m.id = rcv.id
    /\ Report(m.id, "BEGIN", "CONFLICT")
    /\ UNCHANGED <<rcv, sink>>

\* A first Begin, or one that replaces the record of an ended transfer: the
\* session that record still owns is given up before the sink is asked.
Replaces(m) ==
    /\ Takes(m, "BEGIN") /\ Negotiated(m.id) # 0
    /\ rcv.state # "IDLE" => rcv.state # "RECEIVING" /\ m.id # rcv.id

Vacated == IF rcv.sink THEN Closed(sink) ELSE sink

BeginBusy(m) ==
    /\ Replaces(m)
    /\ rcv' = [rcv EXCEPT !.sink = FALSE]
    /\ sink' = Vacated
    /\ Retain(m.id, "BEGIN", "BUSY", 0, Negotiated(m.id))

\* The receiver forgets that it owns the session it opened.
ReplacementForgetsSink(m) ==
    [rcv EXCEPT !.id = m.id, !.total = Length[m.id], !.request = Requested[m.id],
                !.chunk = Negotiated(m.id)]

\* The record of the transfer the sink answered for.
Replacement(m) ==
    [rcv EXCEPT !.id = m.id, !.total = Length[m.id], !.request = Requested[m.id],
                !.chunk = Negotiated(m.id), !.sink = TRUE]

BeginOpened(m, resume) ==
    /\ Replaces(m) /\ ResumeValid(m.id, resume)
    /\ rcv' = [Replacement(m) EXCEPT !.off = resume, !.state = "RECEIVING"]
    /\ sink' = Opened(Vacated, m.id, resume)
    /\ Retain(m.id, "BEGIN", "OK", resume, Negotiated(m.id))

\* The sink failed, or resumes at an offset the object does not have.
BeginFailed(m, code) ==
    /\ Replaces(m)
    /\ rcv' = EnterFailure(Replacement(m), code)
    /\ sink' = [Vacated EXCEPT !.open = m.id]
    /\ Retain(m.id, "BEGIN", code, 0, Negotiated(m.id))

OnBegin(m) ==
    \/ BeginInvalid(m) \/ BeginDuplicate(m) \/ BeginConflict(m) \/ BeginBusy(m)
    \/ \E resume \in {0, sink.reached[m.id]} : BeginOpened(m, resume)
    \/ \E code \in {"FAILED", "INVALID"} : BeginFailed(m, code)

-----------------------------------------------------------------------------
(* wl_bulk_receiver_on_chunk.                                              *)

ChunkUnexpected(m) ==
    /\ Takes(m, "CHUNK") /\ rcv.state = "IDLE"
    /\ Retain(m.id, "CHUNK", "OUT_OF_ORDER", 0, 0)
    /\ UNCHANGED <<rcv, sink>>

ChunkRejected(m) ==
    /\ Takes(m, "CHUNK") /\ rcv.state # "IDLE"
    /\ m.id # rcv.id \/ ~ChunkShapeValid(m)
    /\ Report(m.id, "CHUNK", IF m.id # rcv.id THEN "CONFLICT" ELSE "INVALID")
    /\ UNCHANGED <<rcv, sink>>

ChunkFits(m) == Takes(m, "CHUNK") /\ rcv.state # "IDLE" /\ m.id = rcv.id /\ ChunkShapeValid(m)

ChunkDuplicate(m) ==
    /\ ChunkFits(m) /\ m.off + m.len <= rcv.off
    /\ Report(m.id, "CHUNK", TerminalCode)
    /\ UNCHANGED <<rcv, sink>>

ChunkGap(m) ==
    /\ ChunkFits(m) /\ m.off + m.len > rcv.off /\ m.off # rcv.off
    /\ Report(m.id, "CHUNK", "OUT_OF_ORDER")
    /\ UNCHANGED <<rcv, sink>>

ChunkNext(m) == ChunkFits(m) /\ m.off + m.len > rcv.off /\ m.off = rcv.off

ChunkLate(m) ==
    /\ ChunkNext(m) /\ rcv.state # "RECEIVING"
    /\ Report(m.id, "CHUNK", TerminalCode)
    /\ UNCHANGED <<rcv, sink>>

ChunkBusy(m) ==
    /\ ChunkNext(m) /\ rcv.state = "RECEIVING"
    /\ Report(m.id, "CHUNK", "BUSY")
    /\ UNCHANGED <<rcv, sink>>

ChunkWritten(m) ==
    /\ ChunkNext(m) /\ rcv.state = "RECEIVING"
    /\ rcv' = [rcv EXCEPT !.off = m.off + m.len]
    /\ sink' = Written(sink, m.id, m.len)
    /\ Retain(m.id, "CHUNK", "OK", m.off + m.len, rcv.chunk)

ChunkFailed(m) ==
    /\ ChunkNext(m) /\ rcv.state = "RECEIVING"
    /\ rcv' = EnterFailure(rcv, "FAILED")
    /\ Report(m.id, "CHUNK", "FAILED")
    /\ UNCHANGED sink

OnChunk(m) ==
    \/ ChunkUnexpected(m) \/ ChunkRejected(m) \/ ChunkDuplicate(m) \/ ChunkGap(m)
    \/ ChunkLate(m) \/ ChunkBusy(m) \/ ChunkWritten(m) \/ ChunkFailed(m)

-----------------------------------------------------------------------------
(* wl_bulk_receiver_on_end.                                                *)

EndUnexpected(m) ==
    /\ Takes(m, "END") /\ rcv.state = "IDLE"
    /\ Retain(m.id, "END", "OUT_OF_ORDER", 0, 0)
    /\ UNCHANGED <<rcv, sink>>

EndMatches(m) == m.id = rcv.id /\ rcv.total = Length[m.id]

EndConflict(m) ==
    /\ Takes(m, "END") /\ rcv.state # "IDLE" /\ ~EndMatches(m)
    /\ Report(m.id, "END", "CONFLICT")
    /\ UNCHANGED <<rcv, sink>>

\* A late End is answered OK whatever became of the transfer.
EndLateAlwaysOk(m) ==
    /\ Takes(m, "END") /\ rcv.state \notin {"IDLE", "RECEIVING"} /\ EndMatches(m)
    /\ Report(m.id, "END", "OK")
    /\ UNCHANGED <<rcv, sink>>

\* The duplicate of an End already answered, or an End of a failed or
\* aborted transfer.
EndLate(m) ==
    /\ Takes(m, "END") /\ rcv.state \notin {"IDLE", "RECEIVING"} /\ EndMatches(m)
    /\ Report(m.id, "END", TerminalCode)
    /\ UNCHANGED <<rcv, sink>>

EndEarly(m) ==
    /\ Takes(m, "END") /\ rcv.state = "RECEIVING" /\ EndMatches(m) /\ rcv.off # rcv.total
    /\ Report(m.id, "END", "OUT_OF_ORDER")
    /\ UNCHANGED <<rcv, sink>>

EndNow(m) == Takes(m, "END") /\ rcv.state = "RECEIVING" /\ EndMatches(m) /\ rcv.off = rcv.total

EndBusy(m) ==
    /\ EndNow(m)
    /\ Report(m.id, "END", "BUSY")
    /\ UNCHANGED <<rcv, sink>>

EndCommitted(m) ==
    /\ EndNow(m)
    /\ rcv' = [rcv EXCEPT !.state = "COMPLETED", !.code = "OK", !.sink = FALSE]
    /\ sink' = Committed(sink, m.id)
    /\ Report(m.id, "END", "OK")

EndFailed(m) ==
    /\ EndNow(m)
    /\ rcv' = EnterFailure(rcv, "FAILED")
    /\ Report(m.id, "END", "FAILED")
    /\ UNCHANGED sink

OnEnd(m) ==
    \/ EndUnexpected(m) \/ EndConflict(m) \/ EndLate(m) \/ EndEarly(m)
    \/ EndBusy(m) \/ EndCommitted(m) \/ EndFailed(m)

-----------------------------------------------------------------------------
(* wl_bulk_receiver_on_abort.                                              *)

Aborted(r) == [r EXCEPT !.state = "ABORTED", !.code = "ABORTED", !.sink = FALSE]

\* retain_abort_tombstone: the Abort of a transfer this record is not about.
AbortUnknown(m) ==
    /\ Takes(m, "ABORT")
    /\ rcv.state = "IDLE" \/ (rcv.state # "RECEIVING" /\ m.id # rcv.id)
    /\ rcv' = Aborted([Vacant EXCEPT !.id = m.id])
    /\ sink' = Vacated
    /\ Retain(m.id, "ABORT", "ABORTED", 0, 0)

AbortConflict(m) ==
    /\ Takes(m, "ABORT")
    /\ \/ rcv.state = "RECEIVING" /\ m.id # rcv.id
       \/ rcv.state = "COMPLETED" /\ m.id = rcv.id
    /\ Report(m.id, "ABORT", "CONFLICT")
    /\ UNCHANGED <<rcv, sink>>

AbortDuplicate(m) ==
    /\ Takes(m, "ABORT") /\ rcv.state = "ABORTED" /\ m.id = rcv.id
    /\ Report(m.id, "ABORT", "ABORTED")
    /\ UNCHANGED <<rcv, sink>>

\* An abort also undoes a completed transfer.
AbortNowCompleted(m) ==
    /\ Takes(m, "ABORT") /\ rcv.state \in {"RECEIVING", "FAILED", "COMPLETED"} /\ m.id = rcv.id
    /\ rcv' = Aborted(rcv)
    /\ sink' = Vacated
    /\ Report(m.id, "ABORT", "ABORTED")

AbortNow(m) ==
    /\ Takes(m, "ABORT") /\ rcv.state \in {"RECEIVING", "FAILED"} /\ m.id = rcv.id
    /\ rcv' = Aborted(rcv)
    /\ sink' = Vacated
    /\ Report(m.id, "ABORT", "ABORTED")

OnAbort(m) == AbortUnknown(m) \/ AbortConflict(m) \/ AbortDuplicate(m) \/ AbortNow(m)

-----------------------------------------------------------------------------
(* The retained Status, the idle timer and reset.                          *)

StatusAcquire ==
    /\ out.pending /\ ~out.held
    /\ out' = [out EXCEPT !.held = TRUE]
    /\ UNCHANGED <<rcv, sink>>

StatusDefer ==
    /\ out.pending /\ out.held
    /\ out' = [out EXCEPT !.held = FALSE]
    /\ UNCHANGED <<rcv, sink>>

StatusRelease ==
    /\ out.pending /\ out.held
    /\ out' = [pending |-> FALSE, held |-> FALSE, status |-> NoStatus]
    /\ UNCHANGED <<rcv, sink>>

ReceiverPoll ==
    /\ rcv.state = "RECEIVING" /\ ~out.pending
    /\ rcv' = EnterFailure([rcv EXCEPT !.sink = FALSE], "TIMED_OUT")
    /\ sink' = Vacated
    /\ Report(rcv.id, "ABORT", "TIMED_OUT")

ReceiverReset ==
    /\ ~out.held
    /\ rcv' = Vacant
    /\ sink' = Vacated
    /\ out' = [pending |-> FALSE, held |-> FALSE, status |-> NoStatus]
=============================================================================
