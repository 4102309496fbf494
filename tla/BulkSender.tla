----------------------------- MODULE BulkSender -----------------------------
(***************************************************************************)
(* The sending half of the bulk transfer (src/bulk_sender.c): one action   *)
(* at a time is lent to the application, submitted, and answered by a      *)
(* Status of the receiver or by the retry timer.                           *)
(*                                                                         *)
(* A transfer identity stands for its whole descriptor.  Time is left out: *)
(* wl_bulk_sender_poll may find its interval elapsed at any moment of a    *)
(* wait.  Action tokens, the abort reason, the last status code and the    *)
(* counters are only reported, never read back, and are left out too.      *)
(***************************************************************************)
EXTENDS Naturals, FiniteSets

-----------------------------------------------------------------------------
(* The objects of the bulk transfer: wl_bulk_descriptor_t, one per identity. *)

CONSTANTS
    Transfers,      \* transfer_id of the objects sent, used once, in increasing order
    Length,         \* total_length of each
    Requested       \* requested_chunk_size of each

ASSUME BulkSizes ==
    /\ Transfers \subseteq Nat \ {0}
    /\ Length \in [Transfers -> Nat]
    /\ Requested \in [Transfers -> Nat \ {0}]

-----------------------------------------------------------------------------
CONSTANT MaxRetries     \* config.max_retries

ASSUME BulkRetries == MaxRetries \in Nat

VARIABLES
    snd,            \* wl_bulk_sender_impl_t
    begun           \* identities the application has used

\* The order of the enumeration wl_bulk_phase_t.
Rank == [NONE |-> 0, BEGIN |-> 1, CHUNK |-> 2, END |-> 3, ABORT |-> 4]

Resting == [state |-> "IDLE", phase |-> "NONE", id |-> 0, off |-> 0, chunk |-> 0,
            retries |-> 0, acquired |-> FALSE, acked |-> FALSE, pause |-> FALSE]

SenderInit == snd = Resting /\ begun = {}

SenderActive == snd.state \in {"READY", "WAIT_STATUS"}

ActionLength ==
    IF snd.phase = "CHUNK" /\ snd.off < Length[snd.id]
    THEN LET rest == Length[snd.id] - snd.off IN IF rest < snd.chunk THEN rest ELSE snd.chunk
    ELSE 0

Prepared(s, phase) ==
    [s EXCEPT !.phase = phase, !.state = "READY", !.acquired = FALSE, !.retries = 0, !.pause = FALSE]

Failed(s) == [s EXCEPT !.state = "FAILED", !.acquired = FALSE, !.pause = FALSE]

-----------------------------------------------------------------------------
Start(id) ==
    /\ snd.state = "IDLE"
    /\ \A used \in begun : used < id
    /\ snd' = Prepared([Resting EXCEPT !.id = id], "BEGIN")
    /\ begun' = begun \cup {id}

RequestAbort ==
    /\ SenderActive \/ snd.state = "FAILED"
    /\ snd.phase # "ABORT"
    /\ ~snd.acquired
    /\ snd' = Prepared(snd, "ABORT")
    /\ UNCHANGED begun

SenderReset ==
    /\ ~snd.acquired
    /\ ~SenderActive
    /\ snd.state = "FAILED" => snd.phase = "ABORT"
    /\ snd' = Resting
    /\ UNCHANGED begun

ActionAcquire ==
    /\ snd.state = "READY"
    /\ ~snd.acquired
    /\ snd' = [snd EXCEPT !.acquired = TRUE]
    /\ UNCHANGED begun

ActionDefer ==
    /\ snd.state = "READY"
    /\ snd.acquired
    /\ snd' = [snd EXCEPT !.acquired = FALSE]
    /\ UNCHANGED begun

\* The message the lent action stands for.
ActionMessage ==
    [kind |-> snd.phase, id |-> snd.id,
     off |-> IF snd.phase = "CHUNK" THEN snd.off ELSE 0, len |-> ActionLength]

ActionSubmitted ==
    /\ snd.state = "READY"
    /\ snd.acquired
    /\ snd' = [snd EXCEPT !.acquired = FALSE, !.state = "WAIT_STATUS", !.pause = FALSE]
    /\ UNCHANGED begun

-----------------------------------------------------------------------------
(* wl_bulk_sender_on_status, one action for each way it ends.             *)

Awaited(st) == st.id = snd.id /\ snd.state = "WAIT_STATUS" /\ ~snd.pause

EndsTransfer(st) == st.phase = "ABORT" /\ st.code \in {"ABORTED", "TIMED_OUT"}

ProposedChunkValid(size) == size # 0 /\ size <= Requested[snd.id]

TerminalValid(st) ==
    /\ st.off <= Length[snd.id]
    /\ IF snd.chunk # 0 THEN st.chunk = snd.chunk
       ELSE IF st.chunk = 0 THEN snd.phase = "ABORT"
       ELSE ProposedChunkValid(st.chunk)

Stale(st) ==
    \/ Rank[st.phase] < Rank[snd.phase]
    \/ /\ snd.phase = "CHUNK" /\ st.phase = "CHUNK"
       /\ st.code = "OK" /\ snd.acked /\ st.off <= snd.off

StatusEnds(st) ==
    /\ Awaited(st) /\ EndsTransfer(st)
    /\ snd' = IF ~TerminalValid(st) THEN Failed(snd)
              ELSE IF st.code = "ABORTED" THEN [snd EXCEPT !.state = "ABORTED", !.off = st.off]
              ELSE Failed([snd EXCEPT !.phase = "ABORT", !.off = st.off])
    /\ UNCHANGED begun

StatusIgnored(st) ==
    /\ Awaited(st) => ~EndsTransfer(st) /\ Stale(st)
    /\ UNCHANGED <<snd, begun>>

\* The status answers the outstanding action.
Answers(st) ==
    /\ st.phase = snd.phase
    /\ snd.phase = "BEGIN" \/ st.chunk = snd.chunk

Current(st) == Awaited(st) /\ ~EndsTransfer(st) /\ ~Stale(st)

StatusMismatched(st) ==
    /\ Current(st) /\ ~Answers(st)
    /\ snd' = Failed(snd)
    /\ UNCHANGED begun

StatusBusy(st) ==
    /\ Current(st) /\ Answers(st) /\ st.code = "BUSY"
    /\ snd' = IF st.off # snd.off \/ snd.retries >= MaxRetries THEN Failed(snd)
              ELSE [snd EXCEPT !.pause = TRUE]
    /\ UNCHANGED begun

\* What is left to send from an acknowledged offset.
Continued(s) == Prepared(s, IF s.off = Length[s.id] THEN "END" ELSE "CHUNK")

StatusOutOfOrder(st) ==
    /\ Current(st) /\ Answers(st) /\ st.code = "OUT_OF_ORDER"
    /\ snd' = IF st.off <= Length[snd.id] /\ snd.phase \in {"BEGIN", "CHUNK"}
                 /\ (snd.phase = "BEGIN" => ProposedChunkValid(st.chunk))
              THEN Continued([snd EXCEPT !.chunk = st.chunk, !.off = st.off, !.acked = FALSE])
              ELSE Failed(snd)
    /\ UNCHANGED begun

StatusRefused(st) ==
    /\ Current(st) /\ Answers(st) /\ st.code \notin {"OK", "BUSY", "OUT_OF_ORDER"}
    /\ snd' = IF st.code = "ABORTED" THEN [snd EXCEPT !.state = "ABORTED"] ELSE Failed(snd)
    /\ UNCHANGED begun

StatusAccepted(st) ==
    /\ Current(st) /\ Answers(st) /\ st.code = "OK"
    /\ snd' =
         CASE snd.phase = "BEGIN" ->
                IF ProposedChunkValid(st.chunk) /\ st.off <= Length[snd.id]
                THEN Continued([snd EXCEPT !.chunk = st.chunk, !.off = st.off])
                ELSE Failed(snd)
           [] snd.phase = "CHUNK" ->
                IF st.off = snd.off + ActionLength /\ st.off <= Length[snd.id]
                THEN Continued([snd EXCEPT !.off = st.off, !.acked = TRUE])
                ELSE Failed(snd)
           [] snd.phase = "END" ->
                IF st.off = Length[snd.id] THEN [snd EXCEPT !.state = "COMPLETED"] ELSE Failed(snd)
           [] snd.phase = "ABORT" -> [snd EXCEPT !.state = "ABORTED", !.off = st.off]
    /\ UNCHANGED begun

OnStatus(st) ==
    \/ StatusEnds(st) \/ StatusIgnored(st) \/ StatusMismatched(st) \/ StatusBusy(st)
    \/ StatusOutOfOrder(st) \/ StatusRefused(st) \/ StatusAccepted(st)

-----------------------------------------------------------------------------
\* wl_bulk_sender_poll with the interval elapsed: the end of a BUSY pause, or
\* a Status that did not come.
SenderPoll ==
    /\ snd.state = "WAIT_STATUS"
    /\ snd' = IF snd.pause \/ snd.retries < MaxRetries
              THEN [snd EXCEPT !.retries = @ + 1, !.state = "READY", !.pause = FALSE]
              ELSE Failed(snd)
    /\ UNCHANGED begun
=============================================================================
