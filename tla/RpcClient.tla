----------------------------- MODULE RpcClient ------------------------------
(***************************************************************************)
(* The client half of src/src/rpc.c: a table of call slots.  The functions *)
(* are operators from a client record to the next one, because the layer   *)
(* above (RpcAsync) makes several of these calls inside one of its own.    *)
(*                                                                         *)
(* Time is abstracted to slot.due: the owner's clock has reached           *)
(* started_at + timeout_ms.  The pair of message ids of a method is        *)
(* abstracted to its name, and a call handle to (index, generation).       *)
(***************************************************************************)
EXTENDS Integers, FiniteSetsExt

CONSTANTS
    CallSlot,   \* slot indices, 1 .. slot_count
    OpMax       \* UINT32_MAX for operation ids; an id of 0 is "none"

Terminal == {"COMPLETED", "LINK_FAILED", "TIMED_OUT", "CANCELLED", "APPLICATION_ERROR"}
Waiting == {"QUEUED", "LINK_PENDING", "WAIT_RESPONSE"}
Answerable == {"LINK_PENDING", "WAIT_RESPONSE"}

FreeCall == [state |-> "FREE", gen |-> 0, op |-> 0, method |-> "NONE", tx |-> 0, due |-> FALSE]

\* wl_rpc_client_init
ClientInit == [slots |-> [i \in CallSlot |-> FreeCall], nextGen |-> 1, nextOp |-> 1]

\* client_find and client_find_free; both return the first match.
Holding(c, op) == {i \in CallSlot : c.slots[i].state # "FREE" /\ c.slots[i].op = op}
FreeSlots(c) == {i \in CallSlot : c.slots[i].state = "FREE"}

\* wl_rpc_client_begin_with_id, when it succeeds
CanBeginWithId(c, op) == op # 0 /\ c.nextGen # 0 /\ Holding(c, op) = {} /\ FreeSlots(c) # {}
BeginWithId(c, op, method) ==
    [c EXCEPT !.slots[Min(FreeSlots(c))] =
                  [FreeCall EXCEPT !.state = "QUEUED", !.gen = c.nextGen, !.op = op, !.method = method],
              !.nextGen = @ + 1]

\* wl_rpc_client_begin: the first id from nextOp on that no slot holds; the ids run out
\* instead of wrapping.
Candidates(c) == {op \in c.nextOp .. OpMax : Holding(c, op) = {}}
CanBegin(c) == c.nextOp # 0 /\ Candidates(c) # {} /\ CanBeginWithId(c, Min(Candidates(c)))
Begin(c, method) ==
    LET op == Min(Candidates(c)) IN
    [BeginWithId(c, op, method) EXCEPT !.nextOp = IF op = OpMax THEN 0 ELSE op + 1]

SetState(c, i, state) == [c EXCEPT !.slots[i].state = state]

\* wl_rpc_client_bind_tx: refused when another pending call has the handle
BindTx(c, i, handle) ==
    IF c.slots[i].state = "QUEUED"
       /\ \A j \in CallSlot \ {i} : ~(c.slots[j].state = "LINK_PENDING" /\ c.slots[j].tx = handle)
    THEN [c EXCEPT !.slots[i].tx = handle, !.slots[i].state = "LINK_PENDING"] ELSE c

\* wl_rpc_client_tx_completed
TxCompleted(c, i) == IF c.slots[i].state = "QUEUED" THEN SetState(c, i, "WAIT_RESPONSE") ELSE c

\* wl_rpc_client_link_failed
LinkFailed(c, i) ==
    IF c.slots[i].state \in {"QUEUED", "LINK_PENDING"} THEN SetState(c, i, "LINK_FAILED") ELSE c

\* wl_rpc_client_on_tx_event: the slots a terminal event of the handle speaks to
BoundTo(c, handle) == {i \in CallSlot : c.slots[i].state = "LINK_PENDING" /\ c.slots[i].tx = handle}
ClientTxEvent(c, handle, success) ==
    IF BoundTo(c, handle) = {} THEN c
    ELSE SetState(c, Min(BoundTo(c, handle)), IF success THEN "WAIT_RESPONSE" ELSE "LINK_FAILED")

\* wl_rpc_client_poll, and the part of the deadline hint that says it has work
Overdue(c) == {i \in CallSlot : c.slots[i].state \in Waiting /\ c.slots[i].due}
ClientPoll(c) ==
    [c EXCEPT !.slots = [i \in CallSlot |->
        IF i \in Overdue(c) THEN [c.slots[i] EXCEPT !.state = "TIMED_OUT"] ELSE c.slots[i]]]

\* client_handle_index: the handle still names the call it was taken for
ValidHandle(c, h) == c.slots[h.index].state # "FREE" /\ c.slots[h.index].gen = h.gen

\* wl_rpc_client_cancel_handle (and wl_rpc_client_cancel)
CancelHandle(c, h) ==
    IF ValidHandle(c, h) /\ c.slots[h.index].state \notin Terminal
    THEN SetState(c, h.index, "CANCELLED") ELSE c

\* wl_rpc_client_release_handle (and wl_rpc_client_release)
ReleaseHandle(c, h) ==
    IF ValidHandle(c, h) /\ c.slots[h.index].state \in Terminal
    THEN [c EXCEPT !.slots[h.index] = FreeCall] ELSE c

\* wl_rpc_client_get_handle: the handle of a call that was just begun
HandleOf(c, op) == LET i == Min(Holding(c, op)) IN [index |-> i, gen |-> c.slots[i].gen]

\* wl_rpc_client_response_prepare: the slots whose call this response may complete, and
\* what the attempt leaves behind when the call is overdue
Matching(c, op, method) ==
    {i \in Holding(c, op) : c.slots[i].method = method /\ c.slots[i].state \in Answerable}
TimeOutSlot(c, i) == IF c.slots[i].due THEN SetState(c, i, "TIMED_OUT") ELSE c

\* wl_rpc_client_response_commit: the authority is checked again
Commit(c, h, ok) ==
    IF ~ValidHandle(c, h) \/ c.slots[h.index].state \notin Answerable THEN c
    ELSE IF c.slots[h.index].due THEN SetState(c, h.index, "TIMED_OUT")
    ELSE SetState(c, h.index, IF ok THEN "COMPLETED" ELSE "APPLICATION_ERROR")
=============================================================================
