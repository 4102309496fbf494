----------------------------- MODULE RpcServer ------------------------------
(***************************************************************************)
(* The server half of src/src/rpc.c: a table of pending executions and two *)
(* pools of response slots, one whose answers are kept for replay (active  *)
(* 2, the cache) and one whose answers are sent once (active 1, the        *)
(* correlate pool).  The functions are operators from a server record to   *)
(* the next one; where the code takes the first free slot, the caller      *)
(* passes the slot (see FirstOf).                                          *)
(*                                                                         *)
(* Time is abstracted to pending.due (the pending timeout has elapsed) and *)
(* response.aged (the cache time-to-live has elapsed).  A wire identity is *)
(* [sid, op, method, body]; body stands for the request fingerprint.       *)
(***************************************************************************)
EXTENDS Integers

CONSTANTS
    PendingSlot,    \* indices of pending slots
    CacheSlot,      \* indices of replay response slots
    CorrelateSlot,  \* indices of correlate response slots, after the cache's
    NoIdentity,     \* a cleared slot
    EvictOldest     \* cache_policy = WL_RPC_CACHE_EVICT_OLDEST

ResponseSlot == CacheSlot \cup CorrelateSlot

\* the result of a call that has no answer, or one that was rejected
NoBody == <<0, 0>>

FreePending == [active |-> FALSE, id |-> NoIdentity, gen |-> 0, response |-> 0,
                reported |-> FALSE, due |-> FALSE]
FreeResponse == [active |-> 0, id |-> NoIdentity, gen |-> 0, state |-> "NONE", tx |-> 0,
                 aged |-> FALSE, ok |-> FALSE, data |-> NoBody]

\* wl_rpc_server_init_with_correlate, and the runtime's peer record
ServerInit == [pending |-> [p \in PendingSlot |-> FreePending],
               response |-> [r \in ResponseSlot |-> FreeResponse],
               nextGen |-> 1, peer |-> 0]

FirstOf(i, S) == i \in S /\ \A j \in S : i <= j

\* identity_key_equal
SameKey(a, b) == a.sid = b.sid /\ a.op = b.op

ActivePending(s) == {p \in PendingSlot : s.pending[p].active}
FreePendings(s) == PendingSlot \ ActivePending(s)
ActiveResponse(s) == {r \in ResponseSlot : s.response[r].active # 0}

\* server_cache_expire: what it frees, and the pass over the cache slots up to last
ExpiredUndelivered(s, r) == r \in CacheSlot /\ s.response[r].active # 0 /\ s.response[r].aged
Expired(s, r) == /\ r \in CacheSlot
                 /\ s.response[r].active # 0
                 /\ s.response[r].state = "DELIVERED"
                 /\ s.response[r].aged
ExpireThrough(s, last) ==
    [s EXCEPT !.response = [r \in ResponseSlot |->
        IF r <= last /\ Expired(s, r) THEN FreeResponse ELSE s.response[r]]]
\* server_expire (wl_rpc_server_poll): the whole cache
ServerExpire(s) ==
    [s EXCEPT !.response = [r \in ResponseSlot |->
        IF Expired(s, r) THEN FreeResponse ELSE s.response[r]]]

\* The lookups of wl_rpc_server_begin
PendingWithKey(s, id) ==
    {p \in ActivePending(s) : /\ s.response[s.pending[p].response].active = 2
                              /\ SameKey(s.pending[p].id, id)}
CachedWithKey(s, id) ==
    {r \in CacheSlot \cap ActiveResponse(s) : SameKey(s.response[r].id, id)}

\* wl_rpc_server_begin, REPLAY: a delivered answer becomes ready to be sent again
Replay(s, r, id) ==
    IF s.response[r].id = id /\ s.response[r].state = "DELIVERED"
    THEN [s EXCEPT !.response[r].state = "READY"] ELSE s

\* The response slots wl_rpc_server_begin may reserve: a free one, else the oldest
\* delivered one when the policy evicts.
Delivered(s) == {r \in CacheSlot : s.response[r].state = "DELIVERED"}
Reservable(s) ==
    LET free == CacheSlot \ ActiveResponse(s) IN
    IF free # {} THEN {r \in free : FirstOf(r, free)}
    ELSE IF EvictOldest
    THEN {r \in Delivered(s) : \A q \in Delivered(s) : s.response[r].gen <= s.response[q].gen}
    ELSE {}

\* The response slots wl_rpc_server_begin_correlate may reserve
CorrelateFree(s) == LET free == CorrelateSlot \ ActiveResponse(s) IN {r \in free : FirstOf(r, free)}

\* wl_rpc_server_begin, NEW, and wl_rpc_server_begin_correlate
Reserve(s, p, r, id) ==
    [s EXCEPT !.response[r] = [FreeResponse EXCEPT !.active = IF r \in CacheSlot THEN 2 ELSE 1,
                                                   !.id = id, !.gen = s.nextGen, !.state = "RESERVED"],
              !.pending[p] = [FreePending EXCEPT !.active = TRUE, !.id = id, !.gen = s.nextGen,
                                                 !.response = r],
              !.nextGen = @ + 1]
Token(s, id) == [id |-> id, gen |-> s.nextGen]

\* server_resolve_pending: the pending execution a token is for, if it is still there
ResolvesByIdentity(s, t) == {p \in ActivePending(s) : s.pending[p].id = t.id}
Resolves(s, t) == {p \in ActivePending(s) : s.pending[p].id = t.id /\ s.pending[p].gen = t.gen}

\* wl_rpc_server_complete, wl_rpc_server_reject, or response_prepare and response_commit:
\* the answer is written into the reserved slot, the pending slot is freed
CommitReserved(s, p, ok, data) ==
    LET r == s.pending[p].response IN
    [s EXCEPT !.response[r].state = "READY", !.response[r].ok = ok, !.response[r].data = data,
              !.pending[p] = FreePending]

\* wl_rpc_server_response_commit: a token that resolves to nothing is refused
Complete(s, t, ok, data) ==
    IF Resolves(s, t) = {} THEN s
    ELSE CommitReserved(s, CHOOSE p \in Resolves(s, t) : TRUE, ok, data)

\* wl_rpc_server_abandon
AbandonKeepsReserve(s, p) == [s EXCEPT !.pending[p] = FreePending]
Abandon(s, p) ==
    [s EXCEPT !.response[s.pending[p].response] = FreeResponse, !.pending[p] = FreePending]

\* wl_rpc_server_response_peek and _acquire: the oldest ready answer
Ready(s) == {r \in ActiveResponse(s) : s.response[r].state = "READY"}
OldestReady(s) == {r \in Ready(s) : \A q \in Ready(s) : s.response[r].gen <= s.response[q].gen}

\* wl_rpc_server_response_acquire followed by _defer leaves the record as it was;
\* followed by _submitted, or by _sent:
Submitted(s, r, handle) ==
    [s EXCEPT !.response[r].state = "IN_FLIGHT", !.response[r].tx = handle]
Delivering(s, r) ==
    IF s.response[r].active = 2
    THEN [s EXCEPT !.response[r].state = "DELIVERED", !.response[r].tx = 0]
    ELSE [s EXCEPT !.response[r] = FreeResponse]

\* wl_rpc_server_on_tx_event: whatever the transaction's end, the answer has been sent
InFlight(s, handle) ==
    {r \in ActiveResponse(s) : s.response[r].state = "IN_FLIGHT" /\ s.response[r].tx = handle}

\* wl_rpc_server_discard_session
DiscardSession(s, sid) ==
    [s EXCEPT
        !.pending = [p \in PendingSlot |->
            IF s.pending[p].active /\ s.pending[p].id.sid = sid THEN FreePending ELSE s.pending[p]],
        !.response = [r \in ResponseSlot |->
            IF s.response[r].active # 0 /\ s.response[r].id.sid = sid THEN FreeResponse
            ELSE s.response[r]]]
DiscardedTx(s, sid) ==
    {s.response[r].tx : r \in {q \in ActiveResponse(s) : s.response[q].id.sid = sid
                                                        /\ s.response[q].state = "IN_FLIGHT"}}

\* wl_rpc_peer_observe
PeerObserve(s, sid) ==
    IF s.peer = sid THEN s
    ELSE [IF s.peer = 0 THEN s ELSE DiscardSession(s, s.peer) EXCEPT !.peer = sid]

\* wl_rpc_server_expired_acquire
Unreported(s) == {p \in ActivePending(s) : s.pending[p].due /\ ~s.pending[p].reported}
ReportExpired(s) ==
    [s EXCEPT !.pending = [p \in PendingSlot |->
        IF FirstOf(p, Unreported(s)) THEN [s.pending[p] EXCEPT !.reported = TRUE] ELSE s.pending[p]]]

\* wl_rpc_server_get_deadline_hint, when a deadline has been reached
DeadlineDue(s) == Unreported(s) # {} \/ \E r \in CacheSlot : Expired(s, r)
=============================================================================
