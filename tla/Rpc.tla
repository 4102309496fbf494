-------------------------------- MODULE Rpc ---------------------------------
(***************************************************************************)
(* A remote procedure call from end to end: the asynchronous client of one *)
(* endpoint (RpcAsync over RpcClient), the server of another (RpcServer)   *)
(* and the generated runtime that joins each to its link                   *)
(* (examples/06_bindings/generated/calculator_runtime.c).  Messages that   *)
(* were sent may arrive at any time, any number of times or never.  The    *)
(* client endpoint may close and open again under a new session id.        *)
(*                                                                         *)
(* A call is named by <<sid, gen>>, which also stands for its request body *)
(* and for the answer computed from it: the answer a call gets can be told *)
(* from that of another call, also of an earlier session, where operation  *)
(* ids and generations start over.  Method REL is sent reliably and        *)
(* deduplicated by the server (guarantee replay); UNREL is sent once and   *)
(* only correlated.                                                        *)
(***************************************************************************)
EXTENDS RpcAsync, RpcServer

CONSTANTS
    Method,         \* a subset of {"REL", "UNREL"}
    SessionMax,     \* bound: sessions the client endpoint opens
    ExecMax         \* bound: executions the server begins

VARIABLES
    sid, client, async, cl,     \* client endpoint: session, call table, async layer, link
    results,                    \* rpc_results: the decoded answer per call slot
    authority,                  \* wl_rpc_client_response_t between prepare and commit
    accepted, told,             \* ghost: calls of this session accepted, and told their end
    server, sl,                 \* server endpoint: tables, link
    retiring, blocked,          \* rpc_retiring_tx, rpc_response_retry_blocked
    tokens,                     \* requests the application still has to answer
    owed,                       \* ghost: executions the server may still begin, per identity
    requests, responses         \* everything ever sent

clientVars == <<sid, client, async, cl, results, authority, accepted, told>>
serverVars == <<server, sl, retiring, blocked, tokens, owed>>
vars == <<clientVars, serverVars, requests, responses>>

NoAuthority == [index |-> 0, gen |-> 0, ok |-> FALSE]
Key == (1 .. SessionMax) \X (1 .. OpMax)

Init ==
    /\ sid = 1 /\ client = ClientInit /\ async = AsyncInit /\ cl = IdleLane
    /\ results = [i \in CallSlot |-> NoBody] /\ authority = NoAuthority
    /\ accepted = {} /\ told = {}
    /\ server = ServerInit /\ sl = IdleLane /\ retiring = 0 /\ blocked = FALSE
    /\ tokens = {} /\ owed = [k \in Key |-> 1]
    /\ requests = {} /\ responses = {}

Idle == async.open /\ async.at = 0

(***************************************************************************)
(* The client endpoint.                                                    *)
(***************************************************************************)
\* submit_oldest, from the async layer a and the client table c the caller has made so far
SubmitOldest(a, c, l) ==
    \/ /\ Submittable(a, c, l) = {}
       /\ client' = c /\ cl' = l /\ UNCHANGED requests
    \/ \E i \in Submittable(a, c, l), result \in SendResults :
          LET after == AfterSend(a, c, l, i, result)
              slot == c.slots[a.slots[i].handle.index]
          IN  /\ client' = after.client /\ cl' = after.lane
              /\ requests' = IF result \in {"OK", "HELD"}
                             THEN requests \cup {[sid |-> sid, op |-> slot.op, method |-> slot.method,
                                                  body |-> <<sid, slot.gen>>]}
                             ELSE requests

\* wl_rpc_async_submit.  In a callback (at # 0) overdue calls are left to the service pass.
Submit(method) ==
    /\ async.open /\ ~async.closing
    /\ FreeAsync(async) # {} /\ CanBegin(client)
    /\ LET begun == Begin(client, method)
           op == Min(Candidates(client))
           mine == Accepted(async, begun, op, method)
           table == IF async.at = 0 THEN ClientPoll(begun) ELSE begun
       IN  \/ /\ accepted' = accepted \cup {client.nextGen}
              /\ async' = mine
              /\ SubmitOldest(mine, table, cl)
           \/ \* the request could not be encoded: the call was never accepted
              /\ client' = [begun EXCEPT !.slots[Min(Holding(begun, op))] = FreeCall]
              /\ UNCHANGED <<accepted, async, cl, requests>>
    /\ UNCHANGED <<sid, results, authority, told, serverVars, responses>>

\* wl_rpc_async_cancel
Cancel(i) ==
    /\ async.open /\ ~async.closing
    /\ i \in Allocated(async) /\ StateOf(async, client, i) \notin Terminal
    /\ client' = CancelHandle(client, async.slots[i].handle)
    /\ UNCHANGED <<sid, async, cl, results, authority, accepted, told, serverVars, requests, responses>>

\* notify_terminal of slot i, after which the pass continues at next
Notify(a, c, i, next) ==
    LET done == NotifyTerminal(a, c, cl, i) IN
    /\ async' = [done.async EXCEPT !.at = next]
    /\ client' = done.client /\ cl' = done.lane
    /\ told' = told \cup {a.slots[i].handle.gen}

\* wl_rpc_async_cancel_complete
CancelComplete(i) ==
    /\ Idle /\ ~async.closing
    /\ i \in Allocated(async)
    /\ Notify(async, CancelHandle(client, async.slots[i].handle), i, AfterCancel)
    /\ UNCHANGED <<sid, results, authority, accepted, serverVars, requests, responses>>

\* calculator_runtime_poll for the client, then the start of wl_rpc_async_service
Service ==
    /\ Idle /\ ~async.closing
    /\ LET table == ClientPoll(client) IN
       \/ \* nothing allocated: only a cancelled transaction is collected
          /\ Allocated(async) = {}
          /\ async' = Collected(async, cl) /\ cl' = LaneCollected(async, cl) /\ client' = table
       \/ /\ Allocated(async) # {}
          /\ async' = [Collected(async, cl) EXCEPT !.at = 1]
          /\ cl' = LaneCollected(async, cl) /\ client' = table
    /\ UNCHANGED <<sid, results, authority, accepted, told, serverVars, requests, responses>>

\* The loop of wl_rpc_async_service: the next terminal call is told, or the pass ends.
ServiceNext ==
    /\ async.at # 0
    /\ LET left == {i \in TerminalCalls(async, client) : i >= async.at} IN
       \/ \E i \in left : FirstOf(i, left) /\ Notify(async, client, i, i + 1) /\ UNCHANGED requests
       \/ /\ left = {} /\ async.at # AfterCancel
          /\ async' = [async EXCEPT !.at = 0, !.open = ~async.closing]
          /\ SubmitOldest(async, client, cl)
          /\ UNCHANGED told
       \/ /\ async.at = AfterCancel
          /\ async' = [async EXCEPT !.at = 0]
          /\ UNCHANGED <<client, cl, told, requests>>
    /\ UNCHANGED <<sid, results, authority, accepted, serverVars, responses>>

\* wl_rpc_async_close: every call is cancelled, then one service pass tells them
Close ==
    /\ Idle /\ ~async.closing
    /\ async' = [async EXCEPT !.closing = TRUE, !.at = IF Allocated(async) = {} THEN 0 ELSE 1,
                              !.open = Allocated(async) # {}]
    /\ client' = [client EXCEPT !.slots = [i \in CallSlot |->
                     IF client.slots[i].state \in Waiting
                     THEN [client.slots[i] EXCEPT !.state = "CANCELLED"] ELSE client.slots[i]]]
    /\ UNCHANGED <<sid, cl, results, authority, accepted, told, serverVars, requests, responses>>

\* The endpoint is initialised again: new session id, new tables, new link.
Reopen ==
    /\ ~async.open /\ sid < SessionMax
    /\ sid' = sid + 1 /\ client' = ClientInit /\ async' = AsyncInit /\ cl' = IdleLane
    /\ results' = [i \in CallSlot |-> NoBody] /\ authority' = NoAuthority
    /\ accepted' = {} /\ told' = {}
    /\ UNCHANGED <<serverVars, requests, responses>>

\* A reply to another session is reported and touches no call.
AnySession(m) == TRUE
SameSession(m) == m.sid = sid

\* dispatch_event for a response, up to wl_rpc_client_response_prepare and the decoding of
\* the answer into the call's result slot
ResponsePrepare(m) ==
    /\ Idle /\ ~async.closing /\ authority = NoAuthority
    /\ SameSession(m)
    /\ \E i \in Matching(client, m.op, m.method) :
          /\ client' = TimeOutSlot(client, i)
          /\ IF client.slots[i].due THEN UNCHANGED <<authority, results>>
             ELSE /\ authority' = [index |-> i, gen |-> client.slots[i].gen, ok |-> m.ok]
                  /\ results' = IF m.ok THEN [results EXCEPT ![i] = m.body] ELSE results
    /\ UNCHANGED <<sid, async, cl, accepted, told, serverVars, requests, responses>>

\* wl_rpc_client_response_commit.  The code runs it right after prepare; here other steps of
\* the owner may come between, which the authority is documented to survive.
ResponseCommit ==
    /\ authority # NoAuthority
    /\ client' = Commit(client, [index |-> authority.index, gen |-> authority.gen], authority.ok)
    /\ authority' = NoAuthority
    /\ UNCHANGED <<sid, async, cl, results, accepted, told, serverVars, requests, responses>>

\* dispatch_event for the end of a transaction: async layer, client table, or the pump
ClientTxDone ==
    /\ Idle /\ ~async.closing /\ cl.event /\ ~cl.leased
    /\ async' = RetireTx(async, cl.h)
    /\ client' = IF async.retiring = cl.h THEN client ELSE ClientTxEvent(client, cl.h, cl.state = "SUCCESS")
    /\ cl' = TakeTx(cl, cl.h)
    /\ UNCHANGED <<sid, results, authority, accepted, told, serverVars, requests, responses>>

ClientLane ==
    /\ Idle /\ ~async.closing /\ cl' \in LaneSteps(cl)
    /\ UNCHANGED <<sid, client, async, results, authority, accepted, told, serverVars, requests, responses>>

\* time: a waiting call's deadline passes
CallTick(i) ==
    /\ Idle /\ client.slots[i].state \in Waiting /\ ~client.slots[i].due
    /\ client' = [client EXCEPT !.slots[i].due = TRUE]
    /\ UNCHANGED <<sid, async, cl, results, authority, accepted, told, serverVars, requests, responses>>

ClientNext ==
    \/ \E method \in Method : Submit(method)
    \/ \E i \in CallSlot : Cancel(i) \/ CancelComplete(i) \/ CallTick(i)
    \/ Service \/ ServiceNext \/ Close \/ Reopen
    \/ \E m \in responses : ResponsePrepare(m)
    \/ ResponseCommit \/ ClientTxDone \/ ClientLane

(***************************************************************************)
(* The server endpoint.                                                    *)
(***************************************************************************)
\* Ghost: a replay record that leaves the server between s and t with its answer
\* delivered, or in any state when its session is discarded, earns its key an execution.
Earned(s, t, key, discarded) ==
    IF \E r \in CacheSlot : /\ s.response[r].active = 2 /\ t.response[r].gen # s.response[r].gen
                            /\ <<s.response[r].id.sid, s.response[r].id.op>> = key
                            /\ s.response[r].state = "DELIVERED" \/ s.response[r].id.sid = discarded
    THEN 1 ELSE 0

\* calculator_rpc_request_begin, peer part: the previous session is discarded and the
\* transaction of an answer to it is cancelled, taken or kept for later (cancel_peer_tx)
CancelPeerTx(l, handles) == IF l.h \in handles THEN TakeTx(CancelTx(l, l.h), l.h) ELSE l
StillHeld(l, handles) == IF l.h \in handles /\ ~CanTake(CancelTx(l, l.h), l.h) THEN l.h ELSE retiring

\* What the request handler does with a new request: answers or rejects at once, fails
\* (the request is abandoned), or keeps the token.
Handlers == {"answer", "reject", "fail", "keep"}
Handled(s, t, how) ==
    CASE how = "answer" -> Complete(s, t, TRUE, t.id.body)
      [] how = "reject" -> Complete(s, t, FALSE, NoBody)
      [] how = "fail" -> Abandon(s, CHOOSE p \in Resolves(s, t) : TRUE)
      [] OTHER -> s

\* The request begins an execution in pending slot p and response slot r.
BeginNew(s, p, r, id, how, discarded) ==
    /\ server.nextGen <= ExecMax
    /\ server' = Handled(Reserve(s, p, r, id), Token(s, id), how)
    /\ tokens' = IF how = "keep" THEN tokens \cup {Token(s, id)} ELSE tokens
    /\ owed' = [k \in Key |-> owed[k] + Earned(server, Reserve(s, p, r, id), k, discarded)
                  - (IF id.method = "REL" /\ k = <<id.sid, id.op>> /\ how # "fail" THEN 1 ELSE 0)]

\* dispatch_event for a request
ServeRequest(id) ==
    LET discarded == IF server.peer = id.sid THEN 0 ELSE server.peer
        handles == DiscardedTx(server, discarded)
        seen == PeerObserve(server, id.sid)
        swept == ServerExpire(seen)
        cached == CachedWithKey(swept, id)
        Quiet(s) == /\ server' = s
                    /\ owed' = [k \in Key |-> owed[k] + Earned(server, s, k, discarded)]
                    /\ UNCHANGED tokens
    IN  /\ sl' = CancelPeerTx(sl, handles)
        /\ retiring' = StillHeld(sl, handles)
        /\ blocked' = FALSE
        /\ \/ /\ id.method = "REL" /\ PendingWithKey(seen, id) # {}
              /\ Quiet(seen)
           \/ /\ id.method = "REL" /\ PendingWithKey(seen, id) = {}
              /\ \E r \in cached : Quiet(Replay(ExpireThrough(seen, r), r, id))
           \/ /\ id.method = "REL" /\ PendingWithKey(seen, id) = {} /\ cached = {}
              /\ \E p \in FreePendings(seen), r \in Reservable(swept), how \in Handlers :
                    FirstOf(p, FreePendings(seen)) /\ BeginNew(swept, p, r, id, how, discarded)
           \/ /\ id.method = "REL" /\ PendingWithKey(seen, id) = {} /\ cached = {}
              /\ FreePendings(seen) = {} \/ Reservable(swept) = {}
              /\ Quiet(swept)
           \/ /\ id.method = "UNREL"
              /\ \E p \in FreePendings(seen), r \in CorrelateFree(seen), how \in Handlers :
                    FirstOf(p, FreePendings(seen)) /\ BeginNew(seen, p, r, id, how, discarded)
           \/ /\ id.method = "UNREL" /\ (FreePendings(seen) = {} \/ CorrelateFree(seen) = {})
              /\ Quiet(seen)
        /\ UNCHANGED <<clientVars, requests, responses>>

\* calculator_add_server_finish: complete or reject with a kept token, which may be stale
Finish(t, ok) ==
    /\ tokens' = tokens \ {t}
    /\ server' = Complete(server, t, ok, IF ok THEN t.id.body ELSE NoBody)
    /\ UNCHANGED <<clientVars, sl, retiring, blocked, owed, requests, responses>>

\* wl_rpc_server_abandon by the application, for instance once the request is reported expired
GiveUp(t) ==
    /\ tokens' = tokens \ {t}
    /\ IF Resolves(server, t) = {} THEN UNCHANGED <<server, owed>>
       ELSE /\ server' = Abandon(server, CHOOSE p \in Resolves(server, t) : TRUE)
            /\ owed' = [owed EXCEPT ![<<t.id.sid, t.id.op>>] = @ + (IF t.id.method = "REL" THEN 1 ELSE 0)]
    /\ UNCHANGED <<clientVars, sl, retiring, blocked, requests, responses>>

\* calculator_rpc_response_writable: the answer to send next, if the link would take it
Writable(s, l, stalled) ==
    {r \in OldestReady(s) : ~stalled /\ CanSubmit(l, s.response[r].id.method = "REL")}

\* calculator_runtime_readiness, runnable
ServerRunnable ==
    DeadlineDue(server) \/ CanTake(sl, retiring) \/ Writable(server, sl, blocked) # {}

\* calculator_runtime_poll, server part
Polled(s) == IF DeadlineDue(s) THEN ServerExpire(ReportExpired(s)) ELSE s

\* calculator_runtime_service: retire, deadlines, then at most one response
ServerService ==
    LET retired == CanTake(sl, retiring)
        lane == IF retired THEN TakeTx(sl, retiring) ELSE sl
        s == Polled(server)
        stalled == blocked /\ ~retired
        writable == Writable(s, lane, stalled)
    IN  /\ ServerRunnable
        /\ retiring' = IF retired THEN 0 ELSE retiring
        /\ owed' = [k \in Key |-> owed[k] + Earned(server, s, k, 0)]
        /\ \/ /\ writable = {}
              /\ server' = s /\ sl' = lane /\ blocked' = stalled
              /\ UNCHANGED responses
           \/ \E r \in writable, result \in SendResults :
                LET answer == s.response[r]
                    reliable == answer.id.method = "REL"
                    sent == IF reliable THEN Started(lane, result = "HELD")
                            ELSE [lane EXCEPT !.leased = result = "HELD"]
                IN  IF result \in {"OK", "HELD"}
                    THEN /\ server' = IF reliable THEN Submitted(s, r, sent.h) ELSE Delivering(s, r)
                         /\ sl' = sent /\ blocked' = FALSE
                         /\ responses' = responses \cup
                               {[sid |-> answer.id.sid, op |-> answer.id.op, method |-> answer.id.method,
                                 ok |-> answer.ok, body |-> answer.data]}
                    ELSE /\ server' = s /\ sl' = lane /\ blocked' = TRUE
                         /\ UNCHANGED responses
        /\ UNCHANGED <<clientVars, tokens, requests>>

\* dispatch_event for the end of a transaction: the server, or the pump
ServerTxDone ==
    /\ sl.event /\ ~sl.leased
    /\ server' = IF InFlight(server, sl.h) = {} THEN server
                 ELSE Delivering(server, CHOOSE r \in InFlight(server, sl.h) : TRUE)
    /\ sl' = TakeTx(sl, sl.h) /\ blocked' = FALSE
    /\ UNCHANGED <<clientVars, retiring, tokens, owed, requests, responses>>

ServerLane ==
    /\ sl' \in LaneSteps(sl)
    /\ blocked' = (blocked /\ sl'.leased = sl.leased)
    /\ UNCHANGED <<clientVars, server, retiring, tokens, owed, requests, responses>>

\* wl_tx_writable, or any other change of the link's resources
ServerWritable ==
    /\ blocked /\ blocked' = FALSE
    /\ UNCHANGED <<clientVars, server, sl, retiring, tokens, owed, requests, responses>>

\* time: the pending timeout, the cache time-to-live
ServerTick ==
    /\ \/ \E p \in ActivePending(server) : /\ ~server.pending[p].due
                                           /\ server' = [server EXCEPT !.pending[p].due = TRUE]
       \/ \E r \in CacheSlot \cap ActiveResponse(server) :
             /\ server.response[r].state # "RESERVED" /\ ~server.response[r].aged
             /\ server' = [server EXCEPT !.response[r].aged = TRUE]
    /\ UNCHANGED <<clientVars, sl, retiring, blocked, tokens, owed, requests, responses>>

ServerNext ==
    \/ \E m \in requests : ServeRequest(m)
    \/ \E t \in tokens : GiveUp(t) \/ \E ok \in BOOLEAN : Finish(t, ok)
    \/ ServerService \/ ServerTxDone \/ ServerLane \/ ServerWritable \/ ServerTick

Next == ClientNext \/ ServerNext
Spec == Init /\ [][Next]_vars

(***************************************************************************)
(* Properties.                                                             *)
(***************************************************************************)
LiveCalls == {async.slots[i].handle.gen : i \in Allocated(async)}

\* Every call wl_rpc_async_submit accepted is told its end once: it is in exactly one slot
\* until it is told and in none afterwards, also when callbacks submit and cancel during a
\* service pass, and when cancel_complete or close tells it.
NotifiedOnce ==
    /\ accepted = told \cup LiveCalls /\ told \cap LiveCalls = {}
    /\ \A i, j \in Allocated(async) : i # j => async.slots[i].handle # async.slots[j].handle
    /\ \A i \in Allocated(async) : ValidHandle(client, async.slots[i].handle)

\* A completed call holds the answer computed for that very call, not the answer to
\* another call that used its slot or its operation id before, in this session or in an
\* earlier one.
AnswerMatches ==
    \A i \in CallSlot :
        client.slots[i].state = "COMPLETED" => results[i] = <<sid, client.slots[i].gen>>

\* The server never runs the handler of a deduplicated request again unless the record of
\* the earlier run was delivered and then expired or evicted, was given up by the
\* application, or belonged to a session that ended.
AtMostOnce == \A k \in Key : owed[k] >= 0

\* Pending executions and reserved response slots pair up, so that a completion never fails
\* for want of storage and no storage is lost.
ReservedOwned ==
    /\ \A p \in ActivePending(server) :
          LET q == server.pending[p] IN
          /\ q.response \in ResponseSlot
          /\ server.response[q.response].state = "RESERVED"
          /\ server.response[q.response].gen = q.gen
          /\ server.response[q.response].id = q.id
    /\ \A r \in ResponseSlot : server.response[r].state = "RESERVED" =>
          \E p \in ActivePending(server) : server.pending[p].response = r
    /\ \A p, q \in ActivePending(server) :
          p # q => server.pending[p].response # server.pending[q].response

\* A pending execution ends by its own token or with its session.  A token kept from an
\* earlier execution of the same request never completes or abandons a later one.
OwnTokenOnly ==
    [][\A p \in ActivePending(server) :
          server'.pending[p].gen # server.pending[p].gen =>
             \/ [id |-> server.pending[p].id, gen |-> server.pending[p].gen] \in tokens \ tokens'
             \/ server'.peer # server.peer]_vars

\* A transaction that will raise no further event (it was cancelled) is known to the layer
\* that has to take it; every other settled one still has its event.  Otherwise the link's
\* only reliable slot would stay occupied for good.
NoOrphanTx ==
    /\ async.open => /\ cl.state = "CANCELLED" => async.retiring = cl.h
                     /\ cl.state \in Settled => cl.event
    /\ sl.state = "CANCELLED" => retiring = sl.h
    /\ sl.state \in Settled => sl.event

\* When the readiness of the async layer says it is runnable, a service pass has something
\* to do, or the link has an event to deliver.
AsyncNoSpin ==
    Idle /\ ~async.closing /\ AsyncRunnable(async, client, cl) =>
        \/ TerminalCalls(async, client) # {}
        \/ CanCollect(async, cl) \/ cl.event
        \/ Submittable(async, client, cl) # {}
        \/ Overdue(client) # {}
=============================================================================
