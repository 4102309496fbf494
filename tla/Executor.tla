------------------------------ MODULE Executor ------------------------------
(***************************************************************************)
(* The threaded owner of an endpoint (src/runtime/host/src/executor.cpp):  *)
(* business threads admit remote calls, submit newest values, feed bytes   *)
(* and ask for a stop; the adapter's thread reports finished               *)
(* transmissions; one owner thread dispatches, steps the endpoint (module  *)
(* Endpoint, driven by the pump of src/src/pump.c), and sleeps on a        *)
(* coalescing event.  A critical section is one action; everything between *)
(* two of them interleaves, the two halves of a notification included.     *)
(* The 64-bit wake generation is kept as wakeMoved: it differs from the    *)
(* one the owner observed.  A call's result is left out: it is finished or *)
(* it is not.  Start and stop come from one controlling thread.            *)
(***************************************************************************)
EXTENDS Endpoint, FiniteSets

CONSTANTS Thread,         \* business threads; each owns one remote call
          Adapter,        \* the thread that reports finished transmissions
          NoJob,
          JobSlots,       \* admission slots (eight in the code)
          CommandCap,     \* newest-value lanes (eight in the code)
          DispatchBudget, \* newest values sent in one pass (two in the code)
          Plans           \* bounds: which operations the threads begin and how many, how
                          \* often the clients get work and of which kinds, how many
                          \* deadlines of theirs pass; every behaviour follows one plan

ASSUME ExecutorAssumption ==
    /\ IsFiniteSet(Thread) /\ Adapter \notin Thread /\ NoJob \notin Thread
    /\ JobSlots \in Nat /\ CommandCap \in Nat /\ DispatchBudget \in Nat

Actor == Thread \cup {Adapter}
Slot == 1 .. JobSlots

VARIABLES
    pc,          \* pc[a]: where the thread is in its operation
    opc,         \* where the owner is in its loop
    batch,       \* the jobs the owner collected and has not dispatched
    budget,      \* newest values the owner may still send in this pass
    permit, pending, wakeMoved,      \* the coalescing event, the wake generation
    life, accepting, stop,           \* m_state, m_accepting, m_stop_requested
    table, rpcPending, job,          \* m_rpc_jobs, m_rpc_pending, the jobs
    cmds, cmdPending, held,          \* the outbox's depth, m_commands_pending, the lent item
    producers, rx,                   \* feeds in flight, frames waiting in the ring
    txDone,                          \* a completion the adapter's service has not reaped
    e,                               \* the endpoint
    plan, ops, given, ticked         \* the plan, and what it has left to count

wake == <<permit, pending, wakeMoved>>
gate == <<life, accepting, stop>>
rpc == <<table, rpcPending, job>>
outbox == <<cmds, cmdPending, held>>
link == <<rx, txDone, e>>
bounds == <<plan, ops, given, ticked>>
vars == <<pc, opc, batch, budget, wake, gate, rpc, outbox, producers, link, bounds>>

Job == [st : {"none", "queued", "collected", "active", "done"},
        cancel : {"no", "asked", "sent"}, due : BOOLEAN, finishes : 0 .. 2]
NewJob == [st |-> "none", cancel |-> "no", due |-> FALSE, finishes |-> 0]

ExecutorInit ==
    /\ pc = [a \in Actor |-> "idle"]
    /\ opc = "off" /\ batch = {} /\ budget = 0
    /\ permit = FALSE /\ pending = FALSE /\ wakeMoved = FALSE
    /\ life = "ready" /\ accepting = FALSE /\ stop = FALSE
    /\ table = [s \in Slot |-> NoJob] /\ rpcPending = FALSE
    /\ job = [t \in Thread |-> NewJob]
    /\ cmds = 0 /\ cmdPending = FALSE /\ held = "no"
    /\ producers = 0 /\ rx = 0 /\ txDone = FALSE /\ e = NewEndpoint
    /\ plan \in Plans /\ ops = 0 /\ given = 0 /\ ticked = 0

----------------------------------------------------------------------------
(* notify(): bump the generation, mark the event, release its permit.      *)

Goto(a, to) == pc' = [pc EXCEPT ![a] = to]

NotifyGeneration(a) ==
    /\ pc[a] = "notify" /\ wakeMoved' = TRUE /\ Goto(a, "mark")
    /\ UNCHANGED <<opc, batch, budget, permit, pending, gate, rpc, outbox, producers, link, bounds>>

NotifyMark(a) ==
    /\ pc[a] = "mark" /\ pending' = TRUE /\ Goto(a, IF pending THEN "idle" ELSE "release")
    /\ UNCHANGED <<opc, batch, budget, permit, wakeMoved, gate, rpc, outbox, producers, link, bounds>>

NotifyRelease(a) ==
    /\ pc[a] = "release" /\ permit' = TRUE /\ Goto(a, "idle")
    /\ UNCHANGED <<opc, batch, budget, pending, wakeMoved, gate, rpc, outbox, producers, link, bounds>>

\* the owner notifies itself: nothing interleaves that it could miss
OwnerNotified == wakeMoved' = TRUE /\ pending' = TRUE /\ permit' = (permit \/ ~pending)

----------------------------------------------------------------------------
(* Business threads and the adapter.                                       *)

\* thread t begins an operation that goes on at "to"
Begins(t, op, to) ==
    /\ pc[t] = "idle" /\ life # "ready" /\ op \in plan.kinds /\ ops < plan.ops
    /\ ops' = ops + 1 /\ Goto(t, to) /\ UNCHANGED <<plan, given, ticked>>

\* start(): the owner thread begins its loop
Start ==
    /\ life = "ready"
    /\ life' = "running" /\ stop' = FALSE /\ accepting' = TRUE /\ opc' = "top"
    /\ OwnerNotified
    /\ UNCHANGED <<pc, batch, budget, rpc, outbox, producers, link, bounds>>

\* stop() before start(): the endpoint is closed in place
StopReady ==
    /\ life = "ready" /\ life' = "stopped" /\ accepting' = FALSE
    /\ UNCHANGED <<pc, opc, batch, budget, wake, stop, rpc, outbox, producers, link, bounds>>

\* requestStop(), in its three stores
RequestStop(t) ==
    /\ Begins(t, "stop", "stopping") /\ accepting' = FALSE
    /\ UNCHANGED <<opc, batch, budget, wake, life, stop, rpc, outbox, producers, link>>

RequestStopStores(t) ==
    /\ pc[t] = "stopping" /\ stop' = TRUE /\ Goto(t, "notify")
    /\ life' = IF life = "running" THEN "stopping" ELSE life
    /\ UNCHANGED <<opc, batch, budget, wake, accepting, rpc, outbox, producers, link, bounds>>

FreeSlots == {s \in Slot : table[s] = NoJob}
FirstFree == CHOOSE s \in FreeSlots : \A r \in FreeSlots : s <= r

\* s_invokeRpc and submitRpc, their critical section; admission is refused by the caller's
\* early returns when the executor does not accept or the table is full
AdmitsUnchecked(t) == FreeSlots # {} /\ job[t].st = "none"
Admits(t) == accepting /\ FreeSlots # {} /\ job[t].st = "none"
SubmitRpc(t) ==
    /\ Begins(t, "call", "notify") /\ Admits(t)
    /\ table' = [table EXCEPT ![FirstFree] = t]
    /\ job' = [job EXCEPT ![t].st = "queued"]
    /\ rpcPending' = TRUE
    /\ UNCHANGED <<opc, batch, budget, wake, gate, outbox, producers, link>>

\* cancelRpc: any thread may ask for any admitted task
InTable(u) == \E s \in Slot : table[s] = u
CancelRpc(t, u) ==
    /\ Begins(t, "cancel", "notify") /\ accepting
    /\ InTable(u) /\ job[u].cancel = "no"
    /\ job' = [job EXCEPT ![u].cancel = "asked"]
    /\ rpcPending' = TRUE
    /\ UNCHANGED <<opc, batch, budget, wake, gate, table, outbox, producers, link>>

\* submitLatest, its critical section: a new lane, or a newer value for an occupied one
SubmitLatest(t) ==
    /\ Begins(t, "latest", "notify") /\ accepting
    /\ \/ cmds < CommandCap /\ cmds' = cmds + 1 /\ UNCHANGED held
       \/ cmds > 0 /\ UNCHANGED cmds /\ held' = IF held = "held" THEN "superseded" ELSE held
    /\ cmdPending' = TRUE
    /\ UNCHANGED <<opc, batch, budget, wake, gate, rpc, producers, link>>

\* feedBytes: check, announce, check again, feed, withdraw
FeedAnnounce(t) ==
    /\ Begins(t, "feed", "recheck") /\ accepting /\ producers' = producers + 1
    /\ UNCHANGED <<opc, batch, budget, wake, gate, rpc, outbox, link>>

FeedBytes(t) ==
    /\ pc[t] = "recheck"
    /\ \/ accepting /\ rx' = rx + 1 /\ Goto(t, "withdraw") /\ UNCHANGED producers
       \/ ~accepting /\ producers' = producers - 1 /\ Goto(t, "idle") /\ UNCHANGED rx
    /\ UNCHANGED <<opc, batch, budget, wake, gate, rpc, outbox, txDone, e, bounds>>

FeedWithdraw(t) ==
    /\ pc[t] = "withdraw" /\ producers' = producers - 1 /\ Goto(t, "notify")
    /\ UNCHANGED <<opc, batch, budget, wake, gate, rpc, outbox, link, bounds>>

\* the transport finished the unit it holds
TransmitDone ==
    /\ pc[Adapter] = "idle" /\ ~e.free /\ ~txDone
    /\ txDone' = TRUE /\ Goto(Adapter, "notify")
    /\ UNCHANGED <<opc, batch, budget, wake, gate, rpc, outbox, producers, rx, e, bounds>>

\* time: the deadline of an active call passes, or the one of a blocked client
CallDue(t) ==
    /\ job[t].st = "active" /\ ~job[t].due
    /\ job' = [job EXCEPT ![t].due = TRUE]
    /\ UNCHANGED <<pc, opc, batch, budget, wake, gate, table, rpcPending, outbox, producers, link, bounds>>

ClientDue(c) ==
    /\ opc # "off" /\ e.want[c] > 0 /\ c \notin e.due /\ ticked < plan.ticks
    /\ e' = [e EXCEPT !.due = @ \cup {c}] /\ ticked' = ticked + 1
    /\ UNCHANGED <<pc, opc, batch, budget, wake, gate, rpc, outbox, producers, rx, txDone, plan, ops, given>>

----------------------------------------------------------------------------
(* The owner's loop.                                                       *)

Others == UNCHANGED <<pc, plan, ops, ticked>>         \* no other thread moves
Asleep == Others /\ UNCHANGED given             \* and no client gets work

\* s_run, the loop's head: leave on a stop request, else consume the event's permit
OwnerTop ==
    /\ opc = "top" /\ Asleep
    /\ permit' = (permit /\ stop)
    /\ opc' = IF stop THEN "close" ELSE IF permit THEN "clear" ELSE "observe"
    /\ UNCHANGED <<batch, budget, pending, wakeMoved, gate, rpc, outbox, producers, link>>

\* CoalescingEvent::consumed
ClearKeepsMark ==
    /\ opc = "clear" /\ Asleep /\ opc' = "observe"
    /\ UNCHANGED <<batch, budget, wake, gate, rpc, outbox, producers, link>>
OwnerClear ==
    /\ opc = "clear" /\ Asleep /\ opc' = "observe" /\ pending' = FALSE
    /\ UNCHANGED <<batch, budget, permit, wakeMoved, gate, rpc, outbox, producers, link>>

OwnerObserve ==
    /\ opc = "observe" /\ Asleep /\ opc' = "collect" /\ wakeMoved' = FALSE
    /\ UNCHANGED <<batch, budget, permit, pending, gate, rpc, outbox, producers, link>>

\* s_dispatchRpc: what one pass over the table collects, and as what
ToCancel == {t \in Thread : InTable(t) /\ job[t].cancel = "asked"}
ToSubmit == {t \in Thread : InTable(t) /\ job[t].st = "queued"} \ ToCancel

OwnerCollect ==
    /\ opc = "collect" /\ Asleep /\ opc' = "dispatch"
    /\ IF rpcPending
       THEN /\ batch' = ToCancel \X {"cancel"} \cup ToSubmit \X {"submit"}
            /\ job' = [t \in Thread |->
                         IF t \in ToCancel THEN [job[t] EXCEPT !.cancel = "sent"]
                         ELSE IF t \in ToSubmit THEN [job[t] EXCEPT !.st = "collected"]
                         ELSE job[t]]
            /\ rpcPending' = FALSE
       ELSE UNCHANGED <<batch, job, rpcPending>>
    /\ UNCHANGED <<budget, wake, gate, table, outbox, producers, link>>

\* s_finishRpc: the job leaves the table and its owner is told
Vacate(done) == table' = [s \in Slot |-> IF table[s] \in done THEN NoJob ELSE table[s]]
Finished(done) ==
    [t \in Thread |->
       IF t \in done
       THEN [job[t] EXCEPT !.st = "done", !.due = FALSE,
                           !.finishes = IF @ = 2 THEN 2 ELSE @ + 1]
       ELSE job[t]]
FinishRpc(done) == Vacate(done) /\ job' = Finished(done)

\* the rest of s_dispatchRpc: submit may be rejected (or be answered in place), and may
\* leave a service with work; cancelling a job that never started finishes it at once
OwnerDispatch ==
    /\ opc = "dispatch" /\ Others
    /\ \/ batch = {} /\ opc' = "service" /\ UNCHANGED <<batch, rpc, wake, e, given>>
       \/ \E b \in batch :
            /\ batch' = batch \ {b} /\ UNCHANGED <<opc, rpcPending>>
            /\ \/ FinishRpc({b[1]}) /\ UNCHANGED <<wake, e, given>>
               \/ b[2] = "submit" /\ job' = [job EXCEPT ![b[1]].st = "active"]
                  /\ UNCHANGED table
                  /\ \/ UNCHANGED <<wake, e, given>>
                     \/ /\ given < plan.work /\ given' = given + 1 /\ OwnerNotified
                        /\ e' \in {ActivatePolicy(e)} \cup {ActivateService(e, i) : i \in Service}
               \/ b[2] = "cancel" /\ job[b[1]].st # "queued"
                  /\ UNCHANGED <<table, job, wake, e, given>>
    /\ UNCHANGED <<budget, gate, outbox, producers, rx, txDone>>

\* wl_pump_step, first part: the adapter is serviced when it is ready
OwnerService ==
    /\ opc = "service" /\ Asleep /\ opc' = "poll"
    /\ txDone' = FALSE /\ e' = IF txDone THEN LinkReleased(e) ELSE e
    /\ UNCHANGED <<batch, budget, wake, gate, rpc, outbox, producers, rx>>

\* wl_pump_step, its polls, under an event budget of one: a frame answers a call or
\* leaves a client with work, and its event gives an RX slot back
Answered == {<<{t}, EndpointWoken(e, 1)>> : t \in {u \in Thread : job[u].st = "active"}}
Tasks == {w \in plan.tasks \cap Work : txDone => \A c \in Client : w[c] # 3}   \* a finished unit stays
Asked == {<<{}, EndpointEvent(e, sid, w)>> : w \in Tasks, sid \in 1 .. SessionMax}
Ignored == {<<{}, EndpointWoken(e, sid)>> : sid \in 1 .. SessionMax}
Polled ==
    IF rx = 0 THEN {<<{}, e>>}
    ELSE Answered \cup Ignored \cup (IF given < plan.work THEN Asked ELSE {})

Overdue == {t \in Thread : job[t].st = "active" /\ job[t].due}

\* ... then its application step; and the loop's second look at the stop request
OwnerPump ==
    /\ opc = "poll" /\ Others
    /\ opc' = IF stop THEN "close" ELSE "latest"
    /\ budget' = DispatchBudget /\ rx' = IF rx > 0 THEN rx - 1 ELSE 0
    /\ \E p \in Polled :
         /\ FinishRpc(p[1] \cup Overdue)
         /\ given' = IF p \in Asked THEN given + 1 ELSE given
         /\ e' = IF EndpointRunnable(p[2]) \/ Overdue # {} THEN StepApplication(p[2]) ELSE p[2]
    /\ UNCHANGED <<batch, wake, gate, rpcPending, outbox, producers, txDone>>

\* a failed step makes the owner stop itself
OwnerStepFails ==
    /\ opc = "poll" /\ Asleep /\ ~stop /\ opc' = "close"
    /\ accepting' = FALSE /\ stop' = TRUE
    /\ life' = IF life = "running" THEN "stopping" ELSE life
    /\ OwnerNotified
    /\ UNCHANGED <<batch, budget, rpc, outbox, producers, link>>

\* s_dispatchOne: acquire a copy under the lock ...
OwnerLatest ==
    /\ opc = "latest" /\ Asleep
    /\ IF stop \/ budget = 0 \/ ~cmdPending \/ ~e.free \/ cmds = 0
       THEN opc' = "query" /\ UNCHANGED held
       ELSE opc' = "sent" /\ held' = "held"
    /\ UNCHANGED <<batch, budget, wake, gate, rpc, cmds, cmdPending, producers, link>>

\* ... send it without, and settle the item under the lock again
OwnerSent ==
    /\ opc = "sent" /\ Asleep
    /\ LET left == IF held = "superseded" THEN cmds ELSE cmds - 1 IN
       \/ /\ e' = [e EXCEPT !.free = FALSE]                                  \* accepted
          /\ cmds' = left /\ opc' = "latest" /\ budget' = budget - 1
       \/ cmds' = cmds /\ opc' = "query" /\ UNCHANGED <<e, budget>>           \* deferred
       \/ cmds' = left /\ opc' = "latest" /\ budget' = budget - 1 /\ UNCHANGED e  \* rejected
    /\ held' = "no" /\ cmdPending' = (cmds' # 0)
    /\ UNCHANGED <<batch, wake, gate, rpc, producers, rx, txDone>>

\* before sleeping: the readiness of link, endpoint and adapter
Runnable == rx > 0 \/ txDone \/ EndpointRunnable(e) \/ Overdue # {}
OwnerQuery ==
    /\ opc = "query" /\ Asleep /\ opc' = IF Runnable THEN "top" ELSE "commands"
    /\ UNCHANGED <<batch, budget, wake, gate, rpc, outbox, producers, link>>

OwnerCommands ==
    /\ opc = "commands" /\ Asleep
    /\ opc' = IF cmdPending /\ e.free THEN "top" ELSE "generation"
    /\ UNCHANGED <<batch, budget, wake, gate, rpc, outbox, producers, link>>

\* ... and whether anybody notified since the owner last observed the generation
MaySleep == ~stop /\ ~wakeMoved
OwnerGeneration ==
    /\ opc = "generation" /\ Asleep /\ opc' = IF MaySleep THEN "wait" ELSE "top"
    /\ UNCHANGED <<batch, budget, wake, gate, rpc, outbox, producers, link>>

\* m_wake.wait, wait_for: a permit, or a deadline of a call or a client
OwnerWake ==
    /\ opc = "wait" /\ Asleep
    /\ \/ permit /\ permit' = FALSE /\ opc' = "waited"
       \/ ~permit /\ (Overdue # {} \/ e.due # {}) /\ opc' = "top" /\ UNCHANGED permit
    /\ UNCHANGED <<batch, budget, pending, wakeMoved, gate, rpc, outbox, producers, link>>

OwnerWaited ==
    /\ opc = "waited" /\ Asleep /\ opc' = "top" /\ pending' = FALSE
    /\ UNCHANGED <<batch, budget, permit, wakeMoved, gate, rpc, outbox, producers, link>>

\* s_shutdownOnOwner: closing the endpoint finishes every call it has accepted,
OwnerClose ==
    /\ opc = "close" /\ Asleep /\ opc' = "cancel" /\ budget' = 1
    /\ accepting' = FALSE
    /\ FinishRpc({t \in Thread : job[t].st = "active"})
    /\ UNCHANGED <<batch, wake, life, stop, rpcPending, outbox, producers, link>>

\* s_cancelQueuedRpc, slot by slot,
OwnerCancelQueued ==
    /\ opc = "cancel" /\ Asleep
    /\ IF budget > JobSlots
       THEN opc' = "drain" /\ UNCHANGED <<budget, table, job>>
       ELSE opc' = opc /\ budget' = budget + 1 /\ FinishRpc({table[budget]} \ {NoJob})
    /\ UNCHANGED <<batch, wake, gate, rpcPending, outbox, producers, link>>

\* waits until no feed is inside the link,
Drained == opc = "drain" /\ producers = 0
OwnerDrain ==
    /\ Drained /\ Asleep /\ opc' = "reset"
    /\ UNCHANGED <<batch, budget, wake, gate, rpc, outbox, producers, link>>

\* and empties the outbox
OwnerReset ==
    /\ opc = "reset" /\ Asleep /\ opc' = "stopped" /\ life' = "stopped"
    /\ cmds' = 0 /\ cmdPending' = FALSE
    /\ UNCHANGED <<batch, budget, wake, accepting, stop, rpc, held, producers, link>>

Owner ==
    \/ OwnerTop \/ OwnerClear \/ OwnerObserve \/ OwnerCollect \/ OwnerDispatch
    \/ OwnerService \/ OwnerPump \/ OwnerStepFails \/ OwnerLatest \/ OwnerSent
    \/ OwnerQuery \/ OwnerCommands \/ OwnerGeneration \/ OwnerWake \/ OwnerWaited
    \/ OwnerClose \/ OwnerCancelQueued \/ OwnerDrain \/ OwnerReset

Notify(a) == NotifyGeneration(a) \/ NotifyMark(a) \/ NotifyRelease(a)
Continue(t) == RequestStopStores(t) \/ FeedBytes(t) \/ FeedWithdraw(t)
Begin(t) ==
    \/ RequestStop(t) \/ SubmitRpc(t) \/ SubmitLatest(t) \/ FeedAnnounce(t)
    \/ \E u \in Thread : CancelRpc(t, u)

Running ==
    \/ Owner \/ TransmitDone
    \/ \E a \in Actor : Notify(a)
    \/ \E t \in Thread : Continue(t) \/ CallDue(t)
    \/ \E c \in Client : ClientDue(c)

Uses == Start \/ StopReady \/ \E t \in Thread : Begin(t)

----------------------------------------------------------------------------
(* Properties.                                                             *)

Notifying(a) == pc[a] \in {"notify", "mark", "release"}

\* The owner is never asleep over work: with no permit in the event and nobody on the way
\* to leave one, a waiting owner has no frame to poll, no completion to reap, no call to
\* dispatch or cancel, no client to step, no stop to obey, and no newest value it could send
\* (executor.cpp: the generation check before m_wake.wait, CoalescingEvent, s_dispatchRpc's
\* clearing of m_rpc_pending).
NoLostWake ==
    opc = "wait" /\ ~permit /\ (\A a \in Actor : ~Notifying(a)) =>
        /\ rx > 0 => \E t \in Thread : pc[t] = "withdraw"
        /\ ~rpcPending /\ ~txDone /\ ~stop
        /\ ~e.policy /\ e.active = {} /\ ~e.moved
        /\ cmds > 0 => ~e.free

\* A stopped executor is quiet: every admitted call was finished exactly once, no thread is
\* still inside wl_feed_bytes and nothing is left in the outbox (s_shutdownOnOwner racing
\* s_invokeRpc, submitRpc, feedBytes and submitLatest).
StopIsQuiet ==
    /\ \A t \in Thread : job[t].finishes <= 1
    /\ opc = "stopped" =>
        /\ \A t \in Thread : job[t].st = "done" <=> job[t].finishes = 1
        /\ \A t \in Thread : job[t].st \in {"none", "done"}
        /\ \A t \in Thread : pc[t] # "withdraw"
        /\ cmds = 0

\* A client blocked on the link is stepped again once the link is free: whenever one has a
\* unit to send and the transmit resource is free, the endpoint reports itself runnable
\* (endpoint_readiness against the resource generation noted by endpoint_step_application).
ReleaseReachesClient ==
    (\E c \in Client : e.want[c] > 0) /\ e.free /\ opc # "off" => EndpointRunnable(e)
=============================================================================
