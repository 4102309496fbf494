------------------------------- MODULE Kernel -------------------------------
(***************************************************************************)
(* The packet port of the static kernel                                    *)
(* (src/experimental/static_kernel/src/packet_port.c): a receive ring the  *)
(* I/O context fills and the owner reads, one outstanding transmission     *)
(* whose completion bits the I/O context publishes and the owner takes,    *)
(* and an activity flag.  Each operator is a whole function of the file,   *)
(* on the record of the module Port.                                       *)
(***************************************************************************)
EXTENDS Port, FiniteSets

CONSTANT PacketSlots    \* WL_PACKET_RX_SLOTS

\* wl_packet_init; owes: the sink said BUSY and must announce that it can go on
PacketStart ==
    [rxq |-> << >>, claim |-> FALSE, borrowed |-> FALSE, running |-> TRUE, activity |-> FALSE,
     wake |-> FALSE, txSeq |-> 0, txActive |-> FALSE, flags |-> {}, delivered |-> {},
     owes |-> FALSE]

\* wl_packet_activity, which also notifies the outer event
Activity(k) == [k EXCEPT !.activity = TRUE, !.wake = TRUE]

\* wl_packet_rx_claim; the borrowed frame still fills its slot
MayClaim(k) == k.running /\ ~k.claim /\ Len(k.rxq) < PacketSlots
Claimed(k) == [k EXCEPT !.claim = TRUE]

\* wl_packet_rx_commit; a read that completes after the stop is discarded
Committed(k, frame) ==
    Activity([k EXCEPT !.claim = FALSE, !.rxq = IF k.running THEN Append(@, frame) ELSE @])

\* wl_packet_rx_abort
Aborted(k) == Activity([k EXCEPT !.claim = FALSE])

\* wl_packet_rx_borrow, wl_packet_rx_release
RxReady(k) == k.rxq # << >>
Borrow(k) == [k EXCEPT !.borrowed = TRUE]
Release(k) == Activity([k EXCEPT !.borrowed = FALSE, !.rxq = Tail(@)])

\* wl_packet_tx_ready: a bit the owner has not taken
TxReady(k) == k.txActive /\ k.flags \ k.delivered # {}

\* wl_packet_tx_publish: DRAINED implies CONSUMED, and an error both; what the port does
\* not await, by its sequence or by its bits, changes nothing
Implied(f) ==
    f \cup (IF "error" \in f THEN {"drained"} ELSE {})
      \cup (IF f \cap {"error", "drained"} # {} THEN {"consumed"} ELSE {})
Publish(k, seq, f) ==
    IF seq # k.txSeq \/ ~k.txActive \/ "drained" \in k.flags \/ Implied(f) \subseteq k.flags
    THEN k
    ELSE Activity([k EXCEPT !.flags = @ \cup Implied(f)])

\* wl_packet_tx_submit up to the call of the sink: published before it
Submitting(k) ==
    [k EXCEPT !.txSeq = @ + 1, !.txActive = TRUE, !.flags = {}, !.delivered = {}]
\* ... and what follows the sink's answer
SubmitResult(k, answer) ==
    CASE answer = "started" -> [k EXCEPT !.unit = "lent", !.dtx = TRUE]
      [] answer = "sent"    -> Publish([k EXCEPT !.unit = "lent"], k.txSeq, {"drained"})
      [] answer = "busy"    -> [k EXCEPT !.txActive = FALSE, !.owes = TRUE]
      [] answer = "failed"  -> [k EXCEPT !.txActive = FALSE]
Submit(k, answer) == SubmitResult(Submitting(k), answer)

\* wl_packet_tx_take: each bit once; DRAINED ends the transmission
Take(k) ==
    LET new == k.flags \ k.delivered
    IN IF "drained" \notin new THEN [k EXCEPT !.delivered = @ \cup new]
       ELSE [k EXCEPT !.delivered = {}, !.flags = {}, !.txActive = FALSE, !.unit = "none",
                      !.twice = @ \/ k.unit # "lent"]

\* wl_packet_stop, wl_packet_quiescent
StopPort(k) == Activity([k EXCEPT !.running = FALSE])
PortQuiescent(k) == ~k.running /\ ~k.claim /\ ~k.borrowed /\ ~RxReady(k) /\ ~k.txActive

-----------------------------------------------------------------------------
(***************************************************************************)
(* The static kernel (src/experimental/static_kernel/src/kernel.c): a      *)
(* fixed number of calls, replies and one message over a packet port, with *)
(* one owner that steps it.  The I/O context acts between the phases of a  *)
(* step.  A frame is a record: a response to an operation, a request, or   *)
(* one that cannot be read.                                                *)
(*                                                                         *)
(* outcome[o] lists what the caller of operation o has been told.  The     *)
(* last number of a plan stands for UINT32_MAX, where operation numbers    *)
(* and generations end.                                                    *)
(***************************************************************************)

CONSTANTS KernelCalls,      \* WL_KERNEL_CALLS
          KernelReplies,    \* WL_KERNEL_REPLIES
          KernelPlans       \* bounds: records of last, ends, frames, sends, faults,
                            \* budget (of a step)

Slots == 1 .. KernelCalls
RequestTx == 1 .. KernelCalls
ReplyTx == KernelCalls + 1 .. KernelCalls + KernelReplies
MessageTx == KernelCalls + KernelReplies + 1
TxSlots == 1 .. MessageTx

IdleTx == [state |-> "free", call |-> 0, gen |-> 0, item |-> 0]
IdleCall(gen) == [state |-> "free", gen |-> gen, op |-> 0, sent |-> FALSE, due |-> FALSE,
                  result |-> "none"]

\* wl_kernel_init
KernelInit ==
    \E plan \in KernelPlans :
    port = LinkSide @@ PacketStart @@
      [kind |-> "kernel", plan |-> plan, pc |-> "idle", count |-> 0, before |-> 0,
       snapshot |-> [s \in Slots |-> 0],
       calls |-> [s \in Slots |-> IdleCall(0)],
       tx |-> [i \in TxSlots |-> IdleTx], flight |-> 0, flightItem |-> 0, txCursor |-> 1,
       callCursor |-> 1, txBlocked |-> FALSE, rxBlocked |-> FALSE, operation |-> 0,
       shut |-> FALSE, outcome |-> [o \in 1 .. plan.last |-> << >>], answered |-> {},
       asked |-> {}, arrived |-> 0, served |-> << >>, frames |-> 0, sends |-> 0, faults |-> 0,
       ends |-> 0]

----------------------------------------------------------------------------
(* wl_kernel_call_start: a free call slot, a free request frame and an unused operation    *)
(* number.                                                                                 *)
FreeTx(k, range) == {i \in range : k.tx[i].state = "free"}
FreeCall(k) == {s \in Slots : k.calls[s].state = "free" /\ k.calls[s].gen < k.plan.last}
Least(S) == CHOOSE x \in S : \A y \in S : x <= y

MayCall(k) ==
    /\ ~k.shut /\ k.operation < k.plan.last
    /\ FreeCall(k) # {} /\ FreeTx(k, RequestTx) # {}
CallStarted(k) ==
    LET s == Least(FreeCall(k))
        i == Least(FreeTx(k, RequestTx))
        o == k.operation + 1
        g == k.calls[s].gen + 1
    IN [k EXCEPT !.operation = o,
                 !.calls[s] = [state |-> "waiting", gen |-> g, op |-> o, sent |-> FALSE,
                               due |-> FALSE, result |-> "none"],
                 !.tx[i] = [state |-> "ready", call |-> s, gen |-> g, item |-> o]]

\* a call that has ended without an answer, as cancel, close and the errors leave it
EndCall(c, why) ==
    IF c.state = "waiting" THEN [c EXCEPT !.state = "terminal", !.result = why] ELSE c

\* finish_call: the slot and a request that is not yet submitted are free before the
\* callback, which may start another call
FinishCall(k, s, why, again) ==
    LET freed == [k EXCEPT !.calls[s] = IdleCall(@.gen),
                           !.tx = [i \in TxSlots |->
                                     IF i \in RequestTx /\ @[i].state = "ready"
                                          /\ @[i].call = s /\ @[i].gen = k.calls[s].gen
                                     THEN IdleTx ELSE @[i]],
                           !.outcome[k.calls[s].op] = Append(@, why)]
    IN IF again /\ MayCall(freed) THEN CallStarted(freed) ELSE freed

----------------------------------------------------------------------------
(* wl_kernel_response, and the reply path: reserve a reply frame, run the handler, finish. *)
AnswersAny(k, op, again) ==
    LET match == {s \in Slots : k.calls[s].state = "waiting" /\ k.calls[s].sent}
    IN IF match = {} THEN k ELSE FinishCall(k, Least(match), "answer", again)
Response(k, op, again) ==
    LET match == {s \in Slots : /\ k.calls[s].state = "waiting" /\ k.calls[s].sent
                                /\ k.calls[s].op = op}
    IN IF match = {} THEN k ELSE FinishCall(k, Least(match), "answer", again)

Reserve(k) == FreeTx(k, ReplyTx) # {}
Replied(k, n) ==
    [k EXCEPT !.tx[Least(FreeTx(k, ReplyTx))] = [IdleTx EXCEPT !.state = "ready", !.item = n],
              !.served = Append(@, n)]

\* the route: a malformed request gives its reserved frame back
Routed(k, frame, again) ==
    CASE frame.type = "response" -> Response(k, frame.op, again)
      [] frame.type = "request"  -> Replied(k, frame.op)
      [] frame.type = "bad"      -> k

----------------------------------------------------------------------------
(* The phases of wl_kernel_step.  Each counts against the budget when it did something.    *)
Phase(k, done, next) ==
    [k EXCEPT !.count = IF done THEN @ + 1 ELSE @, !.pc = next]
MayGoOn(k) == k.count < k.plan.budget

\* wl_kernel_ready
Runnable(k) ==
    \/ TxReady(k)
    \/ \E s \in Slots : k.calls[s].state = "terminal"
                        \/ (k.calls[s].state = "waiting" /\ k.calls[s].due)
    \/ RxReady(k) /\ (~k.rxBlocked \/ k.shut \/ Reserve(k))
    \/ /\ ~k.shut /\ ~k.txActive /\ (~k.txBlocked \/ k.activity)
       /\ \E i \in TxSlots : k.tx[i].state = "ready"

\* the head of the step: the generations it may end, and the activity flag
KeepsBlocked(k) ==
    [k EXCEPT !.pc = "complete", !.count = 0, !.before = 0, !.wake = FALSE,
              !.snapshot = [s \in Slots |-> k.calls[s].gen], !.activity = FALSE]
StepHead(k) ==
    [k EXCEPT !.pc = "complete", !.count = 0, !.before = 0, !.wake = FALSE,
              !.snapshot = [s \in Slots |-> k.calls[s].gen], !.activity = FALSE,
              !.txBlocked = @ /\ ~k.activity]
StepBegin ==
    /\ port.pc = "idle" /\ (port.wake \/ Runnable(port))
    /\ port' = StepHead(port)

\* complete_tx
CompletedTx(k) ==
    LET new == k.flags \ k.delivered
        t == k.tx[k.flight]
        failed == "error" \in new /\ k.flight \in RequestTx /\ k.calls[t.call].gen = t.gen
        told == IF failed THEN [Take(k) EXCEPT !.calls[t.call] = EndCall(@, "error")] ELSE Take(k)
    IN IF "drained" \notin new THEN told
       ELSE [told EXCEPT !.tx[k.flight] = IdleTx, !.flight = 0, !.flightItem = 0,
                         !.txBlocked = FALSE]
StepComplete ==
    /\ port.pc = "complete"
    /\ port' = IF TxReady(port) THEN Phase(CompletedTx(port), TRUE, "terminal")
               ELSE Phase(port, FALSE, "terminal")

\* terminal: from the cursor, the first call that ended or is due and was there when the
\* step began
AfterCursor(cursor, size) == [n \in 1 .. size |-> 1 + ((cursor + n - 2) % size)]
IsEnding(k, s) ==
    /\ k.calls[s].gen = k.snapshot[s]
    /\ \/ k.calls[s].state = "terminal"
       \/ k.calls[s].state = "waiting" /\ k.calls[s].due
StepTerminal ==
    /\ port.pc = "terminal"
    /\ LET order == AfterCursor(port.callCursor, KernelCalls)
           ending == {n \in 1 .. KernelCalls : IsEnding(port, order[n])}
       IN IF ~MayGoOn(port) THEN port' = Phase(port, FALSE, "submit")
          ELSE IF ending = {} THEN port' = Phase(port, FALSE, "submit")
          ELSE LET s == order[Least(ending)]
                   why == IF port.calls[s].state = "terminal" THEN port.calls[s].result
                          ELSE "timeout"
                   k == [port EXCEPT !.callCursor = 1 + (s % KernelCalls)]
               IN \E again \in BOOLEAN :
                      port' = Phase(FinishCall(k, s, why, again), TRUE, "submit")

\* submit_tx: from the cursor, the first ready frame whose call still waits; the ones
\* passed over whose call does not are free
Stale(k, i) ==
    /\ i \in RequestTx
    /\ LET c == k.calls[k.tx[i].call] IN c.state # "waiting" \/ c.gen # k.tx[i].gen
Submitted(k, i, answer) ==
    LET s == Submit(k, answer)
        request == i \in RequestTx
        c == k.tx[i].call
    IN CASE answer = "busy" -> [s EXCEPT !.txBlocked = TRUE]
         [] answer = "failed" ->
              IF request THEN [s EXCEPT !.tx[i] = IdleTx, !.calls[c] = EndCall(@, "error")]
              ELSE [s EXCEPT !.tx[i] = IdleTx]
         [] OTHER ->
              LET l == [s EXCEPT !.tx[i].state = "leased", !.flight = i,
                                 !.flightItem = k.tx[i].item]
              IN IF request THEN [l EXCEPT !.calls[c].sent = TRUE, !.asked = @ \cup {k.tx[i].item}]
                 ELSE l
StepSubmit ==
    /\ port.pc = "submit"
    /\ LET order == AfterCursor(port.txCursor, MessageTx)
           live == {n \in TxSlots : /\ port.tx[order[n]].state = "ready"
                                    /\ ~Stale(port, order[n])}
           reach == IF live = {} THEN TxSlots ELSE 1 .. Least(live)
           passed == [port EXCEPT !.tx = [i \in TxSlots |->
                        IF @[i].state = "ready" /\ Stale(port, i)
                             /\ \E n \in reach : order[n] = i
                        THEN IdleTx ELSE @[i]]]
       IN IF port.shut \/ port.txBlocked \/ port.txActive \/ ~MayGoOn(port)
          THEN port' = Phase(port, FALSE, "receive")
          ELSE IF live = {} THEN port' = Phase(passed, FALSE, "receive")
          ELSE LET i == order[Least(live)]
                   k == [passed EXCEPT !.txCursor = 1 + (i % MessageTx)]
               IN \E answer \in {"started", "sent"} \cup
                               (IF port.faults < port.plan.faults THEN {"busy", "failed"} ELSE {}) :
                      port' = Phase([Submitted(k, i, answer) EXCEPT
                                        !.faults = IF answer \in {"busy", "failed"}
                                                   THEN @ + 1 ELSE @], TRUE, "receive")

\* receive: the frame is held until the route has taken it
Discards(k) == [Release(k) EXCEPT !.rxBlocked = FALSE]
StepReceive ==
    /\ port.pc = "receive"
    /\ LET idle == ~MayGoOn(port) \/ ~RxReady(port)
                   \/ (port.rxBlocked /\ ~port.shut /\ ~Reserve(port))
           frame == Head(port.rxq)
           k == Borrow(port)
       IN IF idle THEN port' = Phase(port, FALSE, "loop")
          ELSE IF port.shut THEN port' = Phase(Discards(k), TRUE, "loop")
          ELSE IF frame.type = "request" /\ ~Reserve(k)
          THEN port' = Phase([k EXCEPT !.rxBlocked = TRUE], TRUE, "loop")
          ELSE \E again \in (IF frame.type = "response" THEN BOOLEAN ELSE {FALSE}) :
                   port' = Phase(Discards(Routed(k, frame, again)), TRUE, "loop")

\* the loop's end: another round, or the step returns
StepLoop ==
    /\ port.pc = "loop"
    /\ port' = IF port.count = port.before \/ ~MayGoOn(port)
               THEN [port EXCEPT !.pc = "idle", !.count = 0, !.before = 0,
                                 !.snapshot = [s \in Slots |-> 0]]
               ELSE [port EXCEPT !.pc = "complete", !.before = port.count]

----------------------------------------------------------------------------
(* The owner's other operations, between steps.                                            *)
KernelCall == port.pc = "idle" /\ MayCall(port) /\ port' = CallStarted(port)

\* wl_kernel_cancel
KernelCancel(s) ==
    /\ port.pc = "idle" /\ port.calls[s].state = "waiting" /\ port.ends < port.plan.ends
    /\ port' = [port EXCEPT !.calls[s] = EndCall(@, "cancelled"), !.ends = @ + 1]

\* wl_kernel_send
KernelSend ==
    /\ port.pc = "idle" /\ ~port.shut /\ port.tx[MessageTx].state = "free"
    /\ port.sends < port.plan.sends
    /\ port' = [port EXCEPT !.sends = @ + 1,
                    !.tx[MessageTx] = [IdleTx EXCEPT !.state = "ready", !.item = port.sends + 1]]

\* wl_kernel_close
FreesLeased ==
    /\ port.pc = "idle" /\ ~port.shut
    /\ port' = StopPort([port EXCEPT !.shut = TRUE,
                  !.calls = [s \in Slots |-> EndCall(@[s], "closed")],
                  !.tx = [i \in TxSlots |-> IdleTx]])
KernelClose ==
    /\ port.pc = "idle" /\ ~port.shut
    /\ port' = StopPort([port EXCEPT !.shut = TRUE,
                  !.calls = [s \in Slots |-> EndCall(@[s], "closed")],
                  !.tx = [i \in TxSlots |-> IF @[i].state = "leased" THEN @[i]
                                            ELSE IdleTx]])

\* the deadline of a waiting call passes
KernelDeadline(s) ==
    /\ port.pc = "idle" /\ port.calls[s].state = "waiting" /\ ~port.calls[s].due
    /\ port.ends < port.plan.ends
    /\ port' = [port EXCEPT !.calls[s].due = TRUE, !.ends = @ + 1]

\* wl_kernel_quiescent
KernelQuiescent(k) ==
    /\ k.shut /\ k.pc = "idle" /\ PortQuiescent(k)
    /\ \A s \in Slots : k.calls[s].state = "free"

----------------------------------------------------------------------------
(* The I/O context and the peer.                                                           *)
IoClaim == MayClaim(port) /\ port.frames < port.plan.frames /\ port' = Claimed(port)
IoAbort == port.claim /\ port' = Aborted([port EXCEPT !.frames = @ + 1])
IoCommit ==
    /\ port.claim /\ port.frames < port.plan.frames
    /\ LET k == [port EXCEPT !.frames = @ + 1]
       IN \/ \E o \in port.asked :
                 port' = Committed([k EXCEPT !.answered = @ \cup {o}],
                                   [type |-> "response", op |-> o])
          \/ port' = Committed([k EXCEPT !.arrived = IF port.running THEN @ + 1 ELSE @],
                               [type |-> "request", op |-> port.arrived + 1])
          \/ port' = Committed(k, [type |-> "bad", op |-> 0])

\* completions: the memory first, then the line, or both, or an error; a late repetition
\* has no effect
IoConsumed == port.dtx /\ port' = Publish([port EXCEPT !.dtx = FALSE], port.txSeq, {"consumed"})
IoDrained ==
    /\ port.unit = "lent" /\ "drained" \notin port.flags
    /\ port' = Publish([port EXCEPT !.dtx = FALSE], port.txSeq, {"drained"})
IoError ==
    /\ port.unit = "lent" /\ "drained" \notin port.flags /\ port.faults < port.plan.faults
    /\ port' = Publish([port EXCEPT !.dtx = FALSE, !.faults = @ + 1], port.txSeq, {"error"})
IoWritable == port.owes /\ port' = Activity([port EXCEPT !.owes = FALSE])

KernelNext ==
    \/ StepBegin \/ StepComplete \/ StepTerminal \/ StepSubmit \/ StepReceive \/ StepLoop
    \/ KernelCall \/ KernelSend \/ KernelClose
    \/ \E s \in Slots : KernelCancel(s) \/ KernelDeadline(s)
    \/ IoClaim \/ IoAbort \/ IoCommit \/ IoConsumed \/ IoDrained \/ IoError \/ IoWritable

----------------------------------------------------------------------------
\* requests are served in order, each once, and none is lost before the close
KernelRxOk ==
    LET waiting == SelectSeq(port.rxq, LAMBDA f : f.type = "request")
        all == port.served \o [i \in 1 .. Len(waiting) |-> waiting[i].op]
    IN IF port.shut THEN \A i \in 1 .. Len(port.served) : port.served[i] = i
       ELSE all = [i \in 1 .. port.arrived |-> i]

\* the frame the I/O context may still read is leased, and holds what was submitted
KernelTxOk ==
    /\ \A i \in TxSlots : port.tx[i].state = "leased" => i = port.flight
    /\ port.unit = "lent" =>
           /\ port.flight # 0 /\ port.tx[port.flight].state = "leased"
           /\ port.tx[port.flight].item = port.flightItem

\* every call ends exactly once, with an answer only if its own was received
KernelCallOk ==
    \A o \in 1 .. port.operation :
        LET open == \E s \in Slots : port.calls[s].state # "free" /\ port.calls[s].op = o
        IN /\ Len(port.outcome[o]) = (IF open THEN 0 ELSE 1)
           /\ port.outcome[o] = <<"answer">> => o \in port.answered

\* a quiescent kernel: the I/O context holds nothing and nobody waits for an outcome
KernelQuietOk ==
    KernelQuiescent(port) =>
        /\ port.unit = "none" /\ ~port.dtx /\ ~port.claim
        /\ \A o \in 1 .. port.operation : port.outcome[o] # << >>

\* an owner that may sleep has nothing it could do: neither a frame to send that the sink
\* would take, nor one to receive
KernelAwake ==
    port.pc = "idle" /\ ~port.wake /\ ~Runnable(port) =>
        /\ ~port.shut /\ (\E i \in TxSlots : port.tx[i].state = "ready") =>
               port.owes \/ (port.txActive /\ "drained" \notin port.flags)
        /\ RxReady(port) => ~Reserve(port)
=============================================================================
