-------------------------------- MODULE Bulk --------------------------------
(***************************************************************************)
(* A bulk sender and a bulk receiver over an application channel that      *)
(* loses messages and, unless it is ordered, also reorders and repeats     *)
(* them: the two profiles of docs/application-layer.md, section 8.         *)
(***************************************************************************)
EXTENDS BulkSender, BulkReceiver, Sequences

CONSTANTS
    InFlight,       \* bound on the messages in the channel, each way, and the episodes
    MaxEpisodes     \* bound on the transfers begun and the local resets of the receiver

VARIABLES
    toReceiver, toSender,   \* the channel
    ordered,        \* whether it keeps the order and delivers once
    resets,         \* resets of the receiver so far
    outcome         \* how each transfer ended for the sending application

channel == <<toReceiver, toSender, ordered>>
bulkVars == <<snd, begun, rcv, out, sink, toReceiver, toSender, ordered, resets, outcome>>

BulkInit ==
    /\ SenderInit /\ ReceiverInit
    /\ toReceiver = <<>> /\ toSender = <<>>
    /\ ordered \in BOOLEAN
    /\ resets = 0
    /\ outcome = [t \in Transfers |-> "NONE"]

Episodes == Cardinality(begun) + resets

\* The bounds leave room for one more episode.
Within ==
    /\ Episodes < MaxEpisodes
    /\ Len(toReceiver) + Episodes < InFlight /\ Len(toSender) + Episodes < InFlight

\* The link accepts the message; the channel may have no room for it.  With
\* no order and repetitions, a message it already has needs no second copy.
Sent(queue, m) ==
    IF Len(queue) + Episodes >= InFlight THEN queue
    ELSE IF ~ordered /\ \E i \in DOMAIN queue : queue[i] = m THEN queue
    ELSE Append(queue, m)

-----------------------------------------------------------------------------
(* The sending application.                                                *)

StartTransfer(t) ==
    /\ Within
    /\ Start(t)
    /\ UNCHANGED <<receiver, channel, resets, outcome>>

AbortTransfer == RequestAbort /\ UNCHANGED <<receiver, channel, resets, outcome>>

EndTransfer ==
    /\ SenderReset
    /\ outcome' = IF snd.id = 0 THEN outcome ELSE [outcome EXCEPT ![snd.id] = snd.state]
    /\ UNCHANGED <<receiver, channel, resets>>

TakeAction == ActionAcquire /\ UNCHANGED <<receiver, channel, resets, outcome>>

PutBackAction == ActionDefer /\ UNCHANGED <<receiver, channel, resets, outcome>>

SubmitAction ==
    /\ ActionSubmitted
    /\ toReceiver' = Sent(toReceiver, ActionMessage)
    /\ UNCHANGED <<receiver, toSender, ordered, resets, outcome>>

PollSender == SenderPoll /\ UNCHANGED <<receiver, channel, resets, outcome>>

-----------------------------------------------------------------------------
(* The receiving application.                                              *)

TakeStatus == StatusAcquire /\ UNCHANGED <<snd, begun, channel, resets, outcome>>

PutBackStatus == StatusDefer /\ UNCHANGED <<snd, begun, channel, resets, outcome>>

SubmitStatus ==
    /\ StatusRelease
    /\ toSender' = Sent(toSender, out.status)
    /\ UNCHANGED <<snd, begun, toReceiver, ordered, resets, outcome>>

PollReceiver == ReceiverPoll /\ UNCHANGED <<snd, begun, channel, resets, outcome>>

ResetReceiver ==
    /\ Within
    /\ ReceiverReset
    /\ resets' = resets + 1
    /\ UNCHANGED <<snd, begun, channel, outcome>>

-----------------------------------------------------------------------------
(* The channel.                                                            *)

Deliverable(queue) == {i \in 1 .. Len(queue) : ordered => i = 1}

\* The channel without its message i
Without(queue, i) == SubSeq(queue, 1, i - 1) \o SubSeq(queue, i + 1, Len(queue))

\* A delivered message leaves the channel, unless it will come again.
Rest(queue, i) == {Without(queue, i)} \cup (IF ordered THEN {} ELSE {queue})

DeliverToReceiver(i) ==
    /\ i \in Deliverable(toReceiver)
    /\ LET m == toReceiver[i] IN OnBegin(m) \/ OnChunk(m) \/ OnEnd(m) \/ OnAbort(m)
    /\ toReceiver' \in Rest(toReceiver, i)
    /\ UNCHANGED <<snd, begun, toSender, ordered, resets, outcome>>

DeliverToSender(i) ==
    /\ i \in Deliverable(toSender)
    /\ OnStatus(toSender[i])
    /\ toSender' \in Rest(toSender, i)
    /\ UNCHANGED <<receiver, toReceiver, ordered, resets, outcome>>

LoseMessage(i) ==
    /\ i \in 1 .. Len(toReceiver)
    /\ toReceiver' = Without(toReceiver, i)
    /\ UNCHANGED <<snd, begun, receiver, toSender, ordered, resets, outcome>>

LoseStatus(i) ==
    /\ i \in 1 .. Len(toSender)
    /\ toSender' = Without(toSender, i)
    /\ UNCHANGED <<snd, begun, receiver, toReceiver, ordered, resets, outcome>>

BulkNext ==
    \/ \E t \in Transfers : StartTransfer(t)
    \/ AbortTransfer \/ EndTransfer \/ TakeAction \/ PutBackAction \/ SubmitAction \/ PollSender
    \/ TakeStatus \/ PutBackStatus \/ SubmitStatus \/ PollReceiver \/ ResetReceiver
    \/ \E i \in 1 .. InFlight : DeliverToReceiver(i) \/ LoseMessage(i)
    \/ \E i \in 1 .. InFlight : DeliverToSender(i) \/ LoseStatus(i)

BulkSpec == BulkInit /\ [][BulkNext]_bulkVars

-----------------------------------------------------------------------------
(* Properties.                                                             *)

\* What the sender believes of the sink is true: an object it reports COMPLETED has been
\* verified and committed, whatever was lost, repeated or reordered; and, unless messages
\* are reordered (see StatusIsStored), the offset it continues from has been stored.
CompletedIsStored ==
    /\ snd.state = "COMPLETED" => sink.commits[snd.id] > 0
    /\ \A t \in Transfers : outcome[t] = "COMPLETED" => sink.commits[t] > 0
    /\ ordered /\ SenderActive /\ snd.phase # "ABORT" => snd.off <= sink.reached[snd.id]

\* Receiver and sink stay in step through failures, replaced transfers and timeouts: the
\* session the sink has open is the one the receiver will close, and while a transfer is
\* received the sink holds exactly the bytes the receiver counts.
SinkInStep ==
    /\ sink.open = IF rcv.sink THEN rcv.id ELSE 0
    /\ rcv.state = "RECEIVING" => rcv.sink /\ sink.stored = rcv.off

\* On an ordered channel with no reset of the receiver, an object is
\* committed at most once, and never when its sender was told of its abort.
CommitOnce ==
    ordered /\ resets = 0 =>
        /\ \A t \in Transfers : sink.commits[t] <= 1
        /\ \A t \in Transfers : outcome[t] = "ABORTED" => sink.commits[t] = 0
        /\ snd.state = "ABORTED" => sink.commits[snd.id] = 0

\* A repeated Begin or Chunk of the transfer being received is acknowledged
\* for what it is: no answer the sender would give up on.
DuplicateAcknowledged ==
    rcv.state = "RECEIVING" /\ out.pending /\ out.status.id = rcv.id /\ out.status.phase # "ABORT" =>
        out.status.code \in {"OK", "BUSY", "OUT_OF_ORDER", "INVALID"}

\* The offset of a Status that the sender continues from is one the sink has stored of that
\* transfer: Status.next_offset is the cumulative acknowledgement.
StatusIsStored ==
    out.pending /\ out.status.phase # "ABORT" /\ out.status.code \in {"OK", "OUT_OF_ORDER"} =>
        out.status.off <= sink.reached[out.status.id]
=============================================================================
