------------------------------- MODULE Outbox -------------------------------
(***************************************************************************)
(* src/src/outbox.c: the latest-value outbox.  Each message id has at most *)
(* one slot; a newer value replaces the waiting one, also while a copy of  *)
(* it is out for transmission.  Slots are offered in round-robin order.    *)
(*                                                                         *)
(* A payload is represented by its generation, the event counters are left *)
(* out.  The caller of acquire_copy is outside: it may submit to the link  *)
(* and complete the item at any later time.                                *)
(***************************************************************************)
EXTENDS Integers, FiniteSets

CONSTANTS OutboxSlots,     \* config.slot_count
          MessageId,       \* the message ids in use
          GenerationMax    \* bound on next_generation (2^64 in the code)

ASSUME OutboxAssumption == OutboxSlots \in Nat \ {0} /\ GenerationMax \in Nat /\ 0 \notin MessageId

VARIABLES box,        \* the slots: message_id (0 when not valid) and generation
          turn,       \* cursor
          depth, next_generation,
          active,     \* active, active_index and active_token
          newest,     \* history: the generation last submitted for each id
          settled,    \* history: the generation last accepted or rejected for each id
          passed      \* history: items settled while a slot was waiting

outboxVars == <<box, turn, depth, next_generation, active, newest, settled, passed>>

BoxIndex == 0 .. OutboxSlots - 1
Empty == [id |-> 0, gen |-> 0]
NoItem == [on |-> FALSE, index |-> 0, token |-> 0]

OutboxInit ==
    /\ box = [i \in BoxIndex |-> Empty]
    /\ turn = 0 /\ depth = 0 /\ next_generation = 0 /\ active = NoItem
    /\ newest = [m \in MessageId |-> 0] /\ settled = [m \in MessageId |-> 0]
    /\ passed = [i \in BoxIndex |-> 0]

Least(S) == CHOOSE i \in S : \A j \in S : i <= j
Waiting(i) == box[i].id # 0

-----------------------------------------------------------------------------

\* The slot of the id, or a free one; none is WL_ERR_QUEUE_FULL.
Selected(m) ==
    IF \E i \in BoxIndex : box[i].id = m THEN {i \in BoxIndex : box[i].id = m}
    ELSE {i \in BoxIndex : box[i].id = 0}

\* wl_outbox_submit_latest
SubmitLatest(m) ==
    /\ next_generation < GenerationMax
    /\ Selected(m) # {}
    /\ LET i == Least(Selected(m))
           gen == next_generation + 1
       IN /\ box' = [box EXCEPT ![i] = [id |-> m, gen |-> gen]]
          /\ depth' = IF Waiting(i) THEN depth ELSE depth + 1
          /\ passed' = IF Waiting(i) THEN passed ELSE [passed EXCEPT ![i] = 0]
          /\ next_generation' = gen
          /\ newest' = [newest EXCEPT ![m] = gen]
    /\ UNCHANGED <<turn, active, settled>>

\* Slots in the order the cursor visits them.
Visit(k) == (turn + k) % OutboxSlots

\* The search starts at the first slot whatever the cursor says.
FirstWaitingFixed == Least({i \in BoxIndex : Waiting(i)})

FirstWaiting == Visit(Least({k \in BoxIndex : Waiting(Visit(k))}))

\* wl_outbox_acquire_copy
AcquireCopy ==
    /\ ~active.on
    /\ \E i \in BoxIndex : Waiting(i)
    /\ active' = [on |-> TRUE, index |-> FirstWaiting, token |-> box[FirstWaiting].gen]
    /\ UNCHANGED <<box, turn, depth, next_generation, newest, settled, passed>>

\* wl_outbox_complete with WL_OUTBOX_DEFERRED: the item stays for another attempt.
CompleteDeferred ==
    /\ active.on
    /\ active' = NoItem
    /\ UNCHANGED <<box, turn, depth, next_generation, newest, settled, passed>>

\* The slot is cleared whatever value it holds by now.
CompleteFinalClears ==
    /\ active.on
    /\ active' = NoItem
    /\ box' = [box EXCEPT ![active.index] = Empty]
    /\ depth' = depth - 1
    /\ turn' = (active.index + 1) % OutboxSlots
    /\ settled' = [settled EXCEPT ![box[active.index].id] = active.token]
    /\ passed' = [i \in BoxIndex |->
                    IF i = active.index \/ ~Waiting(i) THEN 0 ELSE passed[i] + 1]
    /\ UNCHANGED <<next_generation, newest>>

\* wl_outbox_complete with WL_OUTBOX_ACCEPTED or WL_OUTBOX_REJECTED: the slot is freed
\* unless a newer value replaced the item meanwhile.
CompleteFinal ==
    /\ active.on
    /\ active' = NoItem
    /\ LET current == Waiting(active.index) /\ box[active.index].gen = active.token
       IN /\ box' = IF current THEN [box EXCEPT ![active.index] = Empty] ELSE box
          /\ depth' = IF current THEN depth - 1 ELSE depth
    /\ turn' = (active.index + 1) % OutboxSlots
    /\ settled' = [settled EXCEPT ![box[active.index].id] = active.token]
    /\ passed' = [i \in BoxIndex |->
                    IF i = active.index \/ ~Waiting(i) THEN 0 ELSE passed[i] + 1]
    /\ UNCHANGED <<next_generation, newest>>

\* wl_outbox_reset; refused while an item is out.
OutboxReset ==
    /\ ~active.on
    /\ box' = [i \in BoxIndex |-> Empty]
    /\ depth' = 0 /\ turn' = 0
    /\ settled' = newest
    /\ passed' = [i \in BoxIndex |-> 0]
    /\ UNCHANGED <<next_generation, active, newest>>

OutboxNext == \/ \E m \in MessageId : SubmitLatest(m)
              \/ AcquireCopy \/ CompleteDeferred \/ CompleteFinal \/ OutboxReset

OutboxSpec == OutboxInit /\ [][OutboxNext]_outboxVars

-----------------------------------------------------------------------------
(* Properties *)

\* The newest value of an id waits in exactly one slot until it is itself accepted or
\* rejected: completing a copy that was replaced while it was out never discards the
\* value that replaced it.
NewestOwed ==
    \A m \in MessageId :
        newest[m] # settled[m] =>
            \E i \in BoxIndex : /\ box[i] = [id |-> m, gen |-> newest[m]]
                                /\ \A j \in BoxIndex : box[j].id = m => j = i

\* No waiting slot is passed over by more items than there are other slots, however
\* often the other ids are submitted again.
FairTurn == \A i \in BoxIndex : Waiting(i) => passed[i] < OutboxSlots

=============================================================================
