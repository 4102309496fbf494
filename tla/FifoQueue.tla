----------------------------- MODULE FifoQueue -----------------------------
(***************************************************************************)
(* What the FIFO mailbox promises: a bounded queue that loses nothing,     *)
(* keeps order, and lends its oldest value to the consumer until the       *)
(* consumer gives it back.                                                 *)
(***************************************************************************)
EXTENDS Sequences, Naturals

CONSTANTS Value, Capacity, None

VARIABLES queue,    \* published values, oldest first; a lent one is still in it
          view      \* the value lent to the consumer, or None

vars == <<queue, view>>

Init == queue = <<>> /\ view = None

Publish(v) == /\ Len(queue) < Capacity
              /\ queue' = Append(queue, v)
              /\ UNCHANGED view

Acquire == /\ view = None /\ queue # <<>>
           /\ view' = Head(queue)
           /\ UNCHANGED queue

Release == /\ view # None
           /\ queue' = Tail(queue) /\ view' = None

Reset == view = None /\ queue' = <<>> /\ UNCHANGED view

Next == (\E v \in Value : Publish(v)) \/ Acquire \/ Release \/ Reset

Spec == Init /\ [][Next]_vars
=============================================================================
