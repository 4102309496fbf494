--------------------------- MODULE LatestRegister ---------------------------
(***************************************************************************)
(* What the LATEST mailbox promises: a register that keeps only the newest *)
(* published record.  The consumer borrows a record at most once, and what *)
(* it has borrowed stays as it is until the consumer releases it.          *)
(***************************************************************************)
CONSTANTS Record,    \* the records a producer may publish
          None       \* "nothing there"

VARIABLES unread,    \* the newest record that nobody has acquired, or None
          view       \* the record the consumer borrows, or None

vars == <<unread, view>>

Init == unread = None /\ view = None

Publish == /\ unread' \in Record
           /\ UNCHANGED view

Acquire == /\ view = None
           /\ unread # None
           /\ view' = unread
           /\ unread' = None

Release == /\ view # None
           /\ view' = None
           /\ UNCHANGED unread

Reset == /\ view = None
         /\ unread' = None
         /\ UNCHANGED view

Next == Publish \/ Acquire \/ Release \/ Reset

Spec == Init /\ [][Next]_vars
=============================================================================
