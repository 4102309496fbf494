------------------------------ MODULE Endpoint ------------------------------
(***************************************************************************)
(* The endpoint of src/src/endpoint.c: the owner-local services and the    *)
(* product policy that share one link, which of them are to be stepped,    *)
(* and how a release of a link resource reaches one that is blocked.       *)
(*                                                                         *)
(* A client (a service or the policy) is abstracted to what its step does  *)
(* next: want[c] = 2 is a unit of local work (the step reports runnable),  *)
(* 1 a unit to send, 3 a unit to cancel, 0 nothing.  A client whose unit   *)
(* finds the link taken stays with want[c] = 1 and reports nothing         *)
(* runnable.  The link is abstracted to its one transmit resource (free)   *)
(* and to its resource generation, kept as moved: it differs from the one  *)
(* the endpoint noted.                                                     *)
(***************************************************************************)
EXTENDS Integers

CONSTANTS ServiceCount,   \* services bound by wl_endpoint_set_services
          SessionMax      \* peer session ids are 1 .. SessionMax

ASSUME EndpointAssumption == ServiceCount \in Nat /\ SessionMax \in Nat \ {0}

Service == 0 .. ServiceCount - 1
Policy == ServiceCount
Client == Service \cup {Policy}

\* wl_endpoint_init, set_services, set_policy: whatever has a step runs once
NewEndpoint ==
    [policy |-> TRUE, active |-> Service, moved |-> FALSE, cursor |-> 0, session |-> 0,
     free |-> TRUE, want |-> [c \in Client |-> 0], due |-> {}]

\* the link gives its transmit resource back and bumps its resource generation
LinkReleased(e) == [e EXCEPT !.free = TRUE, !.moved = TRUE]

\* endpoint_event: an event from peer session sid wakes everybody; releasing it bumps the
\* resource generation
EndpointWoken(e, sid) ==
    [e EXCEPT !.policy = TRUE, !.active = Service, !.session = sid, !.moved = TRUE]

\* ... and may leave clients with work: w[c] is what client c is to do next, 0 what it had
Work == [Client -> 0 .. 3]
EndpointEvent(e, sid, w) ==
    [EndpointWoken(e, sid) EXCEPT
       !.want = [c \in Client |-> IF w[c] = 0 THEN @[c] ELSE w[c]]]

ActivateService(e, i) == [e EXCEPT !.active = @ \cup {i}, !.want[i] = 2]
ActivatePolicy(e) == [e EXCEPT !.policy = TRUE, !.want[Policy] = 2]

Marked(e, c) == IF c = Policy THEN e.policy ELSE c \in e.active
Mark(e, c) == IF c = Policy THEN [e EXCEPT !.policy = TRUE] ELSE [e EXCEPT !.active = @ \cup {c}]
Unmark(e, c) ==
    [e EXCEPT !.policy = @ /\ c # Policy, !.active = @ \ {c}, !.due = @ \ {c}]

\* one step callback: local work leaves more to do, a unit is sent if the link is free,
\* and the unit in flight is cancelled and taken back (wl_tx_cancel, wl_tx_take)
Stepped(e, c) ==
    LET u == Unmark(e, c) IN
    IF e.want[c] = 2 THEN Mark([u EXCEPT !.want[c] = 1], c)
    ELSE IF e.want[c] = 1 /\ e.free THEN [u EXCEPT !.want[c] = 0, !.free = FALSE]
    ELSE IF e.want[c] = 3
    THEN [(IF e.free THEN u ELSE LinkReleased(u)) EXCEPT !.want[c] = 0]
    ELSE u

StepIfWoken(e, c) == IF Marked(e, c) \/ c \in e.due THEN Stepped(e, c) ELSE e

\* A changed resource generation activates everybody who may be blocked on the link.
ObserveRelease(e) ==
    IF e.moved THEN [e EXCEPT !.moved = FALSE, !.active = Service, !.policy = TRUE] ELSE e

\* the service that turn n of the loop looks at: rotating order, from the cursor
Turn(e, n) == (e.cursor + (n - 1)) % ServiceCount
StepServices(e) ==
    LET stepped[n \in 0 .. ServiceCount] ==
          IF n = 0 THEN e ELSE StepIfWoken(stepped[n - 1], Turn(e, n))
    IN IF ServiceCount = 0 THEN e
       ELSE [stepped[ServiceCount] EXCEPT !.cursor = (@ + 1) % ServiceCount]

\* endpoint_step_application, without the application's own step: the generation is noted
\* before the clients run, so that a release of theirs is still to be seen
NotedLast(e) ==
    [StepServices(StepIfWoken(ObserveRelease(e), Policy)) EXCEPT !.moved = FALSE]
StepApplication(e) == StepServices(StepIfWoken(ObserveRelease(e), Policy))

\* endpoint_readiness, its runnable part
EndpointRunnable(e) == e.policy \/ e.active # {} \/ e.moved \/ e.due # {}
=============================================================================
