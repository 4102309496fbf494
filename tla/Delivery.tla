------------------------------ MODULE Delivery ------------------------------
(***************************************************************************)
(* What a reliable Wirelink direction promises over a line that loses and  *)
(* repeats units but keeps their order: requests are delivered in the      *)
(* order they were made, none twice, and the sender's verdict "success"    *)
(* is never given to a request that was not delivered.                     *)
(***************************************************************************)
EXTENDS Naturals, Sequences

CONSTANT Request     \* the identities of requests

VARIABLES
    asked,      \* the requests made, in order
    got,        \* the requests delivered to the peer's application, in order
    verdict     \* of the last request: "none", "open", "success" or "failed"

Latest(s) == s[Len(s)]
Among(r, s) == \E k \in DOMAIN s : s[k] = r

\* Request q was made before request r.
Before(q, r) == \E j, k \in DOMAIN asked : asked[j] = q /\ asked[k] = r /\ j < k

DeliveryInit == asked = <<>> /\ got = <<>> /\ verdict = "none"

\* One request at a time: the previous one has its verdict.
Ask(r) ==
    /\ verdict # "open"
    /\ ~Among(r, asked)
    /\ asked' = Append(asked, r) /\ verdict' = "open"
    /\ UNCHANGED got

\* Any request made after the ones delivered so far, whatever its verdict.
Deliver(r) ==
    /\ Among(r, asked)
    /\ got # <<>> => Before(Latest(got), r)
    /\ got' = Append(got, r)
    /\ UNCHANGED <<asked, verdict>>

Succeed ==
    /\ verdict = "open" /\ Among(Latest(asked), got)
    /\ verdict' = "success"
    /\ UNCHANGED <<asked, got>>

\* Retries exhausted, an I/O error, a cancel or a restart: nothing is known.
GiveUp ==
    /\ verdict = "open"
    /\ verdict' = "failed"
    /\ UNCHANGED <<asked, got>>

DeliveryNext == (\E r \in Request : Ask(r) \/ Deliver(r)) \/ Succeed \/ GiveUp

DeliverySpec == DeliveryInit /\ [][DeliveryNext]_<<asked, got, verdict>>
=============================================================================
