----------------------------- MODULE MCExecutor -----------------------------
(* The executor on small instances: calls racing cancellation and the stop, *)
(* the link's traffic racing the endpoint's clients and the stop, and a      *)
(* session closing under its callers.                                       *)
EXTENDS Session

\* what an event leaves the clients with: local work for one; a unit to send for one, or for
\* the policy while the service is to cancel the one in flight
Only(d, n) == [c \in Client |-> IF c = d THEN n ELSE 0]
Local == {Only(d, 2) : d \in Client}
Sends == {Only(d, 1) : d \in Client} \cup {[c \in Client |-> IF c = Policy THEN 1 ELSE 3]}

MCPlans ==
    { [kinds |-> {"call", "cancel", "stop"}, ops |-> 3, work |-> 0, tasks |-> {}, ticks |-> 0,
       session |-> FALSE],
      [kinds |-> {"feed", "latest", "stop"}, ops |-> 2, work |-> 1, tasks |-> Local, ticks |-> 1,
       session |-> FALSE],
      [kinds |-> {"call", "feed"}, ops |-> 2, work |-> 0, tasks |-> {}, ticks |-> 0,
       session |-> FALSE],
      [kinds |-> {"feed"}, ops |-> 2, work |-> 2, tasks |-> Sends, ticks |-> 0,
       session |-> FALSE],
      [kinds |-> {"call"}, ops |-> 1, work |-> 1, tasks |-> Local, ticks |-> 0,
       session |-> FALSE],
      [kinds |-> {"call", "cancel", "stop"}, ops |-> 2, work |-> 0, tasks |-> {}, ticks |-> 0,
       session |-> TRUE] }
=============================================================================
