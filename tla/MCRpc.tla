------------------------------- MODULE MCRpc --------------------------------
(***************************************************************************)
(* Rpc for model checking: one session of the client endpoint against a    *)
(* peer that answers as it likes, the server endpoint against peers that   *)
(* ask as they like, and both together with PairCalls calls per session.   *)
(***************************************************************************)
EXTENDS Rpc

CONSTANTS Part, PairCalls

VARIABLE part

mcVars == <<vars, part>>

MCInit == Init /\ part \in Part

\* A peer answers or rejects any request it may have seen.
PeerAnswers ==
    /\ \E m \in requests, ok \in BOOLEAN :
          responses' = responses \cup {[sid |-> m.sid, op |-> m.op, method |-> m.method, ok |-> ok,
                                        body |-> IF ok THEN m.body ELSE NoBody]}
    /\ UNCHANGED <<clientVars, serverVars, requests>>

\* Peers of any session ask any operation.
PeerAsks ==
    /\ \E s \in 1 .. SessionMax, op \in 1 .. OpMax, method \in Method :
          requests' = {[sid |-> s, op |-> op, method |-> method, body |-> <<s, op>>]}
    /\ UNCHANGED <<clientVars, serverVars, responses>>

\* The pair runs over sinks that keep no unit, and before any deadline.
Prompt ==
    /\ ~cl'.leased /\ ~sl'.leased
    /\ \A i \in CallSlot : ~client'.slots[i].due
    /\ \A p \in PendingSlot : ~server'.pending[p].due
    /\ \A r \in ResponseSlot : ~server'.response[r].aged

MCNext ==
    /\ \/ part = "client" /\ (ClientNext \/ PeerAnswers) /\ sid' = 1
       \/ part = "server" /\ (ServerNext \/ PeerAsks)
       \/ part = "pair" /\ Next /\ client'.nextGen <= PairCalls + 1 /\ Prompt
    /\ UNCHANGED part

MCSpec == MCInit /\ [][MCNext]_mcVars
=============================================================================
