------------------------------- MODULE MCLink -------------------------------
(* Instances of Link for TLC. *)
EXTENDS LinkSchedule

Asynchronous == {"STARTED", "BUSY", "FAILED"}
AnyAnswer == {"SENT", "STARTED", "BUSY", "FAILED"}

\* One ACK, one reliable DATA packet and one unreliable one.
AckAndBothData ==
    {AckFrame([sid |-> 1, seq |-> 0]), DataFrame([sid |-> 2, seq |-> 0], Scrap), UnrelFrame}

\* One ACK, and two reliable DATA packets of the peer.
AckAndTwoData ==
    {AckFrame([sid |-> 1, seq |-> 0])} \cup {DataFrame([sid |-> 2, seq |-> s], Scrap) : s \in 0 .. 1}

\* ACKs of both requests, one reliable DATA packet of the peer, and a damaged unit.
AcksAndData ==
    {AckFrame([sid |-> 1, seq |-> s]) : s \in 0 .. 1}
    \cup {DataFrame([sid |-> 2, seq |-> 0], Scrap), BadFrame}
=============================================================================
