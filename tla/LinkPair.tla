------------------------------ MODULE LinkPair ------------------------------
(***************************************************************************)
(* Two contexts on a line.  Context a makes reliable requests, context b   *)
(* receives and acknowledges them; each is a full instance of Link.  The   *)
(* line keeps units in order in each direction, and may lose or repeat     *)
(* them; Reordering lets it also deliver a later unit first, as UDP may.   *)
(*                                                                         *)
(* Each owner polls when wl_link_get_readiness says there is work, and a   *)
(* poll runs to its end before anything else happens: the units that       *)
(* arrive meanwhile are the subject of Link itself.                        *)
(***************************************************************************)
EXTENDS Integers, Sequences

CONSTANTS
    DrainRequired, AckTimer, MaxRetries, SeqMax, SinkResults,
    RxMax,          \* received units a context stores
    LineMax,        \* units on the line in one direction; more are lost
    Faults,         \* units lost, units repeated and restarts of a, together
    Restarts,       \* how often context a may restart with a new session
    Reordering,     \* does the line reorder units
    Requests        \* requests a makes in all

ASSUME PairAssumption ==
    /\ DrainRequired \in BOOLEAN /\ AckTimer \in BOOLEAN
    /\ MaxRetries \in Nat /\ SeqMax \in Nat \ {0} /\ RxMax \in Nat
    /\ SinkResults \subseteq {"SENT", "STARTED", "BUSY", "FAILED"}
    /\ LineMax \in Nat /\ Faults \in Nat /\ Restarts \in Nat /\ Requests \in Nat
    /\ Reordering \in BOOLEAN

VARIABLES
    a_tx, a_io, a_ctl, a_mem, a_rx, a_event, a_serial, a_pc, a_out, a_wire, a_hist,
    b_tx, b_io, b_ctl, b_mem, b_rx, b_event, b_serial, b_pc, b_out, b_wire, b_hist,
    toB, toA,       \* the units on the line
    faults,         \* faults so far
    asked, got, verdict     \* history: what a requested, what b's application got

aVars == <<a_tx, a_io, a_ctl, a_mem, a_rx, a_event, a_serial, a_pc, a_out, a_wire, a_hist>>
bVars == <<b_tx, b_io, b_ctl, b_mem, b_rx, b_event, b_serial, b_pc, b_out, b_wire, b_hist>>
pairVars == <<aVars, bVars, toB, toA, faults, asked, got, verdict>>

A == INSTANCE Link WITH
       Envelope <- "COBS", GenMax <- SeqMax, ComplMax <- 1, Session <- 1, RxFrames <- {},
       tx <- a_tx, io <- a_io, ctl <- a_ctl, mem <- a_mem, rx <- a_rx, event <- a_event,
       serial <- a_serial, pc <- a_pc, out <- a_out, wire <- a_wire, hist <- a_hist

B == INSTANCE Link WITH
       Envelope <- "COBS", GenMax <- SeqMax, ComplMax <- 1, Session <- 9, RxFrames <- {},
       tx <- b_tx, io <- b_io, ctl <- b_ctl, mem <- b_mem, rx <- b_rx, event <- b_event,
       serial <- b_serial, pc <- b_pc, out <- b_out, wire <- b_wire, hist <- b_hist

Request == [sid : 1 .. Restarts + 1, seq : 0 .. SeqMax]

PairInit ==
    /\ A!Init /\ B!Init
    /\ toB = <<>> /\ toA = <<>>
    /\ faults = 0
    /\ asked = <<>> /\ got = <<>> /\ verdict = "none"

-----------------------------------------------------------------------------
\* What a step put on the line joins the units already there, as far as they fit.
Carry(line, units) == IF Len(line) + Len(units) <= LineMax THEN line \o units ELSE line

\* How the current transaction of a stands.
Verdict(t) ==
    CASE t.state \in {"SENDING", "WAITING_ACK"} -> "open"
      [] t.state = "SUCCESS" -> "success"
      [] t.state \in {"FAILED", "CANCELLED"} -> "failed"
      [] OTHER -> verdict

\* A step of a, while b is between calls.
StepA(action) ==
    /\ b_pc = "idle" /\ action
    /\ toB' = Carry(toB, a_wire')
    /\ asked' = IF a_tx'.handle # 0 /\ a_tx'.handle # a_tx.handle
                THEN Append(asked, [sid |-> a_serial.session, seq |-> a_serial.seq]) ELSE asked
    /\ verdict' = Verdict(a_tx')
    /\ UNCHANGED <<bVars, toA, faults, got>>

\* A step of b, while a is between calls.
StepB(action) ==
    /\ a_pc = "idle" /\ action
    /\ toA' = Carry(toA, b_wire')
    /\ got' = IF b_pc = "finish" /\ b_out'.type = "RELIABLE_RX"
              THEN Append(got, [sid |-> b_out'.frame.id.sid, seq |-> b_out'.frame.body]) ELSE got
    /\ UNCHANGED <<aVars, toB, faults, asked, verdict>>

\* Time passes or the line moves, while both are between calls.
Between == a_pc = "idle" /\ b_pc = "idle" /\ UNCHANGED <<asked, got, verdict>>

ARequest == Len(asked) < Requests /\ StepA(A!SendReliable)
ACancel == StepA(A!Cancel)
ATake == StepA(A!Take)
ATick == Between /\ A!Tick /\ UNCHANGED <<bVars, toB, toA, faults>>
AAdapter == StepA(A!Adapter)
APoll == StepA((a_pc = "idle" => A!Runnable) /\ A!Poll)
BRelease == StepB(B!EventRelease)
BAdapter == StepB(B!Adapter)
BPoll == StepB((b_pc = "idle" => B!Runnable) /\ B!Poll)

-----------------------------------------------------------------------------
(* The line *)

\* The unit that arrives next: the oldest, or any when the line reorders.
Arriving(line) == IF Reordering THEN DOMAIN line ELSE {1} \cap DOMAIN line

\* The line once its unit k is gone.
Without(line, k) == [j \in 1 .. Len(line) - 1 |-> IF j < k THEN line[j] ELSE line[j + 1]]

DeliverB ==
    /\ Between
    /\ \E k \in Arriving(toB) : B!Arrive(toB[k]) /\ toB' = Without(toB, k)
    /\ UNCHANGED <<aVars, toA, faults>>

DeliverA ==
    /\ Between
    /\ \E k \in Arriving(toA) : A!Arrive(toA[k]) /\ toA' = Without(toA, k)
    /\ UNCHANGED <<bVars, toB, faults>>

Fault == faults < Faults /\ faults' = faults + 1

Lose ==
    /\ Between
    /\ Fault
    /\ \/ toB # <<>> /\ toB' = Tail(toB) /\ UNCHANGED toA
       \/ toA # <<>> /\ toA' = Tail(toA) /\ UNCHANGED toB
    /\ UNCHANGED <<aVars, bVars>>

Repeat ==
    /\ Between
    /\ Fault
    /\ \/ toB # <<>> /\ toB' = <<Head(toB)>> \o toB /\ UNCHANGED toA
       \/ toA # <<>> /\ toA' = <<Head(toA)>> \o toA /\ UNCHANGED toB
    /\ UNCHANGED <<aVars, bVars>>

\* Context a is closed and initialised again under a new session (wl_init); units
\* already on the line stay there.
RestartA ==
    /\ a_pc = "idle" /\ b_pc = "idle"
    /\ Fault
    /\ a_serial.session <= Restarts
    /\ a_tx' = A!FreshTx /\ a_io' = A!FreshIo /\ a_ctl' = A!FreshCtl /\ a_mem' = A!FreshMem
    /\ a_rx' = A!FreshRx /\ a_event' = A!NoEvent /\ a_out' = A!NoEvent /\ a_wire' = <<>>
    /\ a_serial' = [session |-> a_serial.session + 1, seq |-> 0, gen |-> 0]
    /\ a_pc' = "idle" /\ a_hist' = A!FreshHist
    /\ verdict' = IF verdict = "open" THEN "failed" ELSE verdict
    /\ UNCHANGED <<bVars, toB, toA, asked, got>>

PairNext ==
    \/ ARequest \/ ACancel \/ ATake \/ ATick \/ AAdapter \/ APoll
    \/ BRelease \/ BAdapter \/ BPoll
    \/ DeliverB \/ DeliverA \/ Lose \/ Repeat \/ RestartA

PairSpec == PairInit /\ [][PairNext]_pairVars

-----------------------------------------------------------------------------
\* In-order, at-most-once delivery, and no success without delivery: both contexts and
\* the line together implement Delivery (protocol.c: the duplicate record of
\* wl_frame_route_view, the ACK matching of wl_handle_ack, the retry of wl_poll).
D == INSTANCE Delivery
DeliveryImplemented == D!DeliverySpec

\* docs/protocol.md:477 says a duplicate of an accepted reliable packet must not be
\* exposed to the application a second time.
DeliveredOnce == \A j, k \in DOMAIN got : got[j] = got[k] => j = k

-----------------------------------------------------------------------------
(* Liveness.  Both owners keep polling, applications release what they borrowed,
   adapters report what they were given, the clock reaches deadlines and the line
   delivers what it carries.  Fairness is strong because the model runs each poll to
   its end before another party moves, which only interrupts the others. *)

Fairness ==
    /\ SF_pairVars(APoll) /\ SF_pairVars(BPoll)
    /\ SF_pairVars(AAdapter) /\ SF_pairVars(BAdapter)
    /\ SF_pairVars(BRelease) /\ SF_pairVars(ATick)
    /\ SF_pairVars(DeliverA) /\ SF_pairVars(DeliverB)

\* A sink that is offered a unit again and again does not answer BUSY for ever.
SinkAccepts ==
    /\ SF_pairVars(APoll /\ a_io.queued /\ ~a_io'.queued)
    /\ SF_pairVars(BPoll /\ b_ctl.pending /\ b_ctl # b_ctl')

LivePairSpec == PairSpec /\ Fairness
PatientPairSpec == LivePairSpec /\ SinkAccepts

\* Whatever the line loses and repeats, every request gets a verdict: a lost packet or
\* ACK ends in a retransmission or in the exhaustion of the retries (wl_poll's timer).
EveryRequestSettles == verdict = "open" ~> verdict # "open"

\* On a line that loses nothing and without a timer to race, every request that is not
\* cancelled succeeds.
EveryRequestSucceeds == verdict = "open" ~> a_tx.state \in {"SUCCESS", "CANCELLED"}
=============================================================================
