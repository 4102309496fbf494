---------------------------- MODULE LinkSchedule ----------------------------
(***************************************************************************)
(* The readiness query of src/src/schedule.c against the wl_poll it speaks *)
(* for.  An owner that sleeps while runnable is 0 must lose nothing, and   *)
(* one that polls while runnable is 1 must not spin.                       *)
(*                                                                         *)
(* hint follows one wl_poll: what the query said just before it, and       *)
(* whether the poll has done anything since.                               *)
(***************************************************************************)
EXTENDS Link

VARIABLE hint   \* "none", or in a poll: "quiet", "work" or "done"

schedVars == <<vars, hint>>

SchedInit == Init /\ hint = "none"

work == <<tx, io, ctl, mem, rx, event>>

\* A step of wl_poll that changes the context is the work a runnable hint promised.
Follow(h) == IF h = "work" /\ work' # work THEN "done" ELSE h

\* A quiet hint no longer binds once a unit arrives or the clock advances.
Heard(h) == IF h = "quiet" THEN "done" ELSE h

SchedNext ==
    \/ SendReliable /\ hint' = hint
    \/ SendUnreliable /\ hint' = hint
    \/ (\E delivery \in {"RELIABLE", "UNRELIABLE"} : PayloadClaim(delivery)) /\ hint' = hint
    \/ PayloadCommit /\ hint' = hint
    \/ PayloadAbort /\ hint' = hint
    \/ Cancel /\ hint' = hint
    \/ Take /\ hint' = hint
    \/ EventRelease /\ hint' = hint
    \/ RecoverReset /\ hint' = hint
    \/ (\E frame \in RxFrames : FeedUnit(frame)) /\ hint' = hint
    \/ Writable /\ hint' = hint
    \/ TxConsumed /\ hint' = hint
    \/ TxDrained /\ hint' = hint
    \/ Produce /\ hint' = Heard(hint)
    \/ Tick /\ hint' = Heard(hint)
    \/ PollBegin /\ hint' = Follow(IF Runnable THEN "work" ELSE "quiet")
    \/ PollReceive /\ hint' = Follow(hint)
    \/ PollReceived /\ hint' = Follow(hint)
    \/ PollQueued /\ hint' = Follow(hint)
    \/ PollTimer /\ hint' = Follow(hint)
    \/ PollReturn /\ hint' = "none"

SchedSpec == SchedInit /\ [][SchedNext]_schedVars

\* When the query says a context is runnable, the next wl_poll changes the context or
\* returns an event: an owner that polls while runnable never spins on a busy sink, a
\* held lease or a blocked timer.
NoSpin == [][pc = "finish" /\ pc' = "idle" /\ hint = "work" => out' # NoEvent]_schedVars

InPoll == pc # "idle" \/ pc' # "idle"
\* The hint in force for a step of wl_poll, its first step included, was that there is
\* nothing to do, and nothing has arrived since.
Quiet == IF pc = "idle" THEN hint' = "quiet" ELSE hint = "quiet" /\ hint' # "done"

\* When the query says a context is not runnable and nothing arrives, the next wl_poll
\* changes nothing and returns nothing, so an owner that sleeps misses no work.  The
\* application holding a claim is excepted here.
SleepIsSafe ==
    [][InPoll /\ Quiet /\ io.claim = "NONE" => work' = work /\ out' = NoEvent]_schedVars
=============================================================================
