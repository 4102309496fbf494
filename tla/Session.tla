------------------------------- MODULE Session -------------------------------
(***************************************************************************)
(* The C++ connection of bindings/cpp/src/session.cpp: it owns an          *)
(* executor, its endpoint and a UDP adapter, lets callers in through a     *)
(* gate, and closes while they are inside.  It is composed with the        *)
(* executor, which only the session's calls reach.  A plan without a       *)
(* session leaves the executor to its own callers.                         *)
(***************************************************************************)
EXTENDS Executor

VARIABLES
    at,       \* at[t]: where thread t is in a call of the session
    closing,  \* Impl::closing
    adapter   \* the adapter exists

sessionVars == <<at, closing, adapter>>
allVars == <<vars, sessionVars>>

SessionInit ==
    /\ ExecutorInit
    /\ at = [t \in Thread |-> "out"] /\ closing = FALSE /\ adapter = TRUE

\* active_calls counts these
Active == {t \in Thread : at[t] \in {"admitted", "called", "refused"}}
Closers == {t \in Thread : at[t] \in {"close", "join", "callers"}}

\* submit and cancel keep the gate until the executor is notified
GateFree == \A t \in Thread : at[t] = "gate" => pc[t] = "idle"

\* thread t is in no call; the handle exists once connect has started the executor
Outside(t) == opc # "off" /\ pc[t] = "idle" /\ at[t] \in {"out", "gate"}

\* the bound on calls of the executor, those still to come counted
Room == ops + Cardinality({t \in Thread : at[t] \in {"admitted", "close"}}) < plan.ops

Move(t, to) == at' = [at EXCEPT ![t] = to]
Held == UNCHANGED <<closing, adapter>>

----------------------------------------------------------------------------
\* connect: the executor starts, or fails to and the half-made session is closed
Connect == Start /\ UNCHANGED sessionVars
ConnectFails == StopReady /\ closing' = TRUE /\ adapter' = FALSE /\ UNCHANGED at

\* invoke: through the gate, the synchronous call, and out again
InvokeEnter(t) ==
    /\ Outside(t) /\ GateFree /\ Room /\ ~closing /\ job[t].st = "none"
    /\ Move(t, "admitted") /\ Held /\ UNCHANGED vars

InvokeCall(t) ==
    /\ at[t] = "admitted" /\ Held
    /\ \/ SubmitRpc(t) /\ Move(t, "called")
       \/ ~Admits(t) /\ Move(t, "refused") /\ UNCHANGED vars

InvokeLeave(t) ==
    /\ at[t] = "refused" \/ (at[t] = "called" /\ pc[t] = "idle" /\ job[t].st = "done")
    /\ Move(t, "out") /\ Held /\ UNCHANGED vars

\* submit, and the request_cancel it leaves with the call
Submit(t) ==
    /\ Outside(t) /\ GateFree /\ Room /\ ~closing
    /\ SubmitRpc(t) /\ Move(t, "gate") /\ Held

RequestCancel(t, u) ==
    /\ Outside(t) /\ GateFree /\ Room /\ ~closing
    /\ CancelRpc(t, u) /\ Move(t, "gate") /\ Held

\* close, by one thread at a time: shut the gate, stop and join the executor, wait for the
\* callers inside, drop the adapter
CloseGate(t) ==
    /\ Outside(t) /\ GateFree /\ Room /\ Closers = {}
    /\ closing' = TRUE /\ Move(t, "close") /\ UNCHANGED adapter /\ UNCHANGED vars

CloseStop(t) ==
    /\ at[t] = "close" /\ Held
    /\ \/ life = "stopped" /\ Move(t, "callers") /\ UNCHANGED vars
       \/ life # "stopped" /\ RequestStop(t) /\ Move(t, "join")

CloseJoin(t) ==
    /\ at[t] = "join" /\ pc[t] = "idle" /\ life = "stopped"
    /\ Move(t, "callers") /\ Held /\ UNCHANGED vars

DropsAtOnce(t) ==
    /\ at[t] = "callers"
    /\ adapter' = FALSE /\ Move(t, "out") /\ UNCHANGED closing /\ UNCHANGED vars
CloseCallers(t) ==
    /\ at[t] = "callers" /\ Active = {}
    /\ adapter' = FALSE /\ Move(t, "out") /\ UNCHANGED closing /\ UNCHANGED vars

Returning(t) ==
    \/ InvokeCall(t) \/ InvokeLeave(t) \/ CloseStop(t) \/ CloseJoin(t) \/ CloseCallers(t)

SessionNext ==
    \/ Running /\ UNCHANGED sessionVars
    \/ ~plan.session /\ Uses /\ UNCHANGED sessionVars
    \/ /\ plan.session
       /\ \/ Connect \/ ConnectFails
          \/ \E t \in Thread :
               \/ InvokeEnter(t) \/ Submit(t) \/ CloseGate(t) \/ Returning(t)
               \/ \E u \in Thread : RequestCancel(t, u)

\* The owner and the threads inside a call are scheduled, and time passes.
Proceed(t) == ((Notify(t) \/ Continue(t)) /\ UNCHANGED sessionVars) \/ Returning(t)
SessionFairness ==
    /\ WF_vars(Owner) /\ WF_vars(Notify(Adapter))
    /\ \A t \in Thread : WF_allVars(Proceed(t)) /\ WF_vars(CallDue(t))

SessionSpec == SessionInit /\ [][SessionNext]_allVars /\ SessionFairness

----------------------------------------------------------------------------
\* A stopped executor is quiet (StopIsQuiet), and so is a closed session: once its adapter
\* is gone, nobody is inside invoke or between the gate and the executor, the owner thread
\* has left its loop and every call has its result (Impl::close racing invoke, submit,
\* request_cancel, another close and a stop of the executor's own).
ClosedIsQuiet ==
    /\ StopIsQuiet
    /\ ~adapter =>
         /\ closing /\ Active = {} /\ GateFree
         /\ opc \in {"off", "stopped"}
         /\ \A t \in Thread : job[t].st \in {"none", "done"}

\* Everybody returns: an admitted call is answered, timed out, cancelled or rejected
\* whatever the other threads do and whenever the executor stops (executor.hpp: "Success
\* retains task until exactly one finish, including orderly shutdown"), a caller that got
\* through the session's gate leaves again, and close returns, although callers wait for
\* the owner, close waits for both, and submit and cancel hold the gate across a notification.
Unfinished(t) ==
    job[t].st \in {"queued", "collected", "active"} \/ t \in Active \cup Closers
EveryoneReturns == \A t \in Thread : Unfinished(t) ~> ~Unfinished(t)
=============================================================================
