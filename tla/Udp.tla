-------------------------------- MODULE Udp ---------------------------------
(***************************************************************************)
(* The Zephyr UDP adapter (src/adapters/zephyr/udp): a non-blocking socket *)
(* served by the owner, an eventfd that wakes its poll, and a stop that    *)
(* any thread may ask for between the owner's steps.                       *)
(*                                                                         *)
(* sock holds the datagrams the network stack (external) has queued: a     *)
(* number from the peer, or Bad for one that is not the peer's, is empty   *)
(* or is too long.                                                         *)
(***************************************************************************)
EXTENDS Port

CONSTANTS UdpRoom,      \* units the link's receive queue holds
          UdpBudget,    \* service_budget
          UdpPlans      \* bounds: records of datagrams, units

Bad == -1

UdpInit ==
    \E plan \in UdpPlans :
    port = LinkSide @@
      [kind |-> "udp", plan |-> plan, opened |-> TRUE, stopped |-> FALSE, lastError |-> FALSE,
       retry |-> FALSE, moreRx |-> FALSE, rxPaused |-> FALSE, wake |-> FALSE,
       listens |-> FALSE, turn |-> 0, sock |-> << >>, ring |-> 0, opc |-> "idle",
       arrived |-> 0, strays |-> 0, units |-> 0]

\* active
Active(u) == u.opened /\ ~u.stopped /\ ~u.lastError

\* failed
Failed(u) == [u EXCEPT !.lastError = TRUE, !.retry = FALSE]

----------------------------------------------------------------------------
UdpDatagram ==
    \/ /\ port.arrived < port.plan.datagrams
       /\ port' = [port EXCEPT !.arrived = @ + 1, !.sock = Append(@, port.arrived + 1)]
    \/ /\ port.strays < 1                                       \* bound
       /\ port' = [port EXCEPT !.strays = @ + 1, !.sock = Append(@, Bad)]

\* wl_udp_socket_notify, wl_udp_socket_request_stop: from any thread
UdpNotify == port.opened /\ ~port.stopped /\ ~port.wake /\ port' = [port EXCEPT !.wake = TRUE]
StopAsked(u) == [u EXCEPT !.stopped = TRUE, !.wake = TRUE]
UdpRequestStop == port.opened /\ ~port.stopped /\ port' = StopAsked(port)

----------------------------------------------------------------------------
(* The owner.                                                              *)

\* sink and wl_udp_socket_send
UdpSink ==
    /\ port.opc = "idle" /\ MayHand(port) /\ port.units < port.plan.units
    /\ LET u == [port EXCEPT !.units = @ + 1] IN
       IF ~Active(u) THEN port' = u
       ELSE \/ port' = [u EXCEPT !.retry = FALSE]
            \/ port' = [u EXCEPT !.retry = TRUE, !.blocked = TRUE]
            \/ port' = Failed(u)

\* readiness; a pending retry is due once time has passed
UdpRunnable(u) == (u.moreRx \/ u.rxPaused \/ (~u.stopped /\ u.sock # << >>)) /\ u.ring < UdpRoom

\* receive_service: a due retry makes the link writable again, then up to UdpBudget turns
UdpService ==
    /\ port.opc = "idle" /\ ~port.closed /\ (UdpRunnable(port) \/ port.retry)
    /\ IF ~Active(port) THEN port' = [port EXCEPT !.opc = "decide"]
       ELSE \E due \in IF port.retry THEN BOOLEAN ELSE {FALSE} :
              LET u == IF due THEN [Writable(port) EXCEPT !.retry = FALSE] ELSE port
              IN port' = [u EXCEPT !.moreRx = FALSE, !.rxPaused = FALSE, !.turn = 0, !.opc = "turn"]

\* one turn: claim a unit, receive into it, commit or abort it; a socket that fails is latched
Receive(u) ==
    LET r == [u EXCEPT !.sock = Tail(@), !.turn = @ + 1]
    IN IF Head(u.sock) = Bad THEN r ELSE Give([r EXCEPT !.ring = @ + 1], Head(u.sock))
UdpTurn ==
    /\ port.opc = "turn"
    /\ \/ port' = IF port.turn = UdpBudget THEN [port EXCEPT !.moreRx = TRUE, !.opc = "decide"]
                  ELSE IF port.ring = UdpRoom THEN [port EXCEPT !.rxPaused = TRUE, !.opc = "decide"]
                  ELSE IF port.stopped \/ port.sock = << >> THEN [port EXCEPT !.opc = "decide"]
                  ELSE Receive(port)
       \/ /\ port.turn < UdpBudget /\ port.ring < UdpRoom /\ ~port.stopped
          /\ port' = [Failed(port) EXCEPT !.opc = "decide"]

\* the endpoint polls the link, and waits when nothing is runnable
UdpPump == port.opc = "decide" /\ port.ring > 0 /\ port' = [port EXCEPT !.ring = @ - 1]
UdpDecide ==
    /\ port.opc = "decide"
    /\ port' = [port EXCEPT !.opc = IF port.ring = 0 /\ ~UdpRunnable(port) THEN "enter" ELSE "idle"]

\* wait_relative and wl_udp_socket_wait: poll the socket (unless reception is paused) and
\* the eventfd; a poll that fails is latched
UdpEnter ==
    /\ port.opc = "enter"
    /\ IF ~Active(port) THEN port' = [port EXCEPT !.opc = "idle"]
       ELSE LET paused == port.rxPaused /\ port.ring = UdpRoom
            IN port' = [port EXCEPT !.rxPaused = paused, !.listens = ~paused, !.opc = "poll"]
UdpLeave ==
    /\ port.opc = "poll"
    /\ \/ port' = [Failed(port) EXCEPT !.listens = FALSE, !.opc = "idle"]
       \/ /\ port.wake \/ port.retry \/ (port.listens /\ port.sock # << >>)
          /\ port' = [port EXCEPT !.moreRx = @ \/ (~port.stopped /\ (port.wake \/ port.sock # << >>)),
                                  !.wake = @ /\ port.stopped, !.listens = FALSE, !.opc = "idle"]

\* quiesce, then wl_zephyr_udp_close
UdpQuiesce ==
    /\ port.opc = "idle" /\ ~port.closed
    /\ port' = [StopAsked(port) EXCEPT !.closed = TRUE, !.retry = FALSE, !.moreRx = FALSE,
                                       !.rxPaused = FALSE]
UdpClose == port.closed /\ port.opened /\ port' = [port EXCEPT !.opened = FALSE]

UdpNext ==
    \/ UdpDatagram \/ UdpNotify \/ UdpRequestStop \/ UdpSink \/ UdpService \/ UdpTurn
    \/ UdpPump \/ UdpDecide \/ UdpEnter \/ UdpLeave \/ UdpQuiesce \/ UdpClose

----------------------------------------------------------------------------
\* what the link was given and what the socket still holds are the peer's datagrams, in
\* order, each once
UdpRxOk ==
    port.stream \o SelectSeq(port.sock, LAMBDA n : n # Bad) = [i \in 1 .. port.arrived |-> i]

\* a poll that nothing will end leaves nothing undone
UdpAwake ==
    port.opc = "poll" /\ ~port.wake /\ ~port.retry =>
        ~port.stopped /\ (port.sock # << >> => port.listens) /\ port.ring = 0

\* a link told BUSY has a retry pending
UdpBusyOk == port.blocked /\ Active(port) => port.retry

-----------------------------------------------------------------------------
(***************************************************************************)
(* The host UDP adapter (src/adapters/asio_udp): one owner serves the      *)
(* socket and blocks in an Asio event loop; notify, from any thread, sets  *)
(* a latch and stops the loop.  With a stream envelope a datagram waits in *)
(* the adapter until the link's ring has room for all of it.               *)
(*                                                                         *)
(* sock is what the operating system (external) has queued: <<n, from>>,   *)
(* or <<n, "long">> for a datagram the link has no room for.               *)
(***************************************************************************)

CONSTANTS AsioRoom,     \* units, or datagrams' worth of ring, that the link holds
          AsioBudget,   \* service_budget
          AsioPlans     \* bounds: records of datagrams, units, stream, learn

Peers == {"a", "b"}

AsioInit ==
    \E plan \in AsioPlans :
    port = LinkSide @@
      [kind |-> "asio", plan |-> plan, peer |-> "none", more |-> FALSE, txBlocked |-> FALSE,
       staged |-> 0, latch |-> FALSE, ioStopped |-> FALSE, notifier |-> "idle", notes |-> 0,
       reads |-> FALSE, writes |-> FALSE, ready |-> FALSE, turn |-> 0, sock |-> << >>,
       froms |-> {}, ring |-> 0, opc |-> "idle", arrived |-> 0, units |-> 0]

AsioHasSpace(u) == u.ring < AsioRoom

----------------------------------------------------------------------------
AsioDatagram ==
    /\ port.arrived < port.plan.datagrams
    /\ \E from \in Peers \cup {"long"} :
         port' = [port EXCEPT !.arrived = @ + 1, !.sock = Append(@, <<port.arrived + 1, from>>)]

\* notify: latch, then stop the loop
AsioNotify ==
    /\ port.notifier = "idle" /\ port.notes < 1 /\ ~port.closed  \* bound
    /\ port' = [port EXCEPT !.latch = TRUE, !.notes = @ + 1, !.notifier = "stop"]
AsioNotifyStop ==
    port.notifier = "stop" /\ port' = [port EXCEPT !.ioStopped = TRUE, !.notifier = "idle"]

----------------------------------------------------------------------------
(* The owner.                                                              *)

\* set_peer; a different peer is refused
AsioSetPeer ==
    /\ port.opc = "idle" /\ ~port.closed /\ port.peer = "none"
    /\ port' = [Writable(port) EXCEPT !.peer = "a", !.more = TRUE]

\* sink: BUSY without a peer, and when the socket is full
AsioSink ==
    /\ port.opc = "idle" /\ MayHand(port) /\ port.units < port.plan.units
    /\ LET u == [port EXCEPT !.units = @ + 1] IN
       IF u.peer = "none" THEN port' = [u EXCEPT !.blocked = TRUE]
       ELSE \E full \in BOOLEAN : port' = [u EXCEPT !.txBlocked = full, !.blocked = full]

\* readiness, its runnable part
AsioRunnable(u) == (u.more \/ u.sock # << >>) /\ AsioHasSpace(u)

\* service: up to AsioBudget turns
AsioService ==
    /\ port.opc = "idle" /\ ~port.closed /\ AsioRunnable(port)
    /\ port' = [port EXCEPT !.more = FALSE, !.turn = 0, !.opc = "turn"]

\* flush_stream
Flush(u) ==
    IF u.staged = 0 \/ ~AsioHasSpace(u) THEN u
    ELSE Give([u EXCEPT !.staged = 0, !.ring = @ + 1], u.staged)

\* one turn after the flush: receive, reject what is too long or not the peer's, learn a
\* peer from the first datagram, stage or commit the rest
Accepts(u, from) == from # "long" /\ (from = u.peer \/ (u.peer = "none" /\ u.plan.learn))
TakeDatagram(u) ==
    LET n == Head(u.sock)[1]
        from == Head(u.sock)[2]
        t == [u EXCEPT !.sock = Tail(@), !.turn = @ + 1]
    IN IF ~Accepts(u, from) THEN t
       ELSE LET p == [t EXCEPT !.peer = from, !.froms = @ \cup {from}]
            IN IF u.plan.stream THEN [p EXCEPT !.staged = n] ELSE Give([p EXCEPT !.ring = @ + 1], n)
AsioFull(u) == u.staged # 0 \/ (~u.plan.stream /\ ~AsioHasSpace(u))
AsioTurn ==
    /\ port.opc = "turn"
    /\ LET u == Flush(port) IN
       \/ port' = IF u.turn = AsioBudget THEN [port EXCEPT !.more = TRUE, !.opc = "pump"]
                  ELSE IF AsioFull(u) THEN [u EXCEPT !.more = TRUE, !.opc = "pump"]
                  ELSE IF u.sock = << >> THEN [u EXCEPT !.opc = "pump"]
                  ELSE TakeDatagram(u)
       \/ \* the socket reports an error
          u.turn < AsioBudget /\ ~AsioFull(u) /\ port' = [u EXCEPT !.opc = "pump"]

\* the endpoint polls the link, and waits when nothing is runnable
AsioPump == port.opc = "pump" /\ port' = [port EXCEPT !.ring = 0, !.opc = "decide"]
AsioDecide ==
    /\ port.opc = "decide"
    /\ port' = [port EXCEPT !.opc = IF AsioRunnable(port) THEN "idle" ELSE "enter"]

\* wait_for_activity: restart the loop and start the waits; consume the latch; run; then
\* consume what came meanwhile, and let a blocked link try again
AsioEnter ==
    /\ port.opc = "enter"
    /\ port' = [port EXCEPT !.ioStopped = FALSE, !.reads = AsioHasSpace(port),
                            !.writes = port.txBlocked, !.ready = FALSE, !.opc = "latch"]
AsioLatch ==
    /\ port.opc = "latch"
    /\ port' = [port EXCEPT !.ready = port.latch, !.latch = FALSE, !.opc = "check"]
AsioCheck ==
    /\ port.opc = "check"
    /\ port' = [port EXCEPT !.opc = IF port.ready \/ port.latch THEN "leave" ELSE "run"]
AsioRun ==
    /\ port.opc = "run"
    /\ \/ port.ioStopped /\ port' = [port EXCEPT !.opc = "check"]
       \/ /\ (port.reads /\ port.sock # << >>) \/ port.writes
          /\ port' = [port EXCEPT !.ready = TRUE, !.opc = "check"]
AsioLeave ==
    /\ port.opc = "leave"
    /\ LET ready == port.ready \/ port.latch
           u == IF ready /\ port.txBlocked THEN Writable(port) ELSE port
       IN port' = [u EXCEPT !.latch = FALSE, !.more = @ \/ ready, !.ready = FALSE,
                            !.reads = FALSE, !.writes = FALSE, !.opc = "idle"]

AsioQuiesce ==
    /\ port.opc = "idle" /\ ~port.closed
    /\ port' = [port EXCEPT !.closed = TRUE, !.sock = << >>]

AsioNext ==
    \/ AsioDatagram \/ AsioNotify \/ AsioNotifyStop \/ AsioSetPeer \/ AsioSink
    \/ AsioService \/ AsioTurn \/ AsioPump \/ AsioDecide
    \/ AsioEnter \/ AsioLatch \/ AsioCheck \/ AsioRun \/ AsioLeave \/ AsioQuiesce

----------------------------------------------------------------------------
\* the link is given datagrams of one peer only, in order
AsioRxOk == StreamInOrder(port) /\ port.froms \subseteq {port.peer}

\* a blocked event loop ends as soon as there is input the link has room for, a full socket
\* drains, or somebody notified
AsioAwake ==
    port.opc = "run" /\ ~port.ioStopped =>
        /\ port.latch => port.notifier = "stop"
        /\ port.sock # << >> => port.reads
        /\ port.staged = 0 /\ port.ring = 0
=============================================================================
