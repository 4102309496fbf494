--------------------------- MODULE ExecutorProofs ---------------------------
(***************************************************************************)
(* Proofs about the threaded owner (module Executor), the endpoint it      *)
(* steps (module Endpoint) and the session that closes it (module          *)
(* Session), for any number of threads, slots, services and any plan.      *)
(*                                                                         *)
(* TokenInv ties the event's mark to its permit, WakeInv says for each     *)
(* kind of work what still stands between it and a sleeping owner, CallInv *)
(* ties the calls to the admission table, FeedInv counts the feeds inside  *)
(* the link, Served says a blocked client is reached by a release, and     *)
(* GateInv ties the session's callers and closers to the executor.         *)
(***************************************************************************)
EXTENDS Session, NaturalFacts, FiniteSetTheorems, TLAPS

EndpointType ==
    [policy : BOOLEAN, active : SUBSET Service, moved : BOOLEAN, cursor : Nat, session : Nat,
     free : BOOLEAN, want : [Client -> 0 .. 3], due : SUBSET Client]

\* A client with a unit to send, and the link free, is going to be stepped.
Served(x) == \A c \in Client : x.want[c] > 0 /\ x.free => x.moved \/ Marked(x, c) \/ c \in x.due

EndpointGood(x) == x \in EndpointType /\ Served(x)

Pcs == {"idle", "notify", "mark", "release", "stopping", "recheck", "withdraw"}
PcInv == pc \in [Actor -> Pcs] /\ pc[Adapter] \in {"idle", "notify", "mark", "release"}

\* A marked event has its permit, or a thread is about to release one, or the owner has
\* just taken it and not cleared the mark yet.
TokenInv == pending => \/ permit \/ opc \in {"clear", "waited"}
                       \/ \E a \in Actor : pc[a] = "release"

\* The generation will differ from the one observed, or does already.
Ahead == wakeMoved \/ \E a \in Actor : pc[a] = "notify"
\* The mark is set, or will be.
Woken == pending \/ \E a \in Actor : pc[a] \in {"notify", "mark"}
Feeding == \E t \in Thread : pc[t] = "withdraw"

\* What the owner has not looked at since it last could have, by where it is in its loop:
\* between the look and the generation check the generation moves; asleep, the mark is set.
CountInv == rx \in Nat /\ cmds \in Nat /\ (cmds # 0 => cmdPending) /\ (opc = "sent" => cmds > 0)
WakeInv ==
    /\ opc \in {"dispatch", "service", "poll", "latest", "sent", "query", "commands", "generation"} =>
         (rpcPending => Ahead)
    /\ opc \in {"commands", "generation"} => (rx > 0 => Ahead \/ Feeding) /\ (txDone => Ahead)
    /\ opc \in {"commands", "generation", "wait"} => ~e.policy /\ e.active = {} /\ ~e.moved
    /\ opc = "generation" => (cmds > 0 /\ e.free => Ahead)
    /\ opc = "wait" => /\ rx > 0 => Woken \/ Feeding
                       /\ rpcPending \/ txDone \/ stop \/ (cmds > 0 /\ e.free) => Woken

\* A call is in the admission table from its admission to its one finish, the collected
\* batch names each of its calls once, and the owner leaves no call behind when it stops.
Live == {"queued", "collected", "active"}
TableType ==
    /\ table \in [Slot -> Thread \cup {NoJob}] /\ job \in [Thread -> Job]
    /\ batch \subseteq Thread \X {"cancel", "submit"}
CallInv ==
    /\ \A t \in Thread : job[t].finishes = IF job[t].st = "done" THEN 1 ELSE 0
    /\ \A t \in Thread : InTable(t) <=> job[t].st \in Live
BatchInv ==
    /\ opc # "dispatch" => batch = {}
    /\ \A b \in batch : InTable(b[1]) /\ \A c \in batch : c[1] = b[1] => c = b
LifeInv ==
    /\ opc \in {"cancel", "drain", "reset", "stopped", "off"} => ~accepting
    /\ opc # "off" => life # "ready"
    /\ life = "stopped" => opc \in {"off", "stopped"}
SweptInv ==
    /\ opc = "cancel" => budget \in Nat \ {0} /\ \A s \in Slot : s < budget => table[s] = NoJob
    /\ opc \in {"drain", "reset", "stopped", "off"} => \A s \in Slot : table[s] = NoJob

\* producers counts the threads inside feedBytes; a stopped owner left none there.
Feeders == {t \in Thread : pc[t] \in {"recheck", "withdraw"}}
FeedInv ==
    /\ producers = Cardinality(Feeders)
    /\ opc \in {"reset", "stopped"} => Feeders = {}
    /\ opc = "stopped" => cmds = 0

ExecInv ==
    /\ PcInv /\ TokenInv /\ CountInv /\ WakeInv /\ EndpointGood(e)
    /\ TableType /\ CallInv /\ BatchInv /\ LifeInv /\ SweptInv /\ FeedInv

\* A step of the executor; every action of the session is one, or leaves it alone.
ExecNext == Running \/ Uses

\* Closing shuts the gate for good; a closer past the join, and a dropped adapter, mean a
\* stopped executor.
GateInv ==
    /\ at \in [Thread -> {"out", "gate", "admitted", "called", "refused", "close", "join", "callers"}]
    /\ ~plan.session \/ opc = "off" => \A t \in Thread : at[t] = "out"
    /\ ~plan.session => adapter
    /\ closing => GateFree
    /\ \A t \in Thread : at[t] \in {"close", "join", "callers"} => closing
    /\ \A t \in Thread : at[t] = "callers" => life = "stopped"
    /\ ~adapter => closing /\ Active = {} /\ life = "stopped"

Inv == ExecInv /\ GateInv

-----------------------------------------------------------------------------
(* The endpoint *)

LEMMA ClientFacts ==
    /\ ServiceCount \in Nat /\ Policy \in Client /\ Service \subseteq Client /\ Policy \notin Service
    /\ Client = Service \cup {Policy}
BY EndpointAssumption DEF Policy, Client, Service

\* wl_endpoint_init: nobody has anything to send.
LEMMA NewGood == EndpointGood(NewEndpoint)
<1>1. [c \in Client |-> 0] \in [Client -> 0 .. 3]
  OBVIOUS
<1>2. NewEndpoint \in EndpointType
  BY <1>1, Zenon DEF NewEndpoint, EndpointType
<1>3. Served(NewEndpoint)
  BY DEF NewEndpoint, Served
<1> QED BY <1>2, <1>3, Zenon DEF EndpointGood

\* Taking a client off the lists keeps the rest.
LEMMA UnmarkFacts ==
    ASSUME NEW x \in EndpointType, NEW c \in Client
    PROVE  /\ Unmark(x, c) \in EndpointType
           /\ Unmark(x, c).want = x.want /\ Unmark(x, c).free = x.free /\ Unmark(x, c).moved = x.moved
           /\ \A d \in Client \ {c} : /\ Marked(Unmark(x, c), d) <=> Marked(x, d)
                                      /\ d \in Unmark(x, c).due <=> d \in x.due
<1>1. Unmark(x, c) \in EndpointType
  BY Zenon DEF Unmark, EndpointType
<1>2. /\ Unmark(x, c).want = x.want /\ Unmark(x, c).free = x.free /\ Unmark(x, c).moved = x.moved
      /\ Unmark(x, c).policy = (x.policy /\ c # Policy)
      /\ Unmark(x, c).active = x.active \ {c} /\ Unmark(x, c).due = x.due \ {c}
  BY Zenon DEF Unmark, EndpointType
<1>3. ASSUME NEW d \in Client \ {c}
      PROVE  (Marked(Unmark(x, c), d) <=> Marked(x, d)) /\ (d \in Unmark(x, c).due <=> d \in x.due)
  BY <1>2, <1>3, Zenon DEF Marked, EndpointType
<1> QED BY <1>1, <1>2, <1>3, Zenon

\* One step callback leaves no client blocked on a free link.
LEMMA StepGood ==
    ASSUME NEW x, EndpointGood(x), NEW c \in Client
    PROVE  EndpointGood(StepIfWoken(x, c))
<1> DEFINE u == Unmark(x, c)
<1>1. x \in EndpointType /\ Served(x) /\ x.want \in [Client -> 0 .. 3]
  BY Zenon DEF EndpointGood, EndpointType
<1>2. /\ u \in EndpointType /\ u.want = x.want /\ u.free = x.free /\ u.moved = x.moved
      /\ \A d \in Client \ {c} : (Marked(u, d) <=> Marked(x, d)) /\ (d \in u.due <=> d \in x.due)
  BY <1>1, UnmarkFacts, Zenon
<1> HIDE DEF u
<1>3. CASE ~(Marked(x, c) \/ c \in x.due)
  BY <1>3, Zenon DEF StepIfWoken
<1>4. CASE (Marked(x, c) \/ c \in x.due) /\ x.want[c] = 2
  <2> DEFINE v == [u EXCEPT !.want[c] = 1]
  <2>1. StepIfWoken(x, c) = Mark(v, c)
    BY <1>4, Zenon DEF StepIfWoken, Stepped, u
  <2>2. v \in EndpointType /\ \A d \in Client \ {c} : v.want[d] = x.want[d]
    BY <1>1, <1>2 DEF EndpointType
  <2>3. /\ v.free = u.free /\ v.moved = u.moved /\ v.due = u.due /\ v.policy = u.policy
        /\ v.active = u.active
    BY <1>2, Zenon DEF EndpointType
  <2> HIDE DEF v
  <2>4. /\ Mark(v, c) \in EndpointType /\ Mark(v, c).want = v.want /\ Mark(v, c).free = v.free
        /\ Mark(v, c).moved = v.moved /\ Mark(v, c).due = v.due /\ Marked(Mark(v, c), c)
        /\ \A d \in Client : Marked(v, d) => Marked(Mark(v, c), d)
    BY <2>2, ClientFacts, Zenon DEF Mark, Marked, EndpointType
  <2>5. Served(Mark(v, c))
    BY <1>1, <1>2, <2>2, <2>3, <2>4, Zenon DEF Served, Marked
  <2> QED BY <2>1, <2>4, <2>5, Zenon DEF EndpointGood
<1>5. CASE (Marked(x, c) \/ c \in x.due) /\ x.want[c] = 1 /\ x.free
  <2> DEFINE v == [u EXCEPT !.want[c] = 0, !.free = FALSE]
  <2>1. StepIfWoken(x, c) = v
    BY <1>5 DEF StepIfWoken, Stepped, u
  <2>2. v \in EndpointType /\ ~v.free
    <3>1. [u.want EXCEPT ![c] = 0] \in [Client -> 0 .. 3]
      BY <1>1, <1>2
    <3>2. v = [u EXCEPT !.want = [u.want EXCEPT ![c] = 0], !.free = FALSE]
      BY <1>2, Zenon DEF EndpointType
    <3> QED BY <1>2, <3>1, <3>2, Zenon DEF EndpointType
  <2> QED BY <2>1, <2>2, Zenon DEF EndpointGood, Served
<1>6. CASE (Marked(x, c) \/ c \in x.due) /\ x.want[c] = 3
  <2> DEFINE r == IF x.free THEN u ELSE LinkReleased(u)
             v == [r EXCEPT !.want[c] = 0]
  <2>1. StepIfWoken(x, c) = v
    BY <1>6 DEF StepIfWoken, Stepped, u
  <2>2. /\ r \in EndpointType /\ r.want = u.want /\ r.due = u.due /\ r.policy = u.policy
        /\ r.active = u.active /\ (r.moved \/ (r.moved = u.moved /\ r.free = u.free))
    BY <1>2, Zenon DEF LinkReleased, EndpointType
  <2> HIDE DEF r
  <2>3. /\ [r.want EXCEPT ![c] = 0] \in [Client -> 0 .. 3]
        /\ [r.want EXCEPT ![c] = 0][c] = 0
        /\ \A d \in Client \ {c} : [r.want EXCEPT ![c] = 0][d] = x.want[d]
    BY <1>1, <1>2, <2>2
  <2>4. v = [r EXCEPT !.want = [r.want EXCEPT ![c] = 0]]
    BY <2>2, Zenon DEF EndpointType
  <2>5. /\ v \in EndpointType /\ v.want[c] = 0 /\ \A d \in Client \ {c} : v.want[d] = x.want[d]
        /\ v.due = r.due /\ v.policy = r.policy /\ v.active = r.active /\ v.moved = r.moved
        /\ v.free = r.free
    BY <2>2, <2>3, <2>4, Zenon DEF EndpointType
  <2> HIDE DEF v
  <2>6. ~(v.want[c] > 0)
    BY <2>5
  <2>7. Served(v)
    BY <1>1, <1>2, <2>2, <2>5, <2>6, Zenon DEF Served, Marked
  <2> QED BY <2>1, <2>5, <2>7, Zenon DEF EndpointGood
<1>7. CASE (Marked(x, c) \/ c \in x.due) /\ x.want[c] \notin {2, 3} /\ ~(x.want[c] = 1 /\ x.free)
  <2>1. StepIfWoken(x, c) = u
    BY <1>7, Zenon DEF StepIfWoken, Stepped, u
  <2>2. x.want[c] > 0 => ~x.free
    BY <1>1, <1>7
  <2>3. Served(u)
    BY <1>1, <1>2, <2>2, Zenon DEF Served
  <2> QED BY <1>2, <2>1, <2>3, Zenon DEF EndpointGood
<1> QED BY <1>3, <1>4, <1>5, <1>6, <1>7, Zenon

\* The loop over the services is a function of the number of turns taken.
LEMMA TurnsDefined ==
    ASSUME NEW x
    PROVE  \E f : f = [n \in 0 .. ServiceCount |->
                         IF n = 0 THEN x ELSE StepIfWoken(f[n - 1], Turn(x, n))]
<1> DEFINE Upto(m, f) == f = [n \in 0 .. m |-> IF n = 0 THEN x ELSE StepIfWoken(f[n - 1], Turn(x, n))]
           Done == {m \in Nat : \E f : Upto(m, f)}
<1>1. 0 \in Done
  <2>1. Upto(0, [n \in 0 .. 0 |-> x])
    OBVIOUS
  <2> QED BY <2>1, Zenon
<1>2. ASSUME NEW m \in Done PROVE m + 1 \in Done
  <2>1. PICK f : Upto(m, f)
    BY <1>2, Zenon
  <2> DEFINE g == [n \in 0 .. (m + 1) |-> IF n = m + 1 THEN StepIfWoken(f[m], Turn(x, m + 1)) ELSE f[n]]
  <2>2. ASSUME NEW n \in 0 .. (m + 1)
        PROVE  g[n] = IF n = 0 THEN x ELSE StepIfWoken(g[n - 1], Turn(x, n))
    <3>1. CASE n = m + 1
      <4>1. n # 0 /\ n - 1 = m /\ m \in 0 .. (m + 1) /\ m # m + 1
        BY <3>1
      <4>2. g[n] = StepIfWoken(f[m], Turn(x, m + 1)) /\ g[m] = f[m]
        BY <3>1, <4>1, Zenon
      <4> HIDE DEF g
      <4> QED BY <3>1, <4>1, <4>2, Zenon
    <3>2. CASE n # m + 1
      <4>1. n \in 0 .. m /\ (n # 0 => n - 1 \in 0 .. (m + 1) /\ n - 1 # m + 1)
        BY <3>2
      <4>2. f[n] = IF n = 0 THEN x ELSE StepIfWoken(f[n - 1], Turn(x, n))
        BY <2>1, <4>1, Zenon
      <4>3. g[n] = f[n] /\ (n # 0 => g[n - 1] = f[n - 1])
        BY <3>2, <4>1, Zenon
      <4> HIDE DEF g
      <4> QED BY <4>2, <4>3, Zenon
    <3> QED BY <3>1, <3>2, Zenon
  <2>3. g = [n \in 0 .. (m + 1) |-> g[n]]
    BY Zenon
  <2> HIDE DEF g
  <2>4. Upto(m + 1, g)
    BY <2>2, <2>3, Zenon
  <2>5. m + 1 \in Nat
    BY <1>2
  <2> QED BY <2>4, <2>5, Zenon
<1> HIDE DEF Done
<1>3. \A m \in Nat : m \in Done
  BY <1>1, <1>2, SetInduction, Zenon
<1>4. ServiceCount \in Done
  BY <1>3, ClientFacts, Zenon
<1> QED BY <1>4, Zenon DEF Done

\* wl_endpoint's service loop
LEMMA StepServicesGood ==
    ASSUME NEW x, EndpointGood(x)
    PROVE  EndpointGood(StepServices(x))
<1> DEFINE F(f) == f = [n \in 0 .. ServiceCount |->
                          IF n = 0 THEN x ELSE StepIfWoken(f[n - 1], Turn(x, n))]
           f == CHOOSE f : F(f)
<1>1. StepServices(x) = IF ServiceCount = 0 THEN x
                        ELSE [f[ServiceCount] EXCEPT !.cursor = (@ + 1) % ServiceCount]
  BY Zenon DEF StepServices
<1>2. F(f)
  <2>1. \E g : F(g)
    BY TurnsDefined, Zenon
  <2> QED BY <2>1, Zenon
<1> HIDE DEF f
<1>3. ServiceCount \in Nat /\ x.cursor \in Nat
  BY ClientFacts, Zenon DEF EndpointGood, EndpointType
<1>4. ASSUME ServiceCount # 0 PROVE EndpointGood(f[ServiceCount])
  <2> DEFINE T == {n \in Nat : n <= ServiceCount => EndpointGood(f[n])}
  <2>1. 0 \in T
    <3>1. f[0] = x
      BY <1>2, <1>3
    <3> QED BY <3>1, Zenon
  <2>2. ASSUME NEW n \in Nat, n \in T PROVE n + 1 \in T
    <3> SUFFICES ASSUME n + 1 <= ServiceCount PROVE EndpointGood(f[n + 1])
      BY <2>2
    <3>1. EndpointGood(f[n])
      BY <1>3, <2>2
    <3>2. n + 1 \in 0 .. ServiceCount /\ n + 1 # 0 /\ (n + 1) - 1 = n
      BY <1>3
    <3>3. f[n + 1] = StepIfWoken(f[n], Turn(x, n + 1))
      BY <1>2, <3>2, Zenon
    <3>4. Turn(x, n + 1) \in Client
      <4>1. x.cursor + ((n + 1) - 1) \in Int
        BY <1>3
      <4>2. (x.cursor + ((n + 1) - 1)) % ServiceCount \in 0 .. ServiceCount - 1
        BY <1>3, <1>4, <4>1, DivFacts, Zenon
      <4> QED BY <4>2, ClientFacts, Zenon DEF Turn, Service
    <3> QED BY <3>1, <3>3, <3>4, StepGood, Zenon
  <2> HIDE DEF T
  <2>3. Nat \subseteq T
    BY <2>1, <2>2, SetInduction, Zenon
  <2>4. ServiceCount \in T
    BY <1>3, <2>3, Zenon
  <2> QED BY <1>3, <2>4 DEF T
<1>5. CASE ServiceCount = 0
  BY <1>1, <1>5, Zenon
<1>6. CASE ServiceCount # 0
  <2> DEFINE y == f[ServiceCount]
             z == [y EXCEPT !.cursor = (@ + 1) % ServiceCount]
  <2>1. y \in EndpointType /\ Served(y) /\ y.cursor + 1 \in Int
    BY <1>4, <1>6 DEF EndpointGood, EndpointType
  <2>2. (y.cursor + 1) % ServiceCount \in Nat
    <3> HIDE DEF y
    <3>1. (y.cursor + 1) % ServiceCount \in 0 .. ServiceCount - 1
      BY <1>3, <1>6, <2>1, DivFacts, Zenon
    <3> QED BY <1>3, <3>1
  <2> HIDE DEF y
  <2>3. /\ z \in EndpointType /\ z.want = y.want /\ z.free = y.free /\ z.moved = y.moved
        /\ z.due = y.due /\ z.policy = y.policy /\ z.active = y.active
    BY <2>1, <2>2, Zenon DEF EndpointType
  <2>4. StepServices(x) = z
    BY <1>1, <1>6, Zenon DEF y
  <2> HIDE DEF z
  <2>5. Served(z)
    BY <2>1, <2>3, Zenon DEF Served, Marked
  <2> QED BY <2>3, <2>4, <2>5, Zenon DEF EndpointGood
<1> QED BY <1>5, <1>6, Zenon

\* endpoint_step_application
LEMMA StepApplicationGood ==
    ASSUME NEW x, EndpointGood(x)
    PROVE  EndpointGood(StepApplication(x))
<1>1. EndpointGood(ObserveRelease(x))
  <2>1. CASE ~x.moved
    BY <2>1, Zenon DEF ObserveRelease
  <2>2. CASE x.moved
    <3> DEFINE y == [x EXCEPT !.moved = FALSE, !.active = Service, !.policy = TRUE]
    <3>1. y \in EndpointType /\ y.active = Service /\ y.policy
      BY Zenon DEF EndpointGood, EndpointType
    <3>2. ObserveRelease(x) = y
      BY <2>2, Zenon DEF ObserveRelease
    <3> HIDE DEF y
    <3> QED BY <3>1, <3>2, ClientFacts, Zenon DEF EndpointGood, Served, Marked
  <2> QED BY <2>1, <2>2, Zenon
<1>2. EndpointGood(StepIfWoken(ObserveRelease(x), Policy))
  BY <1>1, StepGood, ClientFacts, Zenon
<1> QED BY <1>2, StepServicesGood, Zenon DEF StepApplication

\* The other operations on the endpoint: a release, an event, local work, a deadline, a
\* newest value taking the link.
LEMMA ReleaseGood ==
    ASSUME NEW x, EndpointGood(x)
    PROVE  EndpointGood(LinkReleased(x))
<1>1. LinkReleased(x) \in EndpointType /\ LinkReleased(x).moved
  BY Zenon DEF EndpointGood, EndpointType, LinkReleased
<1> QED BY <1>1, Zenon DEF EndpointGood, Served

LEMMA WokenGood ==
    ASSUME NEW x, EndpointGood(x), NEW sid \in 1 .. SessionMax
    PROVE  EndpointGood(EndpointWoken(x, sid)) /\ EndpointWoken(x, sid).moved
<1>0. sid \in Nat
  BY EndpointAssumption
<1>1. EndpointWoken(x, sid) \in EndpointType /\ EndpointWoken(x, sid).moved
  BY <1>0, Zenon DEF EndpointGood, EndpointType, EndpointWoken
<1> QED BY <1>1, Zenon DEF EndpointGood, Served

LEMMA EventGood ==
    ASSUME NEW x, EndpointGood(x), NEW sid \in 1 .. SessionMax, NEW w \in Work
    PROVE  EndpointGood(EndpointEvent(x, sid, w))
<1>1. EndpointWoken(x, sid) \in EndpointType /\ EndpointWoken(x, sid).moved
  BY WokenGood, Zenon DEF EndpointGood
<1> DEFINE y == EndpointWoken(x, sid)
           v == [c \in Client |-> IF w[c] = 0 THEN y.want[c] ELSE w[c]]
<1>2. EndpointEvent(x, sid, w) \in EndpointType /\ EndpointEvent(x, sid, w).moved
  <2>1. EndpointEvent(x, sid, w) = [y EXCEPT !.want = v]
    BY Zenon DEF EndpointEvent
  <2>2. v \in [Client -> 0 .. 3]
    BY <1>1, Zenon DEF Work, EndpointType
  <2> HIDE DEF v, y
  <2>3. y \in EndpointType /\ y.moved
    BY <1>1, Zenon DEF y
  <2> QED BY <2>1, <2>2, <2>3, Zenon DEF EndpointType
<1> QED BY <1>2, Zenon DEF EndpointGood, Served

LEMMA ActivateGood ==
    ASSUME NEW x, EndpointGood(x)
    PROVE  /\ EndpointGood(ActivatePolicy(x))
           /\ \A i \in Service : EndpointGood(ActivateService(x, i))
<1>0. x \in EndpointType /\ Served(x)
  BY Zenon DEF EndpointGood
<1>1. EndpointGood(ActivatePolicy(x))
  <2> DEFINE y == ActivatePolicy(x)
  <2>1. /\ y \in EndpointType /\ y.policy /\ y.free = x.free /\ y.moved = x.moved /\ y.due = x.due
        /\ y.active = x.active /\ \A d \in Client \ {Policy} : y.want[d] = x.want[d]
    <3> DEFINE w == [x.want EXCEPT ![Policy] = 2]
    <3>1. w \in [Client -> 0 .. 3] /\ \A d \in Client \ {Policy} : w[d] = x.want[d]
      BY <1>0, ClientFacts DEF EndpointType
    <3>2. y = [x EXCEPT !.policy = TRUE, !.want = w]
      BY <1>0, Zenon DEF ActivatePolicy, EndpointType
    <3> HIDE DEF w, y
    <3> QED BY <1>0, <3>1, <3>2, Zenon DEF EndpointType
  <2> HIDE DEF y
  <2>2. Served(y)
    BY <1>0, <2>1, Zenon DEF Served, Marked
  <2> QED BY <2>1, <2>2, Zenon DEF EndpointGood, y
<1>2. ASSUME NEW i \in Service PROVE EndpointGood(ActivateService(x, i))
  <2> DEFINE y == ActivateService(x, i)
  <2>0. i \in Client /\ i # Policy
    BY <1>2, ClientFacts, Zenon
  <2>1. /\ y \in EndpointType /\ y.policy = x.policy /\ y.free = x.free /\ y.moved = x.moved
        /\ y.due = x.due /\ y.active = x.active \cup {i}
        /\ \A d \in Client \ {i} : y.want[d] = x.want[d]
    <3> DEFINE w == [x.want EXCEPT ![i] = 2]
    <3>1. w \in [Client -> 0 .. 3] /\ \A d \in Client \ {i} : w[d] = x.want[d]
      BY <1>0, <2>0 DEF EndpointType
    <3>2. y = [x EXCEPT !.active = x.active \cup {i}, !.want = w]
      BY <1>0, Zenon DEF ActivateService, EndpointType
    <3>3. x.active \cup {i} \in SUBSET Service
      BY <1>0, <1>2, Zenon DEF EndpointType
    <3> HIDE DEF w, y
    <3> QED BY <1>0, <3>1, <3>2, <3>3, Zenon DEF EndpointType
  <2> HIDE DEF y
  <2>2. Served(y)
    BY <1>0, <2>0, <2>1, Zenon DEF Served, Marked
  <2> QED BY <2>1, <2>2, Zenon DEF EndpointGood, y
<1> QED BY <1>1, <1>2, Zenon

LEMMA TakenGood ==
    ASSUME NEW x, EndpointGood(x)
    PROVE  /\ EndpointGood([x EXCEPT !.free = FALSE])
           /\ \A c \in Client : EndpointGood([x EXCEPT !.due = @ \cup {c}])
<1>0. x \in EndpointType /\ Served(x)
  BY Zenon DEF EndpointGood
<1>1. EndpointGood([x EXCEPT !.free = FALSE])
  <2>1. [x EXCEPT !.free = FALSE] \in EndpointType /\ ~[x EXCEPT !.free = FALSE].free
    BY <1>0, Zenon DEF EndpointType
  <2> QED BY <2>1, Zenon DEF EndpointGood, Served
<1>2. ASSUME NEW c \in Client PROVE EndpointGood([x EXCEPT !.due = @ \cup {c}])
  <2> DEFINE y == [x EXCEPT !.due = @ \cup {c}]
  <2>1. /\ y \in EndpointType /\ y.policy = x.policy /\ y.free = x.free /\ y.moved = x.moved
        /\ y.due = x.due \cup {c} /\ y.active = x.active /\ y.want = x.want
    BY <1>0, <1>2, Zenon DEF EndpointType
  <2> HIDE DEF y
  <2>2. Served(y)
    BY <1>0, <2>1, Zenon DEF Served, Marked
  <2> QED BY <2>1, <2>2, Zenon DEF EndpointGood, y
<1> QED BY <1>1, <1>2, Zenon

-----------------------------------------------------------------------------
(* The threads, the event and the endpoint *)

\* A thread moves; the others stay.
LEMMA GotoFacts ==
    ASSUME PcInv, NEW a \in Actor, NEW to \in Pcs, Goto(a, to)
    PROVE  /\ pc' \in [Actor -> Pcs] /\ pc'[a] = to
           /\ \A b \in Actor : b # a => pc'[b] = pc[b]
BY Zenon DEF PcInv, Goto

LEMMA ActorFacts == Thread \subseteq Actor /\ Adapter \in Actor /\ Adapter \notin Thread
BY ExecutorAssumption, Zenon DEF Actor

\* What each step does to the threads' places.
LEMMA PcNext ==
    ASSUME PcInv, [ExecNext]_vars
    PROVE  PcInv'
<1>1. CASE pc' = pc
  BY <1>1, Zenon DEF PcInv
<1>2. ASSUME NEW a \in Actor, Notify(a) PROVE PcInv'
  <2>1. \E to \in {"idle", "mark", "release"} : Goto(a, to)
    BY <1>2, Zenon DEF Notify, NotifyGeneration, NotifyMark, NotifyRelease
  <2> QED BY <2>1, GotoFacts, ActorFacts, Zenon DEF PcInv, Pcs
<1>3. ASSUME NEW t \in Thread, Continue(t) \/ Begin(t) PROVE PcInv'
  <2>1. \E to \in Pcs : Goto(t, to)
    BY <1>3, Zenon DEF Continue, Begin, RequestStopStores, FeedBytes, FeedWithdraw, RequestStop, SubmitRpc,
       SubmitLatest, FeedAnnounce, CancelRpc, Begins, Pcs
  <2> QED BY <2>1, GotoFacts, ActorFacts, Zenon DEF PcInv
<1>4. CASE TransmitDone
  BY <1>4, GotoFacts, ActorFacts, Zenon DEF PcInv, Pcs, TransmitDone
<1>5. CASE Owner
  <2>1. pc' = pc
    BY <1>5, Zenon DEF Owner, Asleep, Others, OwnerTop, OwnerClear, OwnerObserve, OwnerCollect, OwnerDispatch,
       OwnerService, OwnerPump, OwnerStepFails, OwnerLatest, OwnerSent, OwnerQuery, OwnerCommands,
       OwnerGeneration, OwnerWake, OwnerWaited, OwnerClose, OwnerCancelQueued, OwnerDrain, OwnerReset
  <2> QED BY <1>1, <2>1, Zenon
<1>6. CASE Start \/ StopReady \/ (\E t \in Thread : CallDue(t)) \/ (\E c \in Client : ClientDue(c))
           \/ UNCHANGED vars
  <2>1. pc' = pc
    BY <1>6, Zenon DEF Start, StopReady, CallDue, ClientDue, vars
  <2> QED BY <1>1, <2>1, Zenon
<1> QED BY <1>2, <1>3, <1>4, <1>5, <1>6, Zenon DEF ExecNext, Running, Uses

\* The mark and the permit
LEMMA TokenNext ==
    ASSUME PcInv, TokenInv, LifeInv, [ExecNext]_vars
    PROVE  TokenInv'
<1>1. ASSUME NEW a \in Actor, Notify(a) PROVE TokenInv'
  <2>1. CASE NotifyGeneration(a)
    BY <1>1, <2>1, GotoFacts, Zenon DEF NotifyGeneration, TokenInv, Pcs
  <2>2. CASE NotifyMark(a)
    <3>1. CASE pending
      <4>1. Goto(a, "idle") /\ permit' = permit /\ opc' = opc /\ pc[a] = "mark"
        BY <2>2, <3>1, Zenon DEF NotifyMark
      <4> QED BY <1>1, <3>1, <4>1, GotoFacts, Zenon DEF TokenInv, Pcs
    <3>2. CASE ~pending
      <4>1. Goto(a, "release")
        BY <2>2, <3>2, Zenon DEF NotifyMark
      <4> QED BY <1>1, <4>1, GotoFacts, Zenon DEF TokenInv, Pcs
    <3> QED BY <3>1, <3>2, Zenon
  <2>3. CASE NotifyRelease(a)
    BY <2>3, Zenon DEF NotifyRelease, TokenInv
  <2> QED BY <1>1, <2>1, <2>2, <2>3, Zenon DEF Notify
<1>2. ASSUME NEW a \in Actor, NEW to \in Pcs, Goto(a, to), pc[a] # "release",
             UNCHANGED <<pending, permit, opc>>
      PROVE  TokenInv'
  BY <1>2, GotoFacts, Zenon DEF TokenInv
<1>3. ASSUME NEW t \in Thread, Continue(t) \/ Begin(t) PROVE TokenInv'
  <2>1. (\E to \in Pcs : Goto(t, to)) /\ pc[t] # "release" /\ UNCHANGED <<pending, permit, opc>>
    BY <1>3, Zenon DEF Continue, Begin, RequestStopStores, FeedBytes, FeedWithdraw, RequestStop, SubmitRpc,
       SubmitLatest, FeedAnnounce, CancelRpc, Begins, Pcs, wake
  <2> QED BY <1>2, <2>1, ActorFacts, Zenon
<1>4. CASE TransmitDone
  BY <1>2, <1>4, ActorFacts, Zenon DEF TransmitDone, wake, Pcs
<1>5. CASE OwnerTop \/ OwnerClear \/ OwnerWake \/ OwnerWaited
  BY <1>5, Zenon DEF OwnerTop, OwnerClear, OwnerWake, OwnerWaited, Asleep, Others, TokenInv
<1>6. CASE OwnerStepFails \/ Start
  <2>1. pc' = pc /\ opc \in {"poll", "off"}
    BY <1>6, Zenon DEF OwnerStepFails, Start, Asleep, Others, LifeInv
  <2>2. permit' = (permit \/ ~pending)
    BY <1>6, Zenon DEF OwnerStepFails, Start, OwnerNotified
  <2>3. permit \/ ~pending => permit'
    BY <2>2, Zenon
  <2> QED BY <2>1, <2>3, Zenon DEF TokenInv
<1>7. CASE OwnerDispatch
  <2>1. pc' = pc /\ opc = "dispatch"
    BY <1>7, Zenon DEF OwnerDispatch, Others
  <2>2. UNCHANGED wake \/ OwnerNotified
    BY <1>7, Zenon DEF OwnerDispatch
  <2>3. UNCHANGED <<pending, permit>> \/ (permit \/ ~pending => permit')
    BY <2>2, Zenon DEF wake, OwnerNotified
  <2> QED BY <2>1, <2>3, Zenon DEF TokenInv
<1>8. CASE UNCHANGED <<pc, pending, permit>> /\ opc \notin {"clear", "waited"}
  BY <1>8, Zenon DEF TokenInv
<1>9. CASE UNCHANGED <<pc, pending, permit, opc>>
  BY <1>9, Zenon DEF TokenInv
<1>10. CASE OwnerObserve \/ OwnerCollect \/ OwnerService \/ OwnerPump \/ OwnerLatest \/ OwnerSent
            \/ OwnerQuery \/ OwnerCommands \/ OwnerGeneration \/ OwnerClose \/ OwnerCancelQueued
            \/ OwnerDrain \/ OwnerReset
  <2>1. UNCHANGED <<pc, pending, permit>> /\ opc \notin {"clear", "waited"}
    BY <1>10, Zenon DEF OwnerObserve, OwnerCollect, OwnerService, OwnerPump, OwnerLatest, OwnerSent,
       OwnerQuery, OwnerCommands, OwnerGeneration, OwnerClose, OwnerCancelQueued, OwnerDrain, OwnerReset,
       Drained, Asleep, Others, wake
  <2> QED BY <1>8, <2>1, Zenon
<1>11. CASE StopReady \/ (\E t \in Thread : CallDue(t)) \/ (\E c \in Client : ClientDue(c)) \/ UNCHANGED vars
  <2>1. UNCHANGED <<pc, pending, permit, opc>>
    BY <1>11, Zenon DEF StopReady, CallDue, ClientDue, vars, wake
  <2> QED BY <1>9, <2>1, Zenon
<1> QED BY <1>1, <1>3, <1>4, <1>5, <1>6, <1>7, <1>10, <1>11, Zenon DEF ExecNext, Running, Uses, Owner

\* The endpoint through a step of the executor
LEMMA EndpointNext ==
    ASSUME EndpointGood(e), [ExecNext]_vars
    PROVE  EndpointGood(e')
<1>1. CASE e' = e
  BY <1>1, Zenon
<1>2. CASE OwnerDispatch
  <2>1. e' = e \/ e' \in {ActivatePolicy(e)} \cup {ActivateService(e, i) : i \in Service}
    BY <1>2, Zenon DEF OwnerDispatch
  <2> QED BY <2>1, ActivateGood, Zenon
<1>3. CASE OwnerService
  BY <1>3, ReleaseGood, Zenon DEF OwnerService
<1>4. CASE OwnerPump
  <2>1. PICK p \in Polled : e' = IF EndpointRunnable(p[2]) \/ Overdue # {} THEN StepApplication(p[2]) ELSE p[2]
    BY <1>4, Zenon DEF OwnerPump
  <2>2. EndpointGood(p[2])
    <3>1. CASE p[2] = e
      BY <3>1, Zenon
    <3>2. CASE \E sid \in 1 .. SessionMax : p[2] = EndpointWoken(e, sid)
      BY <3>2, WokenGood, Zenon
    <3>3. CASE \E sid \in 1 .. SessionMax, w \in Work : p[2] = EndpointEvent(e, sid, w)
      BY <3>3, EventGood, Zenon
    <3>4. 1 \in 1 .. SessionMax
      BY EndpointAssumption
    <3>5. CASE p \in Answered
      BY <3>2, <3>4, <3>5 DEF Answered
    <3>6. CASE p \in Ignored
      BY <3>2, <3>6 DEF Ignored
    <3>7. CASE p \in Asked
      BY <3>3, <3>7 DEF Asked, Tasks
    <3> QED BY <2>1, <3>1, <3>5, <3>6, <3>7 DEF Polled
  <2> QED BY <2>1, <2>2, StepApplicationGood, Zenon
<1>5. CASE OwnerSent
  BY <1>5, TakenGood, Zenon DEF OwnerSent
<1>6. CASE \E c \in Client : ClientDue(c)
  <2>1. PICK c \in Client : e' = [e EXCEPT !.due = @ \cup {c}]
    BY <1>6, Zenon DEF ClientDue
  <2> QED BY <2>1, TakenGood, Zenon
<1>7. CASE OwnerTop \/ OwnerClear \/ OwnerObserve \/ OwnerCollect \/ OwnerStepFails \/ OwnerLatest
           \/ OwnerQuery \/ OwnerCommands \/ OwnerGeneration \/ OwnerWake \/ OwnerWaited \/ OwnerClose
           \/ OwnerCancelQueued \/ OwnerDrain \/ OwnerReset
  BY <1>1, <1>7, Zenon DEF OwnerTop, OwnerClear, OwnerObserve, OwnerCollect, OwnerStepFails, OwnerLatest,
     OwnerQuery, OwnerCommands, OwnerGeneration, OwnerWake, OwnerWaited, OwnerClose, OwnerCancelQueued,
     OwnerDrain, OwnerReset, link
<1>8. CASE TransmitDone \/ Start \/ StopReady \/ (\E a \in Actor : Notify(a))
           \/ (\E t \in Thread : Continue(t) \/ CallDue(t) \/ Begin(t)) \/ UNCHANGED vars
  BY <1>1, <1>8, Zenon DEF TransmitDone, Start, StopReady, Notify, NotifyGeneration, NotifyMark, NotifyRelease,
     Continue, RequestStopStores, FeedBytes, FeedWithdraw, CallDue, Begin, RequestStop, SubmitRpc,
     SubmitLatest, FeedAnnounce, CancelRpc, vars, link
<1> QED BY <1>2, <1>3, <1>4, <1>5, <1>6, <1>7, <1>8, Zenon DEF ExecNext, Running, Uses, Owner

-----------------------------------------------------------------------------
(* Work and sleep *)

LEMMA CountNext ==
    ASSUME CountInv, [ExecNext]_vars
    PROVE  CountInv'
<1>1. CASE UNCHANGED <<rx, cmds, cmdPending>> /\ opc' # "sent"
  BY <1>1, Zenon DEF CountInv
<1>2. CASE UNCHANGED <<rx, cmds, cmdPending, opc>>
  BY <1>2, Zenon DEF CountInv
<1>3. ASSUME NEW t \in Thread, SubmitLatest(t) PROVE CountInv'
  BY <1>3 DEF SubmitLatest, CountInv, link
<1>4. ASSUME NEW t \in Thread, FeedBytes(t) PROVE CountInv'
  BY <1>4 DEF FeedBytes, CountInv, outbox
<1>5. CASE OwnerPump
  BY <1>5 DEF OwnerPump, CountInv, outbox
<1>6. CASE OwnerLatest
  BY <1>6 DEF OwnerLatest, CountInv, link
<1>7. CASE OwnerSent
  <2>1. rx' = rx /\ cmdPending' = (cmds' # 0) /\ opc' # "sent" /\ opc = "sent"
    BY <1>7, Zenon DEF OwnerSent
  <2>2. cmds' \in {cmds, cmds - 1}
    BY <1>7, Zenon DEF OwnerSent
  <2>3. cmds' # 0 => cmdPending'
    BY <2>1, Zenon
  <2> QED BY <2>1, <2>2, <2>3 DEF CountInv
<1>8. CASE OwnerReset
  BY <1>8, Zenon DEF OwnerReset, CountInv, link
<1>9. CASE OwnerTop \/ OwnerClear \/ OwnerObserve \/ OwnerCollect \/ OwnerDispatch \/ OwnerService
           \/ OwnerStepFails \/ OwnerQuery \/ OwnerCommands \/ OwnerGeneration \/ OwnerWake \/ OwnerWaited
           \/ OwnerClose \/ OwnerCancelQueued \/ OwnerDrain \/ Start
  BY <1>1, <1>9, Zenon DEF OwnerTop, OwnerClear, OwnerObserve, OwnerCollect, OwnerDispatch, OwnerService,
     OwnerStepFails, OwnerQuery, OwnerCommands, OwnerGeneration, OwnerWake, OwnerWaited, OwnerClose,
     OwnerCancelQueued, OwnerDrain, Start, outbox, link
<1>10. CASE TransmitDone \/ StopReady \/ (\E a \in Actor : Notify(a)) \/ (\E c \in Client : ClientDue(c))
            \/ (\E t \in Thread : RequestStopStores(t) \/ FeedWithdraw(t) \/ CallDue(t) \/ RequestStop(t)
                                  \/ SubmitRpc(t) \/ FeedAnnounce(t) \/ \E u \in Thread : CancelRpc(t, u))
            \/ UNCHANGED vars
  BY <1>2, <1>10, Zenon DEF TransmitDone, StopReady, Notify, NotifyGeneration, NotifyMark, NotifyRelease,
     ClientDue, RequestStopStores, FeedWithdraw, CallDue, RequestStop, SubmitRpc, FeedAnnounce, CancelRpc,
     vars, outbox, link
<1> QED BY <1>3, <1>4, <1>5, <1>6, <1>7, <1>8, <1>9, <1>10, Zenon DEF ExecNext, Running, Uses, Owner, Continue, Begin

\* A thread on its way to notify answers for whatever it leaves behind.
LEMMA NotifierWakes ==
    ASSUME PcInv, WakeInv, NEW a \in Actor, Goto(a, "notify"), UNCHANGED <<opc, e>>
    PROVE  WakeInv'
<1>1. pc'[a] = "notify"
  BY GotoFacts, Zenon DEF Pcs
<1>2. Ahead' /\ Woken'
  BY <1>1, Zenon DEF Ahead, Woken
<1> QED BY <1>2, Zenon DEF WakeInv

\* A thread that is not notifying and leaves no work behind.
LEMMA BystanderWakes ==
    ASSUME PcInv, WakeInv, NEW a \in Actor, NEW to \in Pcs, Goto(a, to),
           pc[a] \notin {"notify", "mark", "withdraw"},
           UNCHANGED <<opc, e, wakeMoved, pending, rpcPending, txDone, stop, cmds>>,
           rx' = rx \/ (a \in Thread /\ to = "withdraw")
    PROVE  WakeInv'
<1>1. /\ \A b \in Actor : pc[b] \in {"notify", "mark", "withdraw"} => pc'[b] = pc[b]
      /\ pc'[a] = to
  BY GotoFacts, Zenon
<1>2. Ahead => Ahead'
  BY <1>1, Zenon DEF Ahead
<1>3. Woken => Woken'
  BY <1>1, Zenon DEF Woken
<1>4. Feeding => Feeding'
  BY <1>1, ActorFacts, Zenon DEF Feeding
<1>5. rx' = rx \/ Feeding'
  BY <1>1, Zenon DEF Feeding
<1> QED BY <1>2, <1>3, <1>4, <1>5, Zenon DEF WakeInv

\* A step of the owner, where the work it must not miss is unchanged or looked at.
LEMMA OwnerWakes ==
    ASSUME pc' = pc, WakeInv,
           opc' \notin {"dispatch", "service", "poll", "latest", "sent", "query", "commands",
                        "generation", "wait"}
    PROVE  WakeInv'
BY Zenon DEF WakeInv

LEMMA WakeNext ==
    ASSUME PcInv, CountInv, EndpointGood(e), WakeInv, [ExecNext]_vars
    PROVE  WakeInv'
<1>1. ASSUME NEW a \in Actor, NotifyGeneration(a) PROVE WakeInv'
  <2>1. Goto(a, "mark") /\ wakeMoved' /\ UNCHANGED <<opc, e>>
    BY <1>1, Zenon DEF NotifyGeneration, link
  <2>2. pc'[a] = "mark"
    BY <2>1, GotoFacts, Zenon DEF Pcs
  <2>3. Ahead' /\ Woken'
    BY <2>1, <2>2, Zenon DEF Ahead, Woken
  <2> QED BY <2>1, <2>3, Zenon DEF WakeInv
<1>2. ASSUME NEW a \in Actor, NotifyMark(a) PROVE WakeInv'
  <2>1. /\ pc[a] = "mark" /\ pending' /\ (\E to \in Pcs : Goto(a, to))
        /\ UNCHANGED <<opc, wakeMoved, rpcPending, rx, txDone, e, cmds>>
    BY <1>2, Zenon DEF NotifyMark, rpc, link, outbox, Pcs
  <2>2. \A b \in Actor : pc[b] \in {"notify", "withdraw"} => pc'[b] = pc[b]
    BY <2>1, GotoFacts, Zenon
  <2>3. (Ahead => Ahead') /\ Woken' /\ (Feeding => Feeding')
    BY <2>1, <2>2, ActorFacts, Zenon DEF Ahead, Woken, Feeding
  <2> QED BY <2>1, <2>3, Zenon DEF WakeInv
<1>3. ASSUME NEW a \in Actor, NotifyRelease(a) PROVE WakeInv'
  BY <1>3, BystanderWakes, Zenon DEF NotifyRelease, Pcs, gate, rpc, link, outbox
<1>4. ASSUME NEW t \in Thread,
             RequestStopStores(t) \/ FeedWithdraw(t) \/ SubmitRpc(t) \/ SubmitLatest(t)
             \/ \E u \in Thread : CancelRpc(t, u)
      PROVE  WakeInv'
  <2>1. Goto(t, "notify") /\ UNCHANGED <<opc, e>> /\ t \in Actor
    BY <1>4, ActorFacts, Zenon DEF RequestStopStores, FeedWithdraw, SubmitRpc, SubmitLatest, CancelRpc, Begins, link
  <2> QED BY <2>1, NotifierWakes, Zenon
<1>5. CASE TransmitDone
  BY <1>5, ActorFacts, NotifierWakes, Zenon DEF TransmitDone
<1>6. ASSUME NEW t \in Thread, FeedBytes(t) \/ RequestStop(t) \/ FeedAnnounce(t) PROVE WakeInv'
  <2>1. /\ pc[t] \notin {"notify", "mark", "withdraw"} /\ t \in Actor
        /\ UNCHANGED <<opc, e, wakeMoved, pending, rpcPending, txDone, stop, cmds>>
    BY <1>6, ActorFacts, Zenon DEF FeedBytes, RequestStop, FeedAnnounce, Begins, wake, gate, rpc, link, outbox
  <2>2. \E to \in Pcs : Goto(t, to) /\ (rx' = rx \/ to = "withdraw")
    BY <1>6, Zenon DEF FeedBytes, RequestStop, FeedAnnounce, Begins, link, Pcs
  <2> QED BY <1>6, <2>1, <2>2, BystanderWakes, Zenon
<1>7. CASE OwnerTop \/ OwnerClear \/ OwnerObserve \/ OwnerStepFails \/ OwnerWake \/ OwnerWaited \/ OwnerClose
           \/ OwnerCancelQueued \/ OwnerDrain \/ OwnerReset
  <2>1. pc' = pc /\ opc' \notin {"dispatch", "service", "poll", "latest", "sent", "query", "commands",
                                 "generation", "wait"}
    BY <1>7, Zenon DEF OwnerTop, OwnerClear, OwnerObserve, OwnerStepFails, OwnerWake, OwnerWaited, OwnerClose,
       OwnerCancelQueued, OwnerDrain, OwnerReset, Asleep, Others
  <2> QED BY <2>1, OwnerWakes, Zenon
<1>8. CASE OwnerCollect
  BY <1>8, Zenon DEF OwnerCollect, WakeInv
<1>9. CASE OwnerDispatch
  <2>1. pc' = pc /\ rpcPending' = rpcPending /\ opc = "dispatch" /\ opc' \in {"dispatch", "service"}
    BY <1>9, Zenon DEF OwnerDispatch, Others, rpc
  <2>2. UNCHANGED wake \/ OwnerNotified
    BY <1>9, Zenon DEF OwnerDispatch
  <2>3. wakeMoved => wakeMoved'
    BY <2>2, Zenon DEF wake, OwnerNotified
  <2> QED BY <2>1, <2>3, Zenon DEF WakeInv, Ahead
<1>10. CASE OwnerService \/ OwnerPump \/ OwnerLatest \/ OwnerSent
  <2>1. /\ pc' = pc /\ rpcPending' = rpcPending /\ wakeMoved' = wakeMoved
        /\ opc \in {"service", "poll", "latest", "sent"}
        /\ opc' \in {"poll", "latest", "sent", "query", "close"}
    BY <1>10, Zenon DEF OwnerService, OwnerPump, OwnerLatest, OwnerSent, Asleep, Others, rpc, wake
  <2> QED BY <2>1, Zenon DEF WakeInv, Ahead
<1>11. CASE OwnerQuery
  <2>1. /\ UNCHANGED <<pc, rpcPending, wakeMoved, rx, txDone, e>> /\ opc = "query"
        /\ opc' = "top" \/ (opc' = "commands" /\ ~Runnable)
    BY <1>11, Zenon DEF OwnerQuery, Asleep, Others, rpc, wake, link
  <2> QED BY <2>1, Zenon DEF WakeInv, Ahead, Runnable, EndpointRunnable
<1>12. CASE OwnerCommands
  <2>1. /\ UNCHANGED <<pc, rpcPending, wakeMoved, rx, txDone, e, cmds>> /\ opc = "commands"
        /\ opc' = "top" \/ (opc' = "generation" /\ ~(cmdPending /\ e.free))
    BY <1>12, Zenon DEF OwnerCommands, Asleep, Others, rpc, wake, link, outbox
  <2>2. cmds > 0 => cmdPending
    BY DEF CountInv
  <2> QED BY <2>1, <2>2, Zenon DEF WakeInv, Ahead, Feeding
<1>13. CASE OwnerGeneration
  <2>1. /\ UNCHANGED <<pc, rpcPending, wakeMoved, pending, rx, txDone, e, cmds, stop>> /\ opc = "generation"
        /\ opc' = "top" \/ (opc' = "wait" /\ ~stop /\ ~wakeMoved)
    BY <1>13, Zenon DEF OwnerGeneration, MaySleep, Asleep, Others, rpc, wake, gate, link, outbox
  <2>2. Ahead /\ ~wakeMoved => Woken
    BY Zenon DEF Ahead, Woken
  <2> QED BY <2>1, <2>2, Zenon DEF WakeInv, Woken, Feeding
<1>14. CASE Start
  BY <1>14, Zenon DEF Start, WakeInv
<1>15. ASSUME NEW c \in Client, ClientDue(c) PROVE WakeInv'
  <2>1. /\ UNCHANGED <<pc, opc, rpcPending, wakeMoved, pending, rx, txDone, cmds, stop>>
        /\ e' = [e EXCEPT !.due = @ \cup {c}]
    BY <1>15, Zenon DEF ClientDue, wake, gate, rpc, outbox
  <2>2. e'.policy = e.policy /\ e'.active = e.active /\ e'.moved = e.moved /\ e'.free = e.free
    BY <1>15, <2>1, Zenon DEF EndpointGood, EndpointType
  <2> QED BY <2>1, <2>2, Zenon DEF WakeInv, Ahead, Woken, Feeding
<1>16. CASE StopReady \/ (\E t \in Thread : CallDue(t)) \/ UNCHANGED vars
  <2>1. UNCHANGED <<pc, opc, rpcPending, wakeMoved, pending, rx, txDone, cmds, stop, e>>
    BY <1>16, Zenon DEF StopReady, CallDue, vars, wake, gate, rpc, outbox, link
  <2> QED BY <2>1, Zenon DEF WakeInv, Ahead, Woken, Feeding
<1> QED BY <1>1, <1>2, <1>3, <1>4, <1>5, <1>6, <1>7, <1>8, <1>9, <1>10, <1>11, <1>12, <1>13, <1>14, <1>15,
        <1>16, Zenon DEF ExecNext, Running, Uses, Owner, Notify, Continue, Begin

-----------------------------------------------------------------------------
(* The life of the executor, and the feeds inside the link *)

LEMMA LifeNext ==
    ASSUME LifeInv, [ExecNext]_vars
    PROVE  LifeInv'
<1>1. ASSUME NEW t \in Thread, RequestStop(t) \/ RequestStopStores(t) PROVE LifeInv'
  BY <1>1 DEF RequestStop, RequestStopStores, Begins, LifeInv
<1>2. CASE Start \/ StopReady
  BY <1>2, Zenon DEF Start, StopReady, LifeInv
<1>3. CASE OwnerStepFails \/ OwnerClose \/ OwnerReset
  BY <1>3 DEF OwnerStepFails, OwnerClose, OwnerReset, LifeInv
<1>4. CASE UNCHANGED <<life, accepting, opc>>
  BY <1>4, Zenon DEF LifeInv
<1>5. CASE OwnerCancelQueued \/ OwnerDrain
  BY <1>5 DEF OwnerCancelQueued, OwnerDrain, Drained, LifeInv, gate
<1>6. CASE OwnerTop \/ OwnerClear \/ OwnerObserve \/ OwnerCollect \/ OwnerDispatch \/ OwnerService \/ OwnerPump
           \/ OwnerLatest \/ OwnerSent \/ OwnerQuery \/ OwnerCommands \/ OwnerGeneration \/ OwnerWake
           \/ OwnerWaited
  <2>1. /\ UNCHANGED <<life, accepting>>
        /\ opc \notin {"off", "stopped"} /\ opc' \notin {"off", "cancel", "drain", "reset", "stopped"}
    BY <1>6, Zenon DEF OwnerTop, OwnerClear, OwnerObserve, OwnerCollect, OwnerDispatch, OwnerService, OwnerPump,
       OwnerLatest, OwnerSent, OwnerQuery, OwnerCommands, OwnerGeneration, OwnerWake, OwnerWaited, gate
  <2> QED BY <2>1, Zenon DEF LifeInv
<1>7. CASE TransmitDone \/ (\E a \in Actor : Notify(a)) \/ (\E c \in Client : ClientDue(c)) \/ UNCHANGED vars
           \/ \E t \in Thread : FeedBytes(t) \/ FeedWithdraw(t) \/ CallDue(t) \/ SubmitRpc(t)
                \/ SubmitLatest(t) \/ FeedAnnounce(t) \/ \E u \in Thread : CancelRpc(t, u)
  BY <1>4, <1>7, Zenon DEF TransmitDone, Notify, NotifyGeneration, NotifyMark, NotifyRelease, ClientDue, vars,
     FeedBytes, FeedWithdraw, CallDue, SubmitRpc, SubmitLatest, FeedAnnounce, CancelRpc, gate
<1> QED BY <1>1, <1>2, <1>3, <1>5, <1>6, <1>7, Zenon DEF ExecNext, Running, Uses, Owner, Continue, Begin

\* A thread enters or leaves feedBytes.
LEMMA FeederFacts ==
    ASSUME PcInv, NEW t \in Thread, NEW to \in Pcs, Goto(t, to)
    PROVE  /\ IsFiniteSet(Feeders) /\ Cardinality(Feeders) \in Nat
           /\ Cardinality(Feeders) = 0 => Feeders = {}
           /\ Feeders' = IF to \in {"recheck", "withdraw"} THEN Feeders \cup {t} ELSE Feeders \ {t}
           /\ Cardinality(Feeders') =
                IF to \in {"recheck", "withdraw"}
                THEN IF t \in Feeders THEN Cardinality(Feeders) ELSE Cardinality(Feeders) + 1
                ELSE IF t \in Feeders THEN Cardinality(Feeders) - 1 ELSE Cardinality(Feeders)
<1>1. IsFiniteSet(Feeders)
  BY ExecutorAssumption, FS_Subset, Zenon DEF Feeders
<1>2. Cardinality(Feeders) \in Nat /\ (Cardinality(Feeders) = 0 => Feeders = {})
  BY <1>1, FS_CardinalityType, FS_EmptySet, Zenon
<1>3. pc'[t] = to /\ \A u \in Thread : u # t => pc'[u] = pc[u]
  BY GotoFacts, ActorFacts, Zenon
<1>4. Feeders' = IF to \in {"recheck", "withdraw"} THEN Feeders \cup {t} ELSE Feeders \ {t}
  BY <1>3, Zenon DEF Feeders
<1>5. /\ Cardinality(Feeders \cup {t}) = IF t \in Feeders THEN Cardinality(Feeders) ELSE Cardinality(Feeders) + 1
      /\ Cardinality(Feeders \ {t}) = IF t \in Feeders THEN Cardinality(Feeders) - 1 ELSE Cardinality(Feeders)
  BY <1>1, FS_AddElement, FS_RemoveElement, Zenon
<1> QED BY <1>1, <1>2, <1>4, <1>5, Zenon

LEMMA FeedNext ==
    ASSUME PcInv, LifeInv, FeedInv, [ExecNext]_vars
    PROVE  FeedInv'
<1>1. ASSUME NEW t \in Thread, NEW to \in Pcs, Goto(t, to), UNCHANGED <<producers, opc, cmds>>,
             pc[t] \in {"recheck", "withdraw"} <=> to \in {"recheck", "withdraw"}
      PROVE  FeedInv'
  <2>1. t \in Feeders <=> to \in {"recheck", "withdraw"}
    BY <1>1, Zenon DEF Feeders
  <2>2. Feeders' = Feeders
    BY <1>1, <2>1, FeederFacts, Zenon
  <2> QED BY <1>1, <2>2, Zenon DEF FeedInv
<1>2. CASE Feeders' = Feeders /\ UNCHANGED <<producers, cmds>> /\ opc' \notin {"reset", "stopped"}
  BY <1>2, Zenon DEF FeedInv
<1>3. CASE Feeders' = Feeders /\ UNCHANGED <<producers, cmds, opc>>
  BY <1>3, Zenon DEF FeedInv
<1>4. ASSUME NEW t \in Thread, RequestStop(t) \/ RequestStopStores(t) \/ SubmitRpc(t)
                               \/ \E u \in Thread : CancelRpc(t, u)
      PROVE  FeedInv'
  <2>1. /\ pc[t] \in {"idle", "stopping"} /\ (Goto(t, "stopping") \/ Goto(t, "notify"))
        /\ UNCHANGED <<producers, opc, cmds>>
    BY <1>4, Zenon DEF RequestStop, RequestStopStores, SubmitRpc, CancelRpc, Begins, outbox
  <2> QED BY <1>1, <2>1, Zenon DEF Pcs
<1>5. ASSUME NEW t \in Thread, SubmitLatest(t) PROVE FeedInv'
  <2>1. Goto(t, "notify") /\ pc[t] = "idle" /\ accepting /\ UNCHANGED <<producers, opc>>
    BY <1>5, Zenon DEF SubmitLatest, Begins
  <2>2. Feeders' = Feeders
    BY <2>1, FeederFacts, Zenon DEF Feeders, Pcs
  <2> QED BY <2>1, <2>2, Zenon DEF FeedInv, LifeInv
<1>6. ASSUME NEW t \in Thread, FeedAnnounce(t) PROVE FeedInv'
  <2>1. /\ Goto(t, "recheck") /\ pc[t] = "idle" /\ accepting /\ producers' = producers + 1
        /\ UNCHANGED <<opc, cmds>>
    BY <1>6, Zenon DEF FeedAnnounce, Begins, outbox
  <2>2. t \notin Feeders
    BY <2>1, Zenon DEF Feeders
  <2>3. Cardinality(Feeders') = Cardinality(Feeders) + 1
    BY <2>1, <2>2, FeederFacts, Zenon DEF Pcs
  <2> QED BY <2>1, <2>3, Zenon DEF FeedInv, LifeInv
<1>7. ASSUME NEW t \in Thread, FeedBytes(t) \/ FeedWithdraw(t) PROVE FeedInv'
  <2>1. pc[t] \in {"recheck", "withdraw"} /\ t \in Feeders /\ UNCHANGED <<opc, cmds>>
    BY <1>7, Zenon DEF FeedBytes, FeedWithdraw, Feeders, outbox
  <2>2. CASE Goto(t, "withdraw") /\ producers' = producers
    BY <1>1, <2>1, <2>2, Zenon DEF Pcs
  <2>3. ASSUME NEW to \in {"idle", "notify"}, Goto(t, to), producers' = producers - 1 PROVE FeedInv'
    <3>1. Feeders' = Feeders \ {t} /\ Cardinality(Feeders') = Cardinality(Feeders) - 1
      BY <2>1, <2>3, FeederFacts, Zenon DEF Pcs
    <3> QED BY <2>1, <2>3, <3>1, Zenon DEF FeedInv
  <2> QED BY <1>7, <2>2, <2>3, Zenon DEF FeedBytes, FeedWithdraw
<1>8. ASSUME NEW a \in Actor, Notify(a) PROVE FeedInv'
  <2>1. /\ pc[a] \in {"notify", "mark", "release"} /\ \E to \in {"idle", "mark", "release"} : Goto(a, to)
        /\ UNCHANGED <<producers, opc, cmds>>
    BY <1>8, Zenon DEF Notify, NotifyGeneration, NotifyMark, NotifyRelease, outbox
  <2>2. PICK to \in {"idle", "mark", "release"} : Goto(a, to)
    BY <2>1, Zenon
  <2>3. pc'[a] = to /\ \A b \in Actor : b # a => pc'[b] = pc[b]
    BY <2>2, GotoFacts, Zenon DEF Pcs
  <2>4. Feeders' = Feeders
    BY <2>1, <2>3, ActorFacts, Zenon DEF Feeders
  <2> QED BY <1>3, <2>1, <2>4, Zenon
<1>9. CASE TransmitDone
  <2>1. Goto(Adapter, "notify") /\ UNCHANGED <<producers, opc, cmds>>
    BY <1>9, Zenon DEF TransmitDone, outbox
  <2>2. \A t \in Thread : pc'[t] = pc[t]
    BY <2>1, ActorFacts, GotoFacts, Zenon DEF Pcs
  <2>3. Feeders' = Feeders
    BY <2>2, Zenon DEF Feeders
  <2> QED BY <1>3, <2>1, <2>3, Zenon
<1>10. CASE OwnerDrain
  <2>1. pc' = pc /\ producers = 0 /\ opc' = "reset" /\ UNCHANGED <<producers, cmds>>
    BY <1>10, Zenon DEF OwnerDrain, Drained, Asleep, Others, outbox
  <2>2. IsFiniteSet(Feeders)
    BY ExecutorAssumption, FS_Subset, Zenon DEF Feeders
  <2>3. Feeders = {} /\ Feeders' = Feeders
    BY <2>1, <2>2, FS_EmptySet, Zenon DEF FeedInv, Feeders
  <2> QED BY <2>1, <2>3, Zenon DEF FeedInv
<1>11. CASE OwnerReset
  <2>1. pc' = pc /\ producers' = producers /\ opc = "reset" /\ cmds' = 0
    BY <1>11, Zenon DEF OwnerReset, Asleep, Others
  <2>2. Feeders' = Feeders
    BY <2>1, Zenon DEF Feeders
  <2> QED BY <2>1, <2>2, Zenon DEF FeedInv
<1>12. CASE OwnerSent
  <2>1. pc' = pc /\ producers' = producers /\ opc' \notin {"reset", "stopped"}
    BY <1>12, Zenon DEF OwnerSent, Asleep, Others
  <2>2. Feeders' = Feeders
    BY <2>1, Zenon DEF Feeders
  <2> QED BY <2>1, <2>2, Zenon DEF FeedInv
<1>13. CASE OwnerTop \/ OwnerClear \/ OwnerObserve \/ OwnerCollect \/ OwnerDispatch \/ OwnerService \/ OwnerPump
            \/ OwnerStepFails \/ OwnerLatest \/ OwnerQuery \/ OwnerCommands \/ OwnerGeneration \/ OwnerWake
            \/ OwnerWaited \/ OwnerClose \/ OwnerCancelQueued \/ Start
  <2>1. pc' = pc /\ UNCHANGED <<producers, cmds>> /\ opc' \notin {"reset", "stopped"}
    BY <1>13, Zenon DEF OwnerTop, OwnerClear, OwnerObserve, OwnerCollect, OwnerDispatch, OwnerService, OwnerPump,
       OwnerStepFails, OwnerLatest, OwnerQuery, OwnerCommands, OwnerGeneration, OwnerWake, OwnerWaited,
       OwnerClose, OwnerCancelQueued, Start, Asleep, Others, outbox
  <2>2. Feeders' = Feeders
    BY <2>1, Zenon DEF Feeders
  <2> QED BY <1>2, <2>1, <2>2, Zenon
<1>14. CASE StopReady \/ (\E t \in Thread : CallDue(t)) \/ (\E c \in Client : ClientDue(c)) \/ UNCHANGED vars
  <2>1. pc' = pc /\ UNCHANGED <<producers, cmds, opc>>
    BY <1>14, Zenon DEF StopReady, CallDue, ClientDue, vars, outbox
  <2>2. Feeders' = Feeders
    BY <2>1, Zenon DEF Feeders
  <2> QED BY <1>3, <2>1, <2>2, Zenon
<1> QED BY <1>4, <1>5, <1>6, <1>7, <1>8, <1>9, <1>10, <1>11, <1>12, <1>13, <1>14, Zenon
        DEF ExecNext, Running, Uses, Owner, Continue, Begin

-----------------------------------------------------------------------------
(* The calls *)

JobsInv == TableType /\ CallInv /\ BatchInv /\ SweptInv

\* The first finish of a call.
LEMMA JobFinished ==
    ASSUME NEW j \in Job, j.finishes = 0,
           NEW k, k = [j EXCEPT !.st = "done", !.due = FALSE, !.finishes = IF @ = 2 THEN 2 ELSE @ + 1]
    PROVE  k \in Job /\ k.st = "done" /\ k.finishes = 1
<1>1. [j EXCEPT !.st = "done", !.due = FALSE, !.finishes = IF @ = 2 THEN 2 ELSE @ + 1]
      = [j EXCEPT !.st = "done", !.due = FALSE, !.finishes = 1]
  BY DEF Job
<1>2. ASSUME NEW f \in 0 .. 2, k = [j EXCEPT !.st = "done", !.due = FALSE, !.finishes = f]
      PROVE  k \in Job /\ k.st = "done" /\ k.finishes = f
  BY <1>2, Zenon DEF Job
<1> QED BY <1>1, <1>2

\* s_finishRpc on calls that are in the table.
LEMMA FinishFacts ==
    ASSUME TableType, CallInv, NEW done, \A t \in done : t \in Thread /\ job[t].st \in Live, FinishRpc(done)
    PROVE  /\ table' \in [Slot -> Thread \cup {NoJob}] /\ job' \in [Thread -> Job] /\ CallInv'
           /\ \A t \in Thread : InTable(t)' <=> InTable(t) /\ t \notin done
           /\ \A s \in Slot : /\ table[s] = NoJob => table'[s] = NoJob
                              /\ table[s] \in done => table'[s] = NoJob
<1>0. NoJob \notin Thread /\ table \in [Slot -> Thread \cup {NoJob}] /\ job \in [Thread -> Job]
  BY ExecutorAssumption, Zenon DEF TableType
<1>1. table' = [s \in Slot |-> IF table[s] \in done THEN NoJob ELSE table[s]] /\ job' = Finished(done)
  BY Zenon DEF FinishRpc, Vacate
<1>2. table' \in [Slot -> Thread \cup {NoJob}]
  BY <1>0, <1>1, Zenon
<1>3. \A s \in Slot : table'[s] = IF table[s] \in done THEN NoJob ELSE table[s]
  BY <1>1, Zenon
<1>4. ASSUME NEW t \in Thread PROVE InTable(t)' <=> InTable(t) /\ t \notin done
  BY <1>0, <1>3, <1>4, Zenon DEF InTable
<1>5. ASSUME NEW t \in Thread
      PROVE  /\ job'[t] \in Job
             /\ t \notin done => job'[t] = job[t]
             /\ t \in done => job'[t].st = "done" /\ job'[t].finishes = 1
  <2>0. job[t] \in Job /\ (t \in done => job[t].finishes = 0)
    BY <1>0, <1>5, Zenon DEF CallInv, Live
  <2>1. CASE t \notin done
    BY <1>1, <1>5, <2>0, <2>1, Zenon DEF Finished
  <2>2. CASE t \in done
    <3>1. job'[t] = [job[t] EXCEPT !.st = "done", !.due = FALSE, !.finishes = IF @ = 2 THEN 2 ELSE @ + 1]
      BY <1>1, <1>5, <2>2, Zenon DEF Finished
    <3> QED BY <2>0, <2>2, <3>1, JobFinished, Zenon
  <2> QED BY <2>1, <2>2, Zenon
<1>6. job' \in [Thread -> Job]
  <2>1. job' = [t \in Thread |-> job'[t]]
    BY <1>1, Zenon DEF Finished
  <2> QED BY <1>5, <2>1, Zenon
<1>7. CallInv'
  <2>1. ASSUME NEW t \in Thread
        PROVE  /\ job'[t].finishes = IF job'[t].st = "done" THEN 1 ELSE 0
               /\ InTable(t)' <=> job'[t].st \in Live
    BY <1>4, <1>5, <2>1 DEF CallInv, Live
  <2> QED BY <2>1, Zenon DEF CallInv
<1> QED BY <1>2, <1>3, <1>4, <1>6, <1>7, Zenon

\* A step that finishes calls while no batch is open and the table is not being swept.
LEMMA FinishStep ==
    ASSUME JobsInv, NEW done, \A t \in done : t \in Thread /\ job[t].st \in Live, FinishRpc(done),
           batch = {}, batch' = {}, opc' \notin {"cancel", "drain", "reset", "stopped", "off"}
    PROVE  JobsInv'
<1>1. table' \in [Slot -> Thread \cup {NoJob}] /\ job' \in [Thread -> Job] /\ CallInv'
  BY FinishFacts, Zenon DEF JobsInv
<1> QED BY <1>1, Zenon DEF JobsInv, TableType, BatchInv, SweptInv

\* A step that leaves the calls, the table and the batch alone.
LEMMA KeepStep ==
    ASSUME JobsInv, UNCHANGED <<table, job, batch>>,
           \/ UNCHANGED <<opc, budget>>
           \/ batch = {} /\ opc' \notin {"cancel", "drain", "reset", "stopped", "off"}
           \/ opc' = opc /\ opc # "cancel"
    PROVE  JobsInv'
BY ZenonT(60) DEF JobsInv, TableType, CallInv, BatchInv, SweptInv, InTable

\* A step that changes only what a call is doing.
LEMMA RecordStep ==
    ASSUME JobsInv, UNCHANGED <<table, batch, opc, budget>>, job' \in [Thread -> Job],
           \A t \in Thread : /\ job'[t].finishes = job[t].finishes
                             /\ job'[t].st = job[t].st \/ (job[t].st \in Live /\ job'[t].st \in Live)
    PROVE  JobsInv'
<1>1. CallInv'
  BY DEF JobsInv, CallInv, InTable, Live
<1> QED BY <1>1, Zenon DEF JobsInv, TableType, BatchInv, SweptInv, InTable

\* Admission: the first free slot takes the call.
LEMMA SubmitRpcStep ==
    ASSUME JobsInv, LifeInv, NEW t \in Thread, SubmitRpc(t)
    PROVE  JobsInv'
<1>0. /\ NoJob \notin Thread /\ table \in [Slot -> Thread \cup {NoJob}] /\ job \in [Thread -> Job]
      /\ accepting /\ FreeSlots # {} /\ job[t].st = "none"
      /\ table' = [table EXCEPT ![FirstFree] = t] /\ job' = [job EXCEPT ![t].st = "queued"]
      /\ UNCHANGED <<opc, batch>>
  BY ExecutorAssumption, Zenon DEF JobsInv, TableType, SubmitRpc, Admits
<1>1. FirstFree \in FreeSlots
  <2>1. FreeSlots \in SUBSET Nat
    BY ExecutorAssumption DEF FreeSlots, Slot
  <2>2. \E s \in FreeSlots : \A r \in FreeSlots : s <= r
    BY <1>0, <2>1, LeastNat, Zenon
  <2> QED BY <2>2, Zenon DEF FirstFree
<1>2. FirstFree \in Slot /\ table[FirstFree] = NoJob
  BY <1>1, Zenon DEF FreeSlots
<1> DEFINE f == FirstFree
<1> HIDE DEF f
<1>3. /\ table' \in [Slot -> Thread \cup {NoJob}] /\ table'[f] = t
      /\ \A s \in Slot : s # f => table'[s] = table[s]
  BY <1>0, <1>2, Zenon DEF f
<1>4. /\ job' \in [Thread -> Job] /\ job'[t].st = "queued" /\ job'[t].finishes = job[t].finishes
      /\ \A u \in Thread : u # t => job'[u] = job[u]
  BY <1>0, ZenonT(60) DEF Job
<1>5. ASSUME NEW u \in Thread PROVE InTable(u)' <=> InTable(u) \/ u = t
  BY <1>0, <1>2, <1>3, <1>5, Zenon DEF InTable, f
<1>6. CallInv'
  <2>1. ASSUME NEW u \in Thread
        PROVE  /\ job'[u].finishes = IF job'[u].st = "done" THEN 1 ELSE 0
               /\ InTable(u)' <=> job'[u].st \in Live
    BY <1>0, <1>4, <1>5, <2>1, Zenon DEF JobsInv, CallInv, Live
  <2> QED BY <2>1, Zenon DEF CallInv
<1>7. opc' \notin {"cancel", "drain", "reset", "stopped", "off"}
  BY <1>0, Zenon DEF LifeInv
<1>8. BatchInv'
  <2>1. \A b \in batch : b[1] \in Thread
    BY Zenon DEF JobsInv, TableType
  <2> QED BY <1>0, <1>5, <2>1, Zenon DEF JobsInv, BatchInv
<1> QED BY <1>0, <1>3, <1>4, <1>6, <1>7, <1>8, Zenon DEF JobsInv, TableType, SweptInv

\* s_dispatchRpc collects every queued call and every cancellation once.
LEMMA CollectStep ==
    ASSUME JobsInv, OwnerCollect
    PROVE  JobsInv'
<1>1. opc = "collect" /\ opc' = "dispatch" /\ batch = {} /\ table' = table
  BY Zenon DEF OwnerCollect, JobsInv, BatchInv
<1>2. CASE ~rpcPending
  <2>1. UNCHANGED <<batch, job>>
    BY <1>2, Zenon DEF OwnerCollect
  <2> QED BY <1>1, <2>1, KeepStep, Zenon
<1>3. CASE rpcPending
  <2> DEFINE C == ToCancel
             S == ToSubmit
  <2>0. job \in [Thread -> Job]
    BY Zenon DEF JobsInv, TableType
  <2>1. /\ C \subseteq Thread /\ S \subseteq Thread /\ C \cap S = {}
        /\ \A t \in C \cup S : InTable(t)
        /\ \A t \in S : job[t].st = "queued"
    BY Zenon DEF ToCancel, ToSubmit
  <2>2. batch' = (C \X {"cancel"}) \cup (S \X {"submit"})
    BY <1>3, Zenon DEF OwnerCollect
  <2>3. job' = [t \in Thread |-> IF t \in C THEN [job[t] EXCEPT !.cancel = "sent"]
                                 ELSE IF t \in S THEN [job[t] EXCEPT !.st = "collected"]
                                 ELSE job[t]]
    BY <1>3, Zenon DEF OwnerCollect
  <2> HIDE DEF C, S
  <2>4. ASSUME NEW t \in Thread
        PROVE  /\ job'[t] \in Job /\ job'[t].finishes = job[t].finishes
               /\ job'[t].st = job[t].st \/ (job[t].st = "queued" /\ job'[t].st = "collected")
    BY <2>0, <2>1, <2>3, <2>4, Zenon DEF Job
  <2>5. job' \in [Thread -> Job]
    <3>1. job' = [t \in Thread |-> job'[t]]
      BY <2>3, Zenon
    <3> QED BY <2>4, <3>1, Zenon
  <2>6. CallInv'
    BY <1>1, <2>4 DEF JobsInv, CallInv, InTable, Live
  <2>7. /\ \A b \in batch' : b[1] \in C \cup S
        /\ \A b \in batch' : b = IF b[1] \in C THEN <<b[1], "cancel">> ELSE <<b[1], "submit">>
        /\ batch' \subseteq Thread \X {"cancel", "submit"}
    BY <2>1, <2>2
  <2>8. BatchInv'
    <3>1. \A t \in C \cup S : InTable(t)'
      BY <1>1, <2>1, Zenon DEF InTable
    <3>2. \A b \in batch', c \in batch' : c[1] = b[1] => c = b
      BY <2>7
    <3> QED BY <1>1, <2>7, <3>1, <3>2, Zenon DEF BatchInv
  <2>9. SweptInv' /\ TableType'
    BY <1>1, <2>5, <2>7, Zenon DEF JobsInv, TableType, SweptInv
  <2> QED BY <2>6, <2>8, <2>9, Zenon DEF JobsInv
<1> QED BY <1>2, <1>3, Zenon

\* s_dispatchRpc hands one collected call over, or finishes it.
LEMMA DispatchStep ==
    ASSUME JobsInv, OwnerDispatch
    PROVE  JobsInv'
<1>0. opc = "dispatch" /\ table \in [Slot -> Thread \cup {NoJob}] /\ job \in [Thread -> Job]
  BY Zenon DEF OwnerDispatch, JobsInv, TableType
<1>1. CASE batch = {} /\ opc' = "service" /\ UNCHANGED <<batch, rpc>>
  BY <1>1, KeepStep, Zenon DEF rpc
<1>2. ASSUME NEW b \in batch, batch' = batch \ {b}, opc' = opc,
             \/ FinishRpc({b[1]})
             \/ job' = [job EXCEPT ![b[1]].st = "active"] /\ UNCHANGED table
             \/ UNCHANGED <<table, job>>
      PROVE  JobsInv'
  <2>1. /\ b[1] \in Thread /\ InTable(b[1]) /\ job[b[1]].st \in Live
        /\ \A c \in batch' : c \in batch /\ c[1] \in Thread /\ c[1] # b[1]
    BY <1>2, Zenon DEF JobsInv, TableType, CallInv, BatchInv
  <2>2. CASE FinishRpc({b[1]})
    <3>1. /\ table' \in [Slot -> Thread \cup {NoJob}] /\ job' \in [Thread -> Job] /\ CallInv'
          /\ \A t \in Thread : InTable(t)' <=> InTable(t) /\ t \notin {b[1]}
      BY <2>1, <2>2, FinishFacts, Zenon DEF JobsInv
    <3>2. BatchInv'
      BY <1>0, <1>2, <2>1, <3>1, Zenon DEF JobsInv, BatchInv
    <3> QED BY <1>0, <1>2, <3>1, <3>2, Zenon DEF JobsInv, TableType, SweptInv
  <2>3. CASE job' = [job EXCEPT ![b[1]].st = "active"] /\ UNCHANGED table
    <3>1. ASSUME NEW t \in Thread
          PROVE  /\ job'[t].finishes = job[t].finishes
                 /\ job'[t].st = job[t].st \/ (job[t].st \in Live /\ job'[t].st \in Live)
      BY <1>0, <2>1, <2>3, <3>1, ZenonT(60) DEF Job, Live
    <3>2. job' \in [Thread -> Job]
      BY <1>0, <2>1, <2>3 DEF Job
    <3>3. CallInv'
      BY <2>3, <3>1 DEF JobsInv, CallInv, InTable, Live
    <3> QED BY <1>0, <1>2, <2>1, <2>3, <3>2, <3>3, Zenon DEF JobsInv, TableType, BatchInv, SweptInv, InTable
  <2>4. CASE UNCHANGED <<table, job>>
    BY <1>0, <1>2, <2>1, <2>4, ZenonT(60) DEF JobsInv, TableType, CallInv, BatchInv, SweptInv, InTable
  <2> QED BY <1>2, <2>2, <2>3, <2>4, Zenon
<1> QED BY <1>1, <1>2, Zenon DEF OwnerDispatch

\* wl_pump_step finishes the call a frame answers and the calls that are overdue.
LEMMA PumpStep ==
    ASSUME JobsInv, OwnerPump
    PROVE  JobsInv'
<1>1. PICK p \in Polled : FinishRpc(p[1] \cup Overdue)
  BY Zenon DEF OwnerPump
<1>2. \A t \in p[1] : t \in Thread /\ job[t].st = "active"
  BY <1>1 DEF Polled, Answered, Asked, Ignored
<1>3. \A t \in p[1] \cup Overdue : t \in Thread /\ job[t].st \in Live
  BY <1>2, Zenon DEF Overdue, Live
<1>4. batch = {} /\ batch' = {} /\ opc' \in {"close", "latest"}
  BY Zenon DEF OwnerPump, JobsInv, BatchInv
<1> QED BY <1>1, <1>3, <1>4, FinishStep, Zenon

\* The shutdown finishes what the endpoint accepted, then sweeps the table.
LEMMA CloseStep ==
    ASSUME JobsInv, OwnerClose
    PROVE  JobsInv'
<1> DEFINE done == {t \in Thread : job[t].st = "active"}
<1>1. /\ FinishRpc(done) /\ batch = {} /\ batch' = {} /\ opc' = "cancel" /\ budget' = 1
  BY Zenon DEF OwnerClose, JobsInv, BatchInv
<1>2. \A t \in done : t \in Thread /\ job[t].st \in Live
  BY Zenon DEF Live
<1> HIDE DEF done
<1>3. table' \in [Slot -> Thread \cup {NoJob}] /\ job' \in [Thread -> Job] /\ CallInv'
  BY <1>1, <1>2, FinishFacts, Zenon DEF JobsInv
<1>4. SweptInv'
  BY <1>1, ExecutorAssumption DEF SweptInv, Slot
<1> QED BY <1>1, <1>3, <1>4, Zenon DEF JobsInv, TableType, BatchInv

LEMMA CancelQueuedStep ==
    ASSUME JobsInv, OwnerCancelQueued
    PROVE  JobsInv'
<1>0. /\ opc = "cancel" /\ batch = {} /\ batch' = {} /\ budget \in Nat \ {0} /\ JobSlots \in Nat
      /\ \A s \in Slot : s < budget => table[s] = NoJob
      /\ table \in [Slot -> Thread \cup {NoJob}]
  BY ExecutorAssumption, Zenon DEF OwnerCancelQueued, JobsInv, BatchInv, SweptInv, TableType
<1>1. CASE budget > JobSlots
  <2>1. opc' = "drain" /\ UNCHANGED <<table, job>>
    BY <1>1, Zenon DEF OwnerCancelQueued
  <2>2. \A s \in Slot : s < budget
    BY <1>0, <1>1 DEF Slot
  <2> QED BY <1>0, <2>1, <2>2, Zenon DEF JobsInv, TableType, CallInv, BatchInv, SweptInv, InTable
<1>2. CASE ~(budget > JobSlots)
  <2> DEFINE done == {table[budget]} \ {NoJob}
  <2>1. opc' = "cancel" /\ budget' = budget + 1 /\ FinishRpc(done)
    BY <1>0, <1>2, Zenon DEF OwnerCancelQueued
  <2>2. budget \in Slot
    BY <1>0, <1>2 DEF Slot
  <2>3. \A t \in done : t \in Thread /\ job[t].st \in Live
    BY <1>0, <2>2, ZenonT(60) DEF JobsInv, CallInv, InTable
  <2>4. table[budget] = NoJob \/ table[budget] \in done
    BY Zenon
  <2> HIDE DEF done
  <2>5. /\ table' \in [Slot -> Thread \cup {NoJob}] /\ job' \in [Thread -> Job] /\ CallInv'
        /\ \A s \in Slot : /\ table[s] = NoJob => table'[s] = NoJob
                           /\ table[s] \in done => table'[s] = NoJob
    BY <2>1, <2>3, FinishFacts, Zenon DEF JobsInv
  <2>6. ASSUME NEW s \in Slot, s < budget + 1 PROVE table'[s] = NoJob
    <3>1. s < budget \/ s = budget
      BY <1>0, <2>6 DEF Slot
    <3> QED BY <1>0, <2>2, <2>4, <2>5, <2>6, <3>1, Zenon
  <2>7. SweptInv'
    BY <1>0, <2>1, <2>6 DEF SweptInv
  <2> QED BY <1>0, <2>1, <2>5, <2>7, Zenon DEF JobsInv, TableType, BatchInv
<1> QED BY <1>1, <1>2, Zenon

LEMMA JobsNext ==
    ASSUME JobsInv, LifeInv, [ExecNext]_vars
    PROVE  JobsInv'
<1>0. job \in [Thread -> Job]
  BY Zenon DEF JobsInv, TableType
<1>1. ASSUME NEW t \in Thread, NEW u \in Thread, CancelRpc(t, u) PROVE JobsInv'
  <2>1. job' = [job EXCEPT ![u].cancel = "asked"] /\ UNCHANGED <<opc, batch, budget, table>>
    BY <1>1, Zenon DEF CancelRpc
  <2>2. job' \in [Thread -> Job] /\ \A v \in Thread : job'[v].finishes = job[v].finishes /\ job'[v].st = job[v].st
    BY <1>0, <2>1 DEF Job
  <2> QED BY <2>1, <2>2, RecordStep, Zenon
<1>2. ASSUME NEW t \in Thread, CallDue(t) PROVE JobsInv'
  <2>1. job' = [job EXCEPT ![t].due = TRUE] /\ UNCHANGED <<opc, batch, budget, table>>
    BY <1>2, Zenon DEF CallDue
  <2>2. job' \in [Thread -> Job] /\ \A v \in Thread : job'[v].finishes = job[v].finishes /\ job'[v].st = job[v].st
    BY <1>0, <2>1, ZenonT(60) DEF Job
  <2> QED BY <2>1, <2>2, RecordStep, Zenon
<1>3. CASE OwnerTop \/ OwnerClear \/ OwnerObserve \/ OwnerService \/ OwnerStepFails \/ OwnerLatest \/ OwnerSent
           \/ OwnerQuery \/ OwnerCommands \/ OwnerGeneration \/ OwnerWake \/ OwnerWaited \/ Start
  <2>1. /\ UNCHANGED <<table, job, batch>>
        /\ opc' \notin {"cancel", "drain", "reset", "stopped", "off"} /\ opc # "dispatch"
    BY <1>3, Zenon DEF OwnerTop, OwnerClear, OwnerObserve, OwnerService, OwnerStepFails, OwnerLatest, OwnerSent,
       OwnerQuery, OwnerCommands, OwnerGeneration, OwnerWake, OwnerWaited, Start, rpc, LifeInv
  <2>2. batch = {}
    BY <2>1, Zenon DEF JobsInv, BatchInv
  <2> QED BY <2>1, <2>2, KeepStep, Zenon
<1>4. CASE OwnerDrain \/ OwnerReset
  <2>1. /\ UNCHANGED <<table, job, batch>> /\ opc \in {"drain", "reset"} /\ opc' \in {"reset", "stopped"}
    BY <1>4, Zenon DEF OwnerDrain, Drained, OwnerReset, rpc
  <2> QED BY <2>1, Zenon DEF JobsInv, TableType, CallInv, BatchInv, SweptInv, InTable
<1>5. CASE TransmitDone \/ StopReady \/ (\E a \in Actor : Notify(a)) \/ (\E c \in Client : ClientDue(c))
           \/ UNCHANGED vars
           \/ \E t \in Thread : Continue(t) \/ RequestStop(t) \/ SubmitLatest(t) \/ FeedAnnounce(t)
  <2>1. UNCHANGED <<table, job, batch, opc, budget>>
    BY <1>5, Zenon DEF TransmitDone, StopReady, Notify, NotifyGeneration, NotifyMark, NotifyRelease, ClientDue,
       vars, Continue, RequestStopStores, FeedBytes, FeedWithdraw, RequestStop, SubmitLatest, FeedAnnounce, rpc
  <2> QED BY <2>1, KeepStep, Zenon
<1>6. ASSUME NEW t \in Thread, SubmitRpc(t) PROVE JobsInv'
  BY <1>6, SubmitRpcStep, Zenon
<1> QED BY <1>1, <1>2, <1>3, <1>4, <1>5, <1>6, CollectStep, DispatchStep, PumpStep, CloseStep, CancelQueuedStep, Zenon
        DEF ExecNext, Running, Uses, Owner, Begin

-----------------------------------------------------------------------------
(* The session *)

LEMMA ExecStep == ExecInv /\ [ExecNext]_vars => ExecInv'
<1> SUFFICES ASSUME ExecInv, [ExecNext]_vars PROVE ExecInv'
  BY Zenon
<1>1. PcInv' /\ TokenInv' /\ LifeInv' /\ EndpointGood(e')
  BY PcNext, TokenNext, LifeNext, EndpointNext, Zenon DEF ExecInv
<1>2. CountInv' /\ WakeInv' /\ FeedInv'
  BY CountNext, WakeNext, FeedNext, Zenon DEF ExecInv
<1>3. JobsInv'
  BY JobsNext, Zenon DEF ExecInv, JobsInv
<1> QED BY <1>1, <1>2, <1>3, Zenon DEF ExecInv, JobsInv

LEMMA SessionIsExec == [SessionNext]_allVars => [ExecNext]_vars
BY Zenon DEF SessionNext, allVars, ExecNext, Uses, Begin, Connect, ConnectFails, InvokeEnter, InvokeCall, InvokeLeave,
   Submit, RequestCancel, CloseGate, CloseStop, CloseJoin, CloseCallers, Returning

\* The executor's own steps start no thread, and a stopped executor stays stopped.
LEMMA RunningKeeps ==
    ASSUME ExecInv, Running
    PROVE  /\ \A t \in Thread : pc[t] = "idle" => pc'[t] = "idle"
           /\ life = "stopped" => life' = "stopped"
           /\ opc' = "off" <=> opc = "off"
           /\ plan' = plan
<1>0. PcInv /\ LifeInv
  BY Zenon DEF ExecInv
<1>1. CASE Owner
  BY <1>0, <1>1, Zenon DEF Owner, Asleep, Others, OwnerTop, OwnerClear, OwnerObserve, OwnerCollect, OwnerDispatch,
     OwnerService, OwnerPump, OwnerStepFails, OwnerLatest, OwnerSent, OwnerQuery, OwnerCommands,
     OwnerGeneration, OwnerWake, OwnerWaited, OwnerClose, OwnerCancelQueued, OwnerDrain, Drained,
     OwnerReset, gate
<1>2. CASE TransmitDone
  <2>1. Goto(Adapter, "notify") /\ UNCHANGED <<opc, life, plan>>
    BY <1>2, Zenon DEF TransmitDone, gate, bounds
  <2> QED BY <1>0, <2>1, GotoFacts, ActorFacts, Zenon DEF Pcs
<1>3. ASSUME NEW a \in Actor, Notify(a)
      PROVE  /\ \A t \in Thread : pc[t] = "idle" => pc'[t] = "idle"
             /\ UNCHANGED <<opc, life, plan>>
  <2>1. UNCHANGED <<opc, life, plan>> /\ pc[a] # "idle" /\ \E to \in {"idle", "mark", "release"} : Goto(a, to)
    BY <1>3, Zenon DEF Notify, NotifyGeneration, NotifyMark, NotifyRelease, gate, bounds
  <2> QED BY <1>0, <2>1, GotoFacts, ActorFacts, Zenon DEF Pcs
<1>4. ASSUME NEW u \in Thread, Continue(u)
      PROVE  /\ \A t \in Thread : pc[t] = "idle" => pc'[t] = "idle"
             /\ UNCHANGED <<opc, plan>> /\ (life = "stopped" => life' = "stopped")
  <2>1. UNCHANGED <<opc, plan>> /\ pc[u] # "idle" /\ (\E to \in Pcs : Goto(u, to))
        /\ (life = "stopped" => life' = "stopped")
    BY <1>4, Zenon DEF Continue, RequestStopStores, FeedBytes, FeedWithdraw, gate, bounds, Pcs
  <2> QED BY <1>0, <2>1, GotoFacts, ActorFacts, Zenon
<1>5. CASE (\E t \in Thread : CallDue(t)) \/ \E c \in Client : ClientDue(c)
  BY <1>5, Zenon DEF CallDue, ClientDue, gate, bounds
<1> QED BY <1>1, <1>2, <1>3, <1>4, <1>5, Zenon DEF Running

\* A thread moves in the session.
LEMMA MoveFacts ==
    ASSUME at \in [Thread -> {"out", "gate", "admitted", "called", "refused", "close", "join", "callers"}],
           NEW t \in Thread,
           NEW to \in {"out", "gate", "admitted", "called", "refused", "close", "join", "callers"}, Move(t, to)
    PROVE  /\ at' \in [Thread -> {"out", "gate", "admitted", "called", "refused", "close", "join", "callers"}]
           /\ at'[t] = to /\ \A u \in Thread : u # t => at'[u] = at[u]
BY Zenon DEF Move

\* Through the gate, while it is open.
LEMMA OpenMove ==
    ASSUME Inv, plan.session, opc # "off", ~closing, NEW t \in Thread,
           NEW to \in {"gate", "admitted"}, Move(t, to), Held, UNCHANGED <<plan, opc, life>>
    PROVE  GateInv'
<1>1. /\ at' \in [Thread -> {"out", "gate", "admitted", "called", "refused", "close", "join", "callers"}]
      /\ at'[t] = to /\ \A u \in Thread : u # t => at'[u] = at[u]
  BY MoveFacts, ZenonT(60) DEF Inv, GateInv
<1>2. adapter /\ adapter' /\ ~closing'
  BY Zenon DEF Inv, GateInv, Held
<1>3. ASSUME NEW u \in Thread PROVE at'[u] \notin {"close", "join", "callers"}
  BY <1>1, <1>3, Zenon DEF Inv, GateInv
<1> QED BY <1>1, <1>2, <1>3, Zenon DEF GateInv

\* Onwards, for a thread that is inside a call of the session.
LEMMA InsideMove ==
    ASSUME Inv, plan.session, opc # "off", NEW t \in Thread,
           NEW to \in {"out", "called", "refused", "join", "callers"}, Move(t, to), Held,
           UNCHANGED <<plan, opc, life>>, \A u \in Thread : u # t => pc'[u] = pc[u],
           to \in {"called", "refused"} => at[t] = "admitted",
           to \in {"join", "callers"} => at[t] \in {"close", "join"},
           to = "callers" => life = "stopped"
    PROVE  GateInv'
<1>1. /\ at' \in [Thread -> {"out", "gate", "admitted", "called", "refused", "close", "join", "callers"}]
      /\ at'[t] = to /\ \A u \in Thread : u # t => at'[u] = at[u]
  BY MoveFacts, ZenonT(60) DEF Inv, GateInv
<1>2. closing' = closing /\ adapter' = adapter
  BY Zenon DEF Held
<1>3. closing => GateFree'
  BY <1>1, Zenon DEF Inv, GateInv, GateFree
<1>4. ASSUME NEW u \in Thread
      PROVE  /\ at'[u] \in {"close", "join", "callers"} => closing
             /\ at'[u] = "callers" => life = "stopped"
  BY <1>1, <1>4, Zenon DEF Inv, GateInv
<1>5. Active = {} => Active' = {}
  BY <1>1, Zenon DEF Active
<1> QED BY <1>1, <1>2, <1>3, <1>4, <1>5, Zenon DEF Inv, GateInv

LEMMA CloseGateStep ==
    ASSUME Inv, plan.session, NEW t \in Thread, CloseGate(t) \/ CloseCallers(t)
    PROVE  GateInv'
<1>1. CASE CloseGate(t)
  <2>1. /\ opc # "off" /\ at[t] \in {"out", "gate"} /\ GateFree /\ closing' /\ Move(t, "close")
        /\ UNCHANGED <<pc, opc, life, plan, adapter>>
    BY <1>1, Zenon DEF CloseGate, Outside, vars, gate, bounds
  <2>2. /\ at' \in [Thread -> {"out", "gate", "admitted", "called", "refused", "close", "join", "callers"}]
        /\ at'[t] = "close" /\ \A u \in Thread : u # t => at'[u] = at[u]
    BY <2>1, MoveFacts, Zenon DEF Inv, GateInv
  <2>3. GateFree' /\ (Active = {} => Active' = {})
    BY <2>1, <2>2, Zenon DEF GateFree, Active
  <2>4. ASSUME NEW u \in Thread PROVE at'[u] = "callers" => life = "stopped"
    BY <2>2, <2>4, Zenon DEF Inv, GateInv
  <2> QED BY <2>1, <2>2, <2>3, <2>4, Zenon DEF Inv, GateInv
<1>2. CASE CloseCallers(t)
  <2>1. /\ at[t] = "callers" /\ Active = {} /\ ~adapter' /\ closing' = closing /\ Move(t, "out")
        /\ UNCHANGED <<pc, opc, life, plan>>
    BY <1>2, Zenon DEF CloseCallers, vars, gate, bounds
  <2>2. /\ at' \in [Thread -> {"out", "gate", "admitted", "called", "refused", "close", "join", "callers"}]
        /\ at'[t] = "out" /\ \A u \in Thread : u # t => at'[u] = at[u]
    BY <2>1, MoveFacts, Zenon DEF Inv, GateInv
  <2>3. closing /\ life = "stopped" /\ opc # "off"
    BY <2>1, Zenon DEF Inv, GateInv
  <2>4. GateFree' /\ Active' = {}
    BY <2>1, <2>2, <2>3, Zenon DEF Inv, GateInv, GateFree, Active
  <2>5. ASSUME NEW u \in Thread PROVE at'[u] = "callers" => life = "stopped"
    BY <2>2, <2>3, <2>5, Zenon DEF Inv, GateInv
  <2> QED BY <2>1, <2>2, <2>3, <2>4, <2>5, Zenon DEF Inv, GateInv
<1> QED BY <1>1, <1>2, Zenon

\* What an admitted or stopping thread does to the executor.
LEMMA BeginsFacts ==
    ASSUME Inv, NEW t \in Thread, SubmitRpc(t) \/ RequestStop(t) \/ \E u \in Thread : CancelRpc(t, u)
    PROVE  UNCHANGED <<plan, opc, life>> /\ \A u \in Thread : u # t => pc'[u] = pc[u]
<1>1. UNCHANGED <<plan, opc, life>> /\ \E to \in {"notify", "stopping"} : Goto(t, to)
  BY Zenon DEF SubmitRpc, RequestStop, CancelRpc, Begins, gate
<1> QED BY <1>1, GotoFacts, ActorFacts, Zenon DEF Inv, ExecInv, Pcs

LEMMA GateNext ==
    ASSUME Inv, [SessionNext]_allVars
    PROVE  GateInv'
<1>0. \A t \in Thread : at[t] # "out" => plan.session /\ opc # "off"
  BY Zenon DEF Inv, GateInv
<1>1. CASE Running /\ UNCHANGED sessionVars
  <2>1. UNCHANGED <<at, closing, adapter, plan>>
    BY <1>1, RunningKeeps, Zenon DEF sessionVars, Inv
  <2>2. GateFree => GateFree'
    BY <1>1, <2>1, RunningKeeps, Zenon DEF Inv, GateFree
  <2>3. (life = "stopped" => life' = "stopped") /\ (opc' = "off" <=> opc = "off") /\ (Active = {} => Active' = {})
    BY <1>1, <2>1, RunningKeeps, Zenon DEF Inv, Active
  <2> QED BY <2>1, <2>2, <2>3, Zenon DEF Inv, GateInv
<1>2. CASE ~plan.session /\ Uses /\ UNCHANGED sessionVars
  <2>1. /\ UNCHANGED <<at, closing, adapter, plan>> /\ (\A t \in Thread : at[t] = "out") /\ adapter
    BY <1>2, Zenon DEF sessionVars, Uses, Begin, Start, StopReady, RequestStop, SubmitRpc, SubmitLatest, FeedAnnounce,
       CancelRpc, Begins, bounds, Inv, GateInv
  <2> QED BY <2>1, Zenon DEF Inv, GateInv, GateFree
<1>3. CASE plan.session /\ (Connect \/ ConnectFails)
  <2>1. /\ UNCHANGED <<at, plan>> /\ life = "ready" /\ opc = "off"
        /\ UNCHANGED <<closing, adapter>> \/ (closing' /\ ~adapter' /\ life' = "stopped" /\ opc' = opc)
    BY <1>3, Zenon DEF Connect, ConnectFails, Start, StopReady, sessionVars, bounds, Inv, ExecInv, LifeInv
  <2>2. (\A t \in Thread : at[t] = "out") /\ adapter
    BY <2>1, Zenon DEF Inv, GateInv
  <2>3. GateFree' /\ Active' = {}
    BY <2>1, <2>2, Zenon DEF GateFree, Active
  <2> QED BY <1>3, <2>1, <2>2, <2>3, Zenon DEF Inv, GateInv
<1>4. ASSUME NEW t \in Thread, plan.session,
             InvokeEnter(t) \/ Submit(t) \/ \E u \in Thread : RequestCancel(t, u)
      PROVE  GateInv'
  <2>1. opc # "off" /\ ~closing /\ Held /\ (Move(t, "admitted") \/ Move(t, "gate"))
    BY <1>4, Zenon DEF InvokeEnter, Submit, RequestCancel, Outside
  <2>2. UNCHANGED <<plan, opc, life>>
    BY <1>4, BeginsFacts, Zenon DEF InvokeEnter, Submit, RequestCancel, vars, gate, bounds
  <2> QED BY <1>4, <2>1, <2>2, OpenMove, Zenon
<1>5. ASSUME NEW t \in Thread, plan.session, InvokeCall(t) \/ InvokeLeave(t) \/ CloseStop(t) \/ CloseJoin(t)
      PROVE  GateInv'
  <2>1. at[t] # "out" /\ Held
    BY <1>5, Zenon DEF InvokeCall, InvokeLeave, CloseStop, CloseJoin
  <2>2. \E to \in {"out", "called", "refused", "join", "callers"} :
          /\ Move(t, to)
          /\ to \in {"called", "refused"} => at[t] = "admitted"
          /\ to \in {"join", "callers"} => at[t] \in {"close", "join"}
          /\ to = "callers" => life = "stopped"
    BY <1>5, Zenon DEF InvokeCall, InvokeLeave, CloseStop, CloseJoin
  <2>3. UNCHANGED vars \/ SubmitRpc(t) \/ RequestStop(t)
    BY <1>5, Zenon DEF InvokeCall, InvokeLeave, CloseStop, CloseJoin
  <2>4. UNCHANGED <<plan, opc, life>> /\ \A u \in Thread : u # t => pc'[u] = pc[u]
    BY <2>3, BeginsFacts, Zenon DEF vars, gate, bounds
  <2> QED BY <1>0, <1>5, <2>1, <2>2, <2>4, InsideMove, Zenon
<1>6. CASE UNCHANGED allVars
  <2>1. UNCHANGED <<at, closing, adapter, pc, opc, life, plan>>
    BY <1>6, Zenon DEF allVars, sessionVars, vars, gate, bounds
  <2> QED BY <2>1, Zenon DEF Inv, GateInv, GateFree, Active
<1> QED BY <1>1, <1>2, <1>3, <1>4, <1>5, <1>6, CloseGateStep, Zenon DEF SessionNext, Returning

LEMMA NextInv == Inv /\ [SessionNext]_allVars => Inv'
BY GateNext, SessionIsExec, ExecStep, Zenon DEF Inv

LEMMA InitInv == SessionInit => Inv
<1> SUFFICES ASSUME SessionInit PROVE Inv
  BY Zenon
<1>1. PcInv /\ TokenInv /\ CountInv /\ WakeInv /\ LifeInv
  BY ActorFacts, Zenon DEF SessionInit, ExecutorInit, PcInv, Pcs, TokenInv, CountInv, WakeInv, LifeInv
<1>2. EndpointGood(e)
  BY NewGood, Zenon DEF SessionInit, ExecutorInit
<1>3. NewJob \in Job
  BY DEF NewJob, Job
<1>4. TableType /\ CallInv /\ BatchInv /\ SweptInv
  BY <1>3, ExecutorAssumption, Zenon
     DEF SessionInit, ExecutorInit, TableType, CallInv, BatchInv, SweptInv, InTable, Live, NewJob
<1>5. FeedInv
  <2>1. Feeders = {}
    BY ActorFacts, Zenon DEF SessionInit, ExecutorInit, Feeders
  <2> QED BY <2>1, FS_EmptySet, Zenon DEF FeedInv, SessionInit, ExecutorInit
<1>6. GateInv
  BY Zenon DEF SessionInit, ExecutorInit, GateInv
<1> QED BY <1>1, <1>2, <1>4, <1>5, <1>6, Zenon DEF Inv, ExecInv

-----------------------------------------------------------------------------
(* The theorems *)

\* The inductive invariant of the executor, its endpoint and the session.
THEOREM InvariantHolds == SessionSpec => []Inv
BY InitInv, NextInv, PTL DEF SessionSpec

\* The owner never sleeps over work, whatever the threads, the adapter and the deadlines
\* interleave with its loop: executor.cpp's generation check and coalescing event suffice.
THEOREM WakeIsNeverLost == SessionSpec => []NoLostWake
<1>1. Inv => NoLostWake
  <2> SUFFICES ASSUME Inv, opc = "wait", ~permit, \A a \in Actor : ~Notifying(a)
               PROVE  /\ rx > 0 => \E t \in Thread : pc[t] = "withdraw"
                      /\ ~rpcPending /\ ~txDone /\ ~stop
                      /\ ~e.policy /\ e.active = {} /\ ~e.moved
                      /\ cmds > 0 => ~e.free
    BY Zenon DEF NoLostWake
  <2>1. \A a \in Actor : pc[a] \notin {"notify", "mark", "release"}
    BY Zenon DEF Notifying
  <2>2. ~pending
    BY <2>1, Zenon DEF Inv, ExecInv, TokenInv
  <2>3. ~Woken
    BY <2>1, <2>2, Zenon DEF Woken
  <2> QED BY <2>3, Zenon DEF Inv, ExecInv, WakeInv, Feeding
<1> QED BY <1>1, InvariantHolds, PTL

\* A stopped executor and a closed session are quiet: every admitted call was finished
\* exactly once, nobody is inside a feed or a call, and nothing is left to send.
THEOREM ClosingIsQuiet == SessionSpec => []ClosedIsQuiet
<1>1. Inv => ClosedIsQuiet
  <2> SUFFICES ASSUME Inv PROVE ClosedIsQuiet
    BY Zenon
  <2>1. ASSUME opc \in {"off", "stopped"}, NEW t \in Thread PROVE job[t].st \in {"none", "done"}
    <3>1. ~InTable(t)
      BY <2>1, ExecutorAssumption, Zenon DEF Inv, ExecInv, SweptInv, InTable
    <3>2. job[t] \in Job /\ job[t].st \notin Live
      BY <2>1, <3>1, Zenon DEF Inv, ExecInv, CallInv, TableType
    <3> QED BY <3>2, Zenon DEF Job, Live
  <2>2. \A t \in Thread : job[t].finishes <= 1 /\ (job[t].st = "done" <=> job[t].finishes = 1)
    BY DEF Inv, ExecInv, CallInv
  <2>3. opc = "stopped" => cmds = 0 /\ \A t \in Thread : pc[t] # "withdraw"
    BY Zenon DEF Inv, ExecInv, FeedInv, Feeders
  <2>4. StopIsQuiet
    BY <2>1, <2>2, <2>3, Zenon DEF StopIsQuiet
  <2>5. ~adapter => closing /\ Active = {} /\ GateFree /\ opc \in {"off", "stopped"}
    BY Zenon DEF Inv, GateInv, ExecInv, LifeInv
  <2> QED BY <2>1, <2>4, <2>5, Zenon DEF ClosedIsQuiet
<1> QED BY <1>1, InvariantHolds, PTL

\* A client blocked on the link is reached by the release, for any number of services and
\* wherever the rotation stands.
THEOREM ReleaseIsSeen == SessionSpec => []ReleaseReachesClient
<1>1. Inv => ReleaseReachesClient
  <2> SUFFICES ASSUME Inv, NEW c \in Client, e.want[c] > 0, e.free PROVE EndpointRunnable(e)
    BY Zenon DEF ReleaseReachesClient
  <2>1. e.moved \/ Marked(e, c) \/ c \in e.due
    BY Zenon DEF Inv, ExecInv, EndpointGood, Served
  <2> QED BY <2>1, Zenon DEF Marked, EndpointRunnable
<1> QED BY <1>1, InvariantHolds, PTL
=============================================================================
