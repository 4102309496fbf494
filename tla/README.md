# Wirelink in TLA+

Wirelink is an allocation-free C11 link engine. Two contexts exchange reliable and unreliable
messages over a serial line, USB or UDP. Everything runs in the calls of one owner per context;
interrupt handlers, DMA completions and socket readers only publish received bytes or units and
report the fate of transmitted ones. RPC, bulk transfer and a host executor are built on it.

This directory models the engine, its lock-free buffers, its wire formats, the layers above it and
the adapters below it. It model-checks them on small instances and proves the safety of the engine,
the buffers, delivery between two contexts, bulk transfer and the executor for every configuration.
`PROJECT.json` maps every definition to the source lines it stands for. Paths below are relative to
the repository.

## 1. The system

| Part | State | Operations | What is hard about it |
| --- | --- | --- | --- |
| LATEST mailbox (`src/latest.c`) | three slots, one atomic middle word | claim, publish, abort, acquire, release, reset | producer and consumer exchange the middle word between each other's load and exchange |
| FIFO mailbox (`src/fifo.c`) | slots, two wrapping cursors, watermark | claim, publish, abort, acquire, release, reset | wrap of the cursors, stale occupancy |
| RX byte ring (`src/rx_ring_bipbuf.c`) | bytes, two cursors, scan cache, overflow mark | reserve, commit, DMA claim/publish/finish/abort; find, peek, consume | a DMA claim moves both cursors of an empty ring |
| RX unit queue (`src/unit_rx.c`) | slots, two wrapping cursors, lease | claim, commit, abort; peek, consume | a slot is lent while the producer goes on |
| Outbox (`src/outbox.c`) | one slot per message id, one copy out | submit, acquire copy, complete, reset | a newer value is submitted while the older one is out |
| Wire formats (`src/frame.c`, `cobs.c`, `crc.c`, `frame_cobs_crc16.c`, generated codec, RPC header) | none | encode, decode, skip, measure | overlap of input and output, several decoders of one format, edges of widths and blocks |
| Link engine (`src/protocol.c`, `transport.c`, `init.c`, `unit_frame.c`) | reliable transaction, physical unit, control unit, event slot, RX lease | send, claim/commit/abort, poll, cancel, take, release, I/O reports | ACK before I/O completion, shared encoding buffer, cancel under a lease, drain |
| Readiness (`src/schedule.c`) | none of its own | `wl_link_get_readiness` | it must agree with the poll it predicts |
| Bulk transfer (`src/bulk_sender.c`, `bulk_receiver.c`) | sender phase, retry count; receiver record, retained Status, sink session | start, abort, acquire/defer/submit, on_status, poll, reset; on_begin/chunk/end/abort, status calls, poll, reset | lost and late Status, repeated messages, a transfer replacing another |
| RPC (`src/rpc.c`) | client slots; server pending table and response slots | begin, bind, response, cancel, poll; server begin, complete, abandon, expire | reused slots, repeated requests, stale tokens |
| Asynchronous RPC (`src/rpc_async.c`) | call slots, retiring transaction | submit, service, cancel, close | callbacks that submit and cancel, a settled transaction nobody takes |
| Pump, endpoint (`src/pump.c`, `endpoint.c`) | service activity bits, resource generation | step, readiness, activate, begin, close | a resource freed inside the step that waits for it |
| Host executor (`runtime/host/src/executor.cpp`) | job table, coalescing wake, stop gate | submit, cancel, feed, post, run loop, stop | threads against an owner about to sleep or to stop |
| C++ session (`bindings/cpp/src/session.cpp`) | closing flag, active callers, adapter | connect, invoke, submit, cancel, close | closing under callers |
| Adapters (`adapters/`) | DMA slots, USB requests, sockets, threads | driver callbacks, service, recovery, stop | callbacks against service and stop |
| Static kernel (`experimental/static_kernel`) | call slots, reply pool, packet port | call, cancel, step, reply, close | callbacks that reuse the slot being ended |

A producer publishes into the ring or unit queue; `wl_poll` takes one unit from it, routes it, and
returns at most one event, whose payload borrows the buffer until `wl_event_release`. Submissions
encode into one transmit unit that the adapter's sink leases until it reports consumption (and, if
required, drain). The pump calls adapter service, poll and the application in turn; RPC and bulk are
applications of the link. The executor owns a thread that runs the pump; the session owns an executor
and an adapter. Mailboxes and outbox carry values between the application's threads and the owner.

## 2. The modules

| Module | What it is |
| --- | --- |
| `LatestRegister`, `FifoQueue`, `Delivery` | abstract specifications: newest-value register, bounded queue, one reliable direction |
| `Latest`, `Fifo`, `RxRing`, `UnitQueue`, `Outbox` | one per buffer |
| `Codec`, `Frame`; `Wire` | machine words, the generated codec and its owned values; checksums with COBS and frames; the RPC header, and one message through one of these layers |
| `Link`, `LinkSchedule`, `LinkPair` | one context; with its readiness query; two of them on a line, implementing `Delivery` |
| `BulkSender`, `BulkReceiver`, `Bulk` | descriptors with the sending state machine, the receiving one, and both with a sink over a channel |
| `RpcClient`, `RpcAsync`, `RpcServer`, `Rpc` | the client table, asynchronous calls over the link as RPC sees it, the server, and a client and a server endpoint joined by messages |
| `Endpoint`, `Executor`, `Session` | the endpoint's step, the executor that runs it, the session around the executor |
| `Port`, `UartDma`, `UsbBulk`, `Uart` (interrupt and polled), `Udp` (Zephyr and Asio), `HostPorts` (loopback, host serial and USB) | what an adapter owes its link, and nine adapters |
| `Kernel`; `Adapters` | the static kernel over its packet port; all of these side by side, with the properties they share |
| `MCDataPath`, `MCLink`, `MCBulk`, `MCRpc`, `MCExecutor`, `MCAdapters` | instances for TLC; the first also sets the buffers and the formats side by side |
| `MailboxProofs`, `IngressProofs`, `LinkProofs`, `DeliverySteps`, `DeliveryProofs`, `BulkProofs`, `ExecutorProofs` | theorems (section 6) |
| `NaturalFacts` | lemmas they share: least elements, induction over sets, remainders |

**Buffers.** Each atomic load, store or exchange that the other role can observe is a step, with a
program counter per role. Interleaving is sequentially consistent: acquire and release are taken to
give what they give on one location. Values are model values; a slot being filled holds a marker
(`Torn`, `Blank`, `Filling`), so that reading one early is visible. Cursors wrap at a small modulus in
place of 2^32. Tokens become the fact they protect. Statistics are left out, except for the FIFO
watermark, which is computed from a stale cursor. `RxRing` contains the loop of
`wl_frame_process_stream` that drives its consumer, with a ghost sequence of the bytes published and
the offsets in it at which a loss was noted.

**Wire.** Here the bytes are the question, so they are real: integers are 64-bit words (sets of bit
positions, since TLC's integers are too short), memory is a sequence whose indices are addresses, and
code bytes, block length, header layout, tables and checksums are those of the source. A behaviour
carries one message, text, header or frame through encoder, line and every decoder of its layer. The
two implementations of the RPC header are written out separately. The decode loops of views and of
owned values (`device.c:612-660` and `1028-1076`) are the same text but for the clear and the field
reader they call, so the model has one loop; what `DecodersAgree` compares is those two callees.

**Link.** Every API call is an action. `wl_poll` is a chain of actions linked by `pc` (idle -> rx ->
queued -> timer -> finish) since producers may publish while it runs. `tx` is the reliable transaction,
`io` the physical DATA unit with its lease, claim and drain, `ctl` the control unit, `mem` records whose
bytes `tx_unit` and `tx_payload` hold, `rx` the received units, the lease and the duplicate record,
`event` the single slot. The sink's answer is any member of `SinkResults`; time is one bit, `tx.due`. A
reliable payload is the sequence number of its request, anything else is `Scrap`. `wire` is what the
last step put on the line and `hist` counts events for the properties only.

**Bulk.** A transfer identity stands for its descriptor. Each `wl_bulk_*` call is an action; the
handlers have one disjunct per way they return. Timers may be found elapsed at any moment of a wait.
The sink answers OK, BUSY or failure, may resume an object where it once got to, and records what it
was asked. The channel loses messages; unless `ordered`, it also reorders and repeats them.

**RPC.** `RpcClient`, `RpcServer` and `RpcAsync` are operators from a record to the next one, because
one call of the upper layer makes several of the lower. `Rpc` has the actions: the application's calls,
service passes stopped at each callback (inside which the application may submit and cancel), events
of the link, deadlines, and the receive paths of the generated runtime. A message once sent may arrive
at any time, any number of times or never. The client endpoint may restart under a new session, in
which operation ids and generations start over; a request and the answer to it carry the session and
generation of their call, so that an answer of another session can be told from a call's own.

**Executor and session.** Each critical section and each atomic access outside one is a step. The wake
(`CoalescingEvent`) is three steps, the owner loop has a step per place where another thread can
intervene, a client of the endpoint is reduced to what its next step wants: local work, a unit to
send, or the unit in flight to cancel, which frees the link in the middle of a step. `Session` adds the gate,
the callers inside it and `close`; a plan says which calls a behaviour makes and whether through a
session.

**Adapters.** Interrupt handlers and driver threads are processes beside the owner. `Port` is the link
side: what was handed over, what is lent, what was reported. Drivers (Zephyr UART and USB, sockets, the
host I/O library) are external, modelled by the events their callers rely on; that closing the host
serial port ends its transfers and joins its thread is such an assumption. Reads, FIFO accesses and
sockets may fail where the code checks them. The host USB port runs under both wake policies:
`AllCompletions`, and `ReceiveOnly`, where `record_tx_completion` notifies nobody
(`bulk_adapter.cpp:137`) and `docs/usb-performance.md:205-209` asks the owner to wait with a deadline.
There a finished transmission, and nothing else, may be left to that deadline. A behaviour runs one
adapter under one plan (how many bytes, units, sends, faults).

## 3. The runs

Passing runs:

| Run | Instance | What it shows |
| --- | --- | --- |
| `data_path` | buffers: 3 mailbox slots, 2 values, generations mod 3; FIFO of 3 with cursors mod 8; ring of 3 bytes; 3 unit slots with cursors mod 9; outbox of 3 slots for 4 ids. Formats: messages, texts, headers and frames at the edges listed in `MCDataPath`, damaged bytes, overlapping buffers | LATEST implements `LatestRegister`, FIFO implements `FifoQueue`, slots have one owner, frames and units come out whole and in order, the outbox owes the newest value and starves no id. Encoders write exactly the protocol's bytes, all decoders of a format agree, a message of a newer peer is understood, text and headers are accepted exactly when well formed |
| `link_stream` | COBS link, asynchronous sink, 1 retry, 2 requests, ACKs of both, damaged units, inbound DATA | a transaction in SENDING is carried by the line and a settled one stays settled; the readiness query neither spins nor sleeps over work |
| `link_packet` | native packets, drain reports, any sink answer | the line is exclusive, leased bytes do not change, a retransmission carries the request's own bytes although telemetry reused the buffer |
| `pair_delivery` | 3 requests, 2 faults (loss, repetition), 1 restart, 1 retry | the pair implements `Delivery`: in order, at most once, no success undelivered |
| `pair_settles` | 2 requests, 1 fault, asynchronous I/O | every request gets a verdict |
| `bulk` | objects of 3, 0 and 4 bytes (the last too long for the receiver), chunks of 2, 1 retry, at most two episodes (transfers begun, receiver resets) | what the sender believes stored is stored, receiver and sink stay in step, an object is committed once |
| `rpc` | 2 call slots, 2 pending slots, 1 cached and 2 correlated responses, a reliable and an unreliable method, 2 sessions; client alone, server alone, and both | every call is told its end once and gets its own answer; a deduplicated request runs once per record kept; stale tokens end nothing; response slots and link transactions are not lost |
| `executor` | 2 threads, 2 job slots, 1 service and the policy; six plans, the last through a session | the owner never sleeps over work, a stopped executor and a closed session are quiet, a released link reaches the blocked client, every call and every close returns |
| `adapters` | rings of 1 or 2, up to 5 bytes or units, 1 or 2 sends, 1 fault or 2 resets; kernel with 2 call slots and 1 reply | input is handed over faithfully, a lent unit is settled once, a detached adapter is quiet, no sleep misses work, each kernel call ends once |

Why the bounds suffice: cursors wrap several times within every run and slot counts exceed the steps
that both roles can be apart; two requests give every relation between an old transaction's late
report or ACK and its successor; one retry gives an attempt with and one without budget. Three
sequence numbers with one restart reuse a sequence number under a new session. In `bulk`, two chunks
give a first, a middle acknowledgement and a short last chunk; two episodes give a transfer replacing
an ended one and a reset in mid transfer; `InFlight` counts episodes too, so the channel is widest where
one transfer is alone. In `rpc`, operations that end early leave their slots to later ones and a
cache of one is evicted by the second response, so slots are reused and responses evicted and replayed; the
composed part makes one call per session and no deadline passes in it (the separate parts have both),
which keeps it small. In `executor`, a caller, a canceller and a stopper need two threads and three
calls; the session plan makes two, so it has every pair of invoke, submit, cancel and close; two
received events give a client that sends, and another that is blocked while the first cancels. In
`adapters`, a ring of one fills at once, which is where most pause and retry paths are; the polled
UART has a ring of two, so that a batch is cut short in its middle, and one UART DMA plan has five
bytes for one-byte buffers and a ring of one, so that all of them fill, the receiver leaves and bytes
are lost.

Deadlock is checked in `data_path` and `ring_race`. The others may stop: an application need not send
again, a stopped executor stays stopped, and identities and sequence numbers are bounded.

## 4. Where code and documents differ

Violation runs state what a document or comment says and show what the code does instead:

| Run | Document | Code |
| --- | --- | --- |
| `pair_reorder` | a duplicate of an accepted packet is not exposed twice; stop-and-wait handles reordering | the duplicate record holds one sequence number, so an old copy behind a newer packet is delivered again |
| `ring_race` | normalization of the ring never makes stale bytes readable | a zero-length consume stores a cursor loaded before the normalization |
| `adapters_stop` | UART DMA stop waits for TX completion | a stop while the line drains clears the token before the drain is reported, and the link waits for ever |

More of them are stated as definitions of the modules. Each is reproduced by a configuration that
differs from one kept here as said, with the property in place of those it lists:

* `DrainGatesSubmission` (`LinkPacket.cfg`, with `Envelope = "COBS"`, `SinkResults <- Asynchronous`
  and `RxFrames <- AckAndTwoData`): `docs/execution-contract.md:128` says of the drain "It gates new
  physical submissions and the reliable ACK timer." The timer's retransmission (`protocol.c:1013`)
  does not look at `tx_drain_pending`.
* `LentSlotKept` (`UnitQueue` on its own: `UnitSpec`, `SlotCount = 3`, `UnitCursorMod = 8`):
  `docs/development.md:174-175` keeps a lent slot "outside the producer's free set until
  `wl_event_release()`". When a 32-bit cursor wraps, slot counts that do not divide 2^32 (3, 5, 6,
  7) map neighbouring cursors to one slot (`unit_rx.c:115`).
* `DuplicateAcknowledged` (`Bulk.cfg`): `docs/application-layer.md:312-319` recovers a lost Status
  by repeating the message. A transfer opened over a failed or aborted record keeps its
  `terminal_code` (`bulk_receiver.c:374`) and answers its own repeated Begin with it.
* `AsyncNoSpin` (`Rpc.cfg`, with `CallSlot = {1, 2, 3}`, `OpMax = 3`, `HandleMax = 4`): a queued
  unreliable call behind an older reliable one is reported runnable (`rpc_async.c:331`), although
  the service submits only the oldest.
* `StatusIsStored` (`Bulk.cfg`, with two objects of 1 and 3 bytes asking for chunks of 2,
  `MaxRetries = 0`, `Alignment = 1` and `InFlight = 5`): `docs/application-layer.md:308` says
  "`Status.next_offset` is the only application-level cumulative acknowledgement". When the sink fails
  a Begin, the receiver keeps the `next_offset` of the transfer before (`bulk_receiver.c:401-425`) and
  answers a later Chunk of the failed one with it (`bulk_receiver.c:474-478`), so the sender continues
  from an offset that was never stored. It takes a channel that reorders or repeats; on an ordered one
  the proof of `CompletedIsStored` excludes it. This came up as a step of that proof that failed.
* `BusyIsRetried` (`AdaptersStop.cfg`, with `DmaPlans <- NoPlans` and `AsioPlans <- MCAsioLearns`):
  `port.h:79` says "Publish transport writable after a BUSY response, then wake the owner." A UDP
  port that learns its peer (`udp_adapter.cpp:282-287`) does not, so a unit refused for want of a
  peer is not offered again by that path.

On a lossless line without a timer every request that is not cancelled succeeds: `EveryRequestSucceeds`
holds of `PatientPairSpec` (`LinkPairLive.cfg` with `AckTimer = FALSE`, `SeqMax = 2`, `RxMax = 2`,
`Faults = 0` and `SinkResults = {"SENT", "BUSY"}`).

Smaller observations made while modelling, each kept in the model as the code has it or named as left
out: `rpc_retiring_tx` of the generated runtime may be stale (`calculator_runtime.c:1376`); the 16-bit
generation of a transmit handle (`protocol.c:461-466`) repeats after 65535 sends, and a late cancel
(`rpc_async.c:231`) would then hit another transaction; a response that can never be sent stays the
oldest ready one; an overflow noted after `wl_frame_process_stream` took the count
(`protocol.c:898-911`) is acted on by the next pass only, and a frame joined across that gap is left to
the integrity check; the owner's store that ends a pause of the UART DMA receiver (`uart_dma.c:212`) may
overwrite one that began after its answer to the driver (`uart_dma.c:203`), when both buffers fill and
the receiver leaves in between: reception is then never restarted (`PauseLost`, which `AdapterAwake`
excepts); a response with a codec error leaves its call pending until the timeout
(`device_runtime.c:3420-3427`); `wl_endpoint_activate_service` marks a service without a step runnable
for good (`endpoint.c:210`); `start()` racing `requestStop()` loses that stop; the executor's feed gate is a
store-then-load pattern on both sides with acquire and release only, modelled under sequential
consistency; a USB unit answered BUSY is not retried by the adapter; re-enabling USB while `queue_out`
runs may re-arm a faulted endpoint (`usb_bulk.c:402-454`); the UART IRQ overflow note is not placed
exactly where the bytes were lost, and the polled UART notes a loss only at its next round; stopping a
DMA port drops a pending BUSY retry; the size pre-pass of `wl_cobs_decode` (`cobs.c:151`) undercounts by
one for inputs such as 03 11 22 02 33, which its only caller in the library, decoding in place, does not
notice; a unit announced with length 0 is refused without being counted as malformed.

## 5. Fairness

Fairness is assumed in two places, each a duty that the code or `docs/execution-contract.md` states:

* `pair_settles` (`LinkPair`): both owners keep polling when the readiness query says so, the
  application releases what it borrowed, adapters report what they took, deadlines come, and the line
  delivers what it still carries. It is strong since the model runs a poll to its end before another
  party moves, which disables the others again and again. `PatientPairSpec` also assumes that a
  sink offered a unit again and again does not answer BUSY for ever.
* `executor` (`Session`): the owner thread and the threads inside a call are scheduled
  (`WF(Owner)`, `WF(Proceed(t))`), the adapter's notification completes (`WF(Notify(Adapter))`), and a
  call's deadline comes (`WF(CallDue(t))`, the executor refuses a call without one). Weak fairness is
  enough, as no other thread disables these steps for good.

No fairness is assumed of requests, cancellation, answers, losses, repetitions, stops or restarts.

## 6. What is proved

TLAPS checks the theorems without unproved steps. Of the properties the passing runs check, these are
proved for every value of the constants:

| Module | Theorems (property) | About |
| --- | --- | --- |
| `MailboxProofs` | `ExclusiveSlots` (`OwnershipExclusive`), `ImplementsRegister` (`RegisterSpec`), `NewestUnread`, `StableView` | `LatestSpec`, for every value set and generation modulus |
| | `ImplementsQueue` (`QueueSpec`) | `FifoSpec`, for every capacity and cursor range |
| | `NewestIsOwed` (`NewestOwed`), `TurnIsFair` (`FairTurn`), `DepthIsExact` | `OutboxSpec`, for every number of slots and ids |
| `IngressProofs` | `UnitsStayInOrder` (`UnitsInOrder`), `LentSlotIsKept` | `UnitSpec`, when `SlotsFitCursor` |
| | `FramesAreNext` (`FrameIsNext`), `LossesAreNoted`, `LentFrameStays` | `RingSpec`, for every size, when `~ResumeEarly` |
| `LinkProofs` | `Typed`, `LineExclusive` (`PhysicalExclusive`), `NeverStranded` (`SendingIsCarried`), `BytesAreOwn` (`RetransmitFaithful`), `LeasedBytes` (`LeasedBytesStable`), `SettledStays` (`SettledIsFinal`) | `Spec` of `Link`, for every envelope, retry limit, width, ring size, sink behaviour and set of received units |
| | `NeverSpins` (`NoSpin`), `SleepLosesNothing` (`SleepIsSafe`) | `SchedSpec`: the context with its readiness query |
| `DeliveryProofs` | `DeliveryHolds` (`DeliveryImplemented`), `DeliveredOnceHolds`, `PairHolds` | `PairSpec`, two contexts and a line that loses and repeats, for every configuration and any number of restarts, when `~Reordering` |
| `BulkProofs` | `SinkStaysInStep` (`SinkInStep`), `CompletionIsTrue` (`CompletedIsStored`), `CommittedAtMostOnce` (`CommitOnce`) | `BulkSpec`, for any objects, limits, sink and channel length |
| `ExecutorProofs` | `WakeIsNeverLost` (`NoLostWake`), `ClosingIsQuiet` (`ClosedIsQuiet`), `ReleaseIsSeen` (`ReleaseReachesClient`) | `SessionSpec`, any number of threads, job slots, services and any plan |

**Assumptions.** Constants carry what the code enforces or its configuration needs, as named `ASSUME`s
in the module that declares them, evaluated by TLC on every run. They say that counts and bounds are
numbers and not 0 where the code refuses 0, that markers (`Torn`, `Blank`, `Filling`) are not values,
that FIFO cursors can tell a full queue from an empty one (`FifoCapAssumption`), that the receiver's
chunk holds one aligned write (`BulkLimits`, as `wl_bulk_receiver_init` checks), and that there are
finitely many threads, none of them the adapter (`ExecutorAssumption`). Some theorems
have a hypothesis of their own, because the code is only right under it: `SlotsFitCursor` (the slot
count divides the cursor range, see `LentSlotKept` in section 4), `~ResumeEarly` (after
`wl_rx_dma_abort` ingress resumes only when the owner has discarded, which is its documented contract
and which `ring_race` violates) and `~Reordering` (the line keeps the order of units; `pair_reorder`
shows what happens otherwise).

**The arguments.** None of these properties is inductive.

* LATEST: a consumer inside its exchange holds no view (`ViewComplete`), and a writer about to
  exchange owns a complete record with the newest generation (`StampComplete`). Ownership is inductive
  on its own, freshness is not: the exchange publishes whatever the writer's slot holds.
* FIFO: the cursors differ by the depth modulo their range, and the `depth` slots behind the read cursor
  (one more while a publish is about to store the write cursor) hold complete values. The
  abstract queue is that window of the slots; the publish step that stores the cursor is the
  abstract enqueue and every other producer step a stutter.
* Outbox: one slot per id, holding its newest generation; a slot passed over `n` times is at most
  `OutboxSlots - n` places ahead of the cursor (`PassedBound`).
* Unit queue and ring: the stored units are the window behind the read cursor. For the ring, `RingInv`
  ties the cursors to the stream of published bytes (`CursorsShow`), keeps the producer's open span
  outside what is readable (`SpanIsFree`), and says what the owner's stale snapshot, carried offsets and
  delimiter cache still mean after the producer has moved on (`SnapshotGood`, `CallGood`, `CacheGood`).
  `GapsGood` follows a loss from its note to the discard that reaches past it (`Doomed`).
* Link: `IInv` has three parts with separate frame conditions, `LineInv`, `StoreInv`, `EventInv`.
  The retry budget is needed because a failed report starts a new attempt only while retries are left;
  the cancel part because a late report under a cancelled transaction must not restart it. `Good` adds
  `BytesInv` (whose bytes `tx_unit` and `tx_payload` hold while they can still be sent) and `ToldInv`
  (the end of a handle waits in one place or has been told). `SettledIsFinal` counts reports per handle,
  so its last part is stated until handles wrap (`GenMax`). `SchedInv` carries a hint through
  the poll that follows it: while the poll has done nothing, a reason for the promise lies ahead of `pc`.
* Delivery: what a puts on the line carries the identity of its newest request, and identities only
  grow, by session and then by number. The units between a's sink and b's duplicate record are
  therefore sorted (`Pipe`) and none is below the record (`Record`), so a unit that differs from the
  record is new; and an ACK on its way speaks of a request b's application has got or will get from the
  poll under way (`AckInv`). `DeliverySteps` shows what one step of a context does to these;
  `DeliveryProofs` puts both on the line and takes the invariants of each from an instance of `LinkProofs`.
* Bulk: `RecordInv` (the records of sender, receiver, retained Status and sink agree), `StatusInv`
  (a Status that says OK to an End means a commit, wherever it is), `OrderInv` (on an ordered channel
  the receiver's identity only grows and acknowledged offsets are stored) and `OnceInv` (without a
  reset, nothing undoes a commit or an abort). A reset or a reordering channel may commit an object
  again, which is why the last two are conditional, as `CommitOnce` is.
* Executor: `WakeInv` lists, for each kind of work, what still stands between it and a sleeping owner;
  `TokenInv` ties the event's mark to its permit; `CallInv` and `BatchInv` tie calls to the admission table and to the collected batch, `FeedInv`
  counts the feeds inside the link, `Served` says that a client with something to send is marked for a
  step or will be by the release, and `GateInv` ties the session's callers and closers to the executor.

Induction over numbers is done in first order: a set of naturals with a counterexample has a least one
(`LeastNat` in `NaturalFacts`, from the library's theorem that `<` is well founded), and
`SetInduction` is its form for properties given as sets.

**Only model-checked.** Liveness (`EveryRequestSettles`, `EveryoneReturns`): fairness and `ENABLED` are
out of the prover's reach. The wire formats: they are recursive over bytes, and what a recursive
definition computes for every input would need induction over data. RPC, the adapters and the kernel:
what relates a call's slot, its transaction, its messages and its execution would need an invariant as
large as their models, and the adapters' properties are stated over plans of a bounded environment.

## 7. Not modelled

* Diagnostics (`diagnostics/`): counters and text reports, no protocol state. Statistics of all parts.
* Storage pool and platform runtime (`runtime/storage`, `runtime/platform`, `runtime/zephyr`): a sequential
  free list, and clocks and wait primitives that appear where they are used, as permits and deadlines.
* Generated code: the codec, values and RPC header of the device SDK are modelled, and the receive and
  send paths of the calculator runtime inside `Rpc`. Other generated schemas repeat them. No schema
  of the repository has repeated fields or a binary lookup, so those branches of the codec are left
  out. The generator is not part of the source tree.
* Executor: the variant with a platform waiter, result values of calls, the stored stop error. Session:
  value conversions of the typed headers.
* Weak memory effects, arithmetic overflow of 64-bit generations and the millisecond clock's wrap.
* Liveness of bulk, RPC and adapters: these parts give up by timers and budgets that the application's
  schedule drives, and the models let any of them elapse at any time.
