# Formal models of yacob

TLA+ models of the `yacob` CANopen stack, checked with TLC and, in part, proved
with TLAPS. File paths below are relative to the repository root.

## 1. The system

`canopen-core` is a CANopen library that is polled: an application owns a
`Node`, calls `process()` again and again, and between two calls uses the object
dictionary (OD) and the node's queues. `canopen-derive` generates the OD, its data
sheet (EDS) and, on the host, a typed client from the sheet. Around them are a
host-side SDO client, a shared bus for several users of one CAN interface,
bridges (WebSocket, SLCAN), firmware updaters that are built on a node, and the
tools that drive them.

| Part | State | Meets | Hard behaviour |
|---|---|---|---|
| Node loop (`node.rs`, `nmt.rs`) | NMT state, boot flag, queues, configuration in force | everything below, transport, clock | NMT commands and resets inside a receive batch; a transport that refuses single frames |
| PDO engines (`pdo/engine.rs`) | triggers, inhibit and event timers, buffered RPDOs, deadlines | node, SYNC, OD | a trigger kept until a frame is accepted; reconfiguration with work pending |
| SYNC (`sync.rs`) | producer timer and counter, window | node, PDO | a refused pulse, retries inside the window |
| Heartbeat (`heartbeat.rs`) | producer interval and timer, monitors | node | refusal, a changed interval, boot-up in the middle of monitoring |
| SDO server (`sdo/server.rs`) | one transfer per channel, one owed response | node, OD, client | refused responses, silent clients, state locks across a transfer |
| EMCY (`emcy.rs`) | register, bounded queue | node, OD 0x1001 | eviction, partial clears |
| Events (`events.rs`) | two bounded queues, one overflow count | node, application | eviction counting in six places |
| COB-IDs (`cobid.rs`, checks of `node.rs` and `sdo/server.rs`) | the identifiers of every service | all services | identifiers rewritten one at a time |
| SDO client (`sdo/client.rs`, `sdo/driver.rs`) | transfer state, deadline | server over the bus | late answers, lost aborts |
| Shared bus (`bus.rs`) | subscriptions, transmit queue, wakers | threads and tasks | lost wake-ups, overflow, a pump that stops |
| LSS slave (`lss.rs`) | mode, selective step, event slot | node | order of selective requests |
| Demultiplexers (`can_router.rs`) | bounded buffers | SDO client | frames put aside during a wait, overflow |
| Macros (`canopen-derive`), `dcf.rs` | definition, dictionary, data sheet, generated client | device and host | four translations of one declaration that have to agree |
| canwsd (`tools/canwsd`) | drop buffer, filter, timers | socket, WebSocket | notification permits, filter change with frames buffered |
| WebSocket transport (`canopen-linux`) | queues with ages | background thread | stale frames, joining drop |
| SLCAN (`slcan/`) | line buffer | serial port | over-long and cut lines |
| EMDM updater (`examples/emdm-fwupdate`) | metadata log, slot, session | node, flash, host tool | power loss anywhere, failing flash, stray commands |
| F767 updater and its tool (`examples/f767-canwsd-fwupdate`, `tools/canopen-fwupdate`) | journal, two images, tool state | flash, SDO, WebSocket | power loss, a full journal, interrupted runs |
| F767 WebSocket server (`common/src/ws.rs`) | header progress, channels | TCP, node | a header that arrives in pieces |
| SDO panel (`examples/canopen-egui`) | queues, active request | thread or browser loop | late answers, silent servers |

`PROJECT.json` lists every part with its status, and the hazards of each at the
line where they bite.

## 2. Modules and the code

### The node

**`Node`** models `process()` with one action per stage: `Boot`, the start of a
poll, `Dispatch` of one frame of the receive loop, SDO service channel by
channel, SYNC production, TPDO retry, control (deadlines or leaving
Operational, heartbeat, monitors), EMCY, TPDO. `process()` has exclusive access
to the node, so the application's calls are actions of the time between two
calls (`pc = "idle"`); frames may arrive during the receive loop. Each
transmission is accepted or refused, freely, as `nb::Can` allows. The clock is
read once per call; times are ages that grow at `Tick`, up to the largest value
anything is compared with.

The component operators have modules of their own: `PdoOps` (`pdo/engine.rs`),
`SyncOps` (`sync.rs`), `HeartbeatOps` (`heartbeat.rs`) and `SdoChannelOps`
(`PendingSdoTx` and the server's transfer life cycle). A value is a member of a
small set; a TPDO carries what it sampled. The server's answer to a request is
any answer the code can give to a frame of that kind in the transfer's state;
which one depends on message fields that are left to `SdoTransfer`.

`odcfg` is what the OD holds of the configuration, `tcfg`, `rcfg` and `hbInterval`
what is in force: a download re-reads its part of the OD (`ResyncPdo`,
`ResyncHeartbeat`, `ResyncSync`), a reset all of it, and what the application writes
(`OdMutConfig`) waits for one of them. The event queues are their lengths. Each
loop that adds to them is `Pushed`, one turn of which is `PushOne`; an RPDO adds an
event for each entry it maps. `overflow` is `event_overflow_count`, added to as each
place does it: by what the loop dropped, or, for a download, by the fullness before
the request (`PushDownloadEvent`). `missed` is a history variable that knows nothing
of this: it is what a step produced less what it left in the queues.

**`Emcy`** models `EmcyProducer`. `reg` is the register as a set of bits,
`pending` the queue; `SetError`, `ClearError` and `ClearAll` are the three calls,
`Transmit` is the loop in `process()` that offers frames until one is refused.
Reports are numbered by a history variable, which `MaxRaised` bounds.

**`Lss`** models `LssSlave::process`. A selection request is the place of its
field in the identity and whether it matches; `heard` is a history variable.

**`CobIds`** has the predefined connection set and `CobId::parse`; **`CobPlan`**
the checks of `Node::new` on a static configuration, the checks of the SDO server
on writes to the objects that hold identifiers, and `dispatch_frame` as a function
of identifier and length. Its RPDO frames are longer than one byte: a one-byte
RPDO on a monitored heartbeat identifier is taken for the heartbeat. An RPDO may
be put on the LSS identifier, which nothing forbids and `ServicesReached` excludes.

**`SdoServerOps`** and **`SdoTransfer`** model one SDO channel end to end.
`SdoServerOps` has one operator per handler of `sdo/server.rs`, from the transfer,
the request and the object dictionary to the set of possible outcomes; it keeps
toggle bits, sizes, sequence numbers and acknowledgements. `SdoTransfer` adds the
client (`ProcessResponse` and its handlers), the driver (`BeginUpload`,
`BeginDownload`, `Receive`, `Timeout`) and the node's response slot (`Handle`,
`SendOwed`, `DropOwed`, `CheckTimeout`, `PollBlockUpload`). A transfer may be given
up at any moment, its abort may not be sent, and its late frames are found by the
next one. A block segment has no command specifier, so a frame that arrives in
the wrong phase is read with whatever meaning its bits can have (`Readings`,
`StraySegment`, `ResponseReadings`). The repository has no client for block
transfers; the one here follows CiA 301. `hist` is a history variable: what was
in the channel when the transfer began, what its object held and what was
written to it since.

### A declared device and its generated host

**`OdDefs`** is a declaration as `dsl.rs` accepts it; **`GeneratedOd`** the
dictionary that `codegen.rs` generates (new, read and write arms, PDO
configurations); **`PdoCodec`** the bits of a payload on the device and in the
client; **`EdsFile`** the data sheet as `eds_export.rs` writes and `eds_parser.rs`
reads it; **`RemoteClient`** the PDO codec and SDO methods generated from the
sheet; **`Dcf`** the configuration file reader of `dcf.rs`. **`DeviceLink`** composes
them: the device's application sets values, the host exchanges PDOs and SDO
transfers with it, a tool reconfigures the PDOs, a configuration file is
loaded. `MCLink` has the scenarios: types of all widths mapped with fewer
bits than they have, records and arrays with an additional SDO server, two TPDOs
whose identifiers coincide, mappings a tool rewrites, and a vendor's sheet with
padding and a PDO that is off.

### Buses and bridges

**`SharedBus`** models `bus.rs`. A channel is a subscription's queue or the
transmit queue; its users are threads, which wait on a condition variable, and
tasks, which leave a waker. One step is one critical section: a user's try
(`ThreadTry`, `TaskPoll`, `TaskRecheck`), `Register`, the `Publish` that locks the
list of subscribers, a `Push` to one of them, `TakeWakers`, `Unlock`, the loop
that wakes (`Wake`), `PumpPops`. So a publisher may stand between its push and
the wakers it takes while users come and go. A thread may wake by itself, a
future may be dropped and leave its waker behind, a task may be polled without
having been woken. `owed` and `last` are history variables: the frames a
subscription is answerable for, and the last one received.

**`CanRouter`** models `CanDemux`, `SdoPort` and `HeartbeatPort`: a call that waits
for one kind of frame puts the others aside in bounded buffers.

**`Slcan`** models the frame codec of `slcan/logic.rs` character by character (the
property is about what a line decodes to), the receive buffer of
`slcan/serial.rs` with its discard mode, the opening dialogue of the Linux port
and the browser's buffer. The adapter is external.

**`DropBuffer`** models canwsd's buffer with the stored permit of its `Notify`;
**`Canwsd`** the loop `run_client` of `bridge.rs` with filters, pings and write
timeouts; **`CanwsdAttach`** the three futures of `canwsd attach`.

**`WsTransport`** models the WebSocket transport of canopen-linux: a queued frame
is its age, a tick does not pass a timer that is due.

**`WsServer`** models the server of the F767 boards, which gives a header 2 ms and
resumes it where it was.

**`SdoPanel`** models the request engine of the desktop tool with its two backends,
the native thread and the browser's poll.

### Firmware update

**`MetaRegister`** says what the update metadata promises: a register that
survives power loss. **`MetaLog`** is the EMDM log that keeps it: a page of slots
that are erased, hold a record or hold anything else; `append_meta` is `Start`,
`Erase` when no slot is free, `Write`; power may fail in each, and each may report
an error. Sequence numbers are modulo `SeqRange` and compared as the code does.

**`FwUpdate`** models the boot decision, the EMDM updater and the application's
request to enter it, with the register in place of the log. An SDO write is
checked by `check_write` and stored, and an event is queued; `handle_changes`
takes events later and does the flash work in steps (`Push`, `Clear`, `Erase`,
`Finish`, `Verify`, `Mark`, `Fail`), each of which may fail or lose power
half-way. A word or a page that was cut reads as junk, or as before, or as
intended. A CRC is the byte sequence it was taken over.

**`F767Update`** models the F767 updater, its journal, its two images and the host
tool, one SDO per step. The journal is never compacted; when it is full every
update fails, with nothing marked valid that is not. A request that is applied and
not answered is the request's step followed by `ToolGivesUp`.

`MCNode`, `MCFwUpdate`, `MCSharedBus` and `MCLink` hold constants of the runs;
those of `SdoTransfer` are at its end. `MCQueues` gives the node SDO traffic in some
behaviours and traffic that produces events in the others. `MCParts` and `MCProgress`
put several components that share no state into one run each: `part` says which of
them a behaviour is of, the others stand still. `MCParts` has those that are checked
for safety only, `MCProgress` those with liveness.

## 3. Runs

| Run | Question | Properties | Bounds |
| --- | --- | --- | --- |
| `node_queues` | Does the abort of a timed-out transfer ever replace a response, under refusals, aborts and resets in one batch? Does `events_dropped` tell what the application lost? | `TimeoutAbortReplacesNothing`, `EvictionsCounted` | two channels, two block segments, timeout of two ticks; event queues of one, an RPDO that maps two entries with a deadline, immediate or synchronous, one monitor, a counter that saturates at two |
| `node_sync` | What do synchronous PDOs sample, and do the cycle counters follow the pulses the bus saw? | `NoPdoWorkOutsideOperational`, `SamplesOfLastPulse`, `CountersFollowBus` | an acyclic or cyclic TPDO, one synchronous RPDO, a window of one tick, an external producer or the node's own, which a client switches |
| `node_events` | Is a trigger ever lost? | `TriggersKept` | two event TPDOs with inhibit time and timer, a deadline, configurations that clients and the application change |
| `node_life` | Which frames leave around boots and resets? Does the node boot again, free its channel, go on with its heartbeat? | `ServicesPermitted`, `BootsAgain`, `ChannelFreed`, `HeartbeatsContinue` | a heartbeat interval that clients and the application change between 0, 1 and 2 ticks, EMCY, one channel; fairness below |
| `node_lock` | (violated) Are PDO parameters locked while Operational? | `PdoConfigLockedInOperational` | one channel |
| `fw_update` | Is what is marked valid verified, whatever fails, with a host that waits for its answers or not? | `ValidMeansVerified`, `StatusTellsNextBoot`, `BootableUntilCleared` | words of 3 bytes, two pages, images of 3 to 5 bytes: a carried tail, a padded word, an unused page; an event queue of 2, so that events are evicted and handled with later values |
| `fw_tail` | (violated) Is the tail of each chunk carried over? | `TailCarriedOver` | chunks of one byte |
| `shared_bus` | Is a wake-up ever lost, or a frame dropped without being counted? | `NoThreadForgotten`, `LossesCounted`, `WaitersServed` | one subscription of capacity one or two and either policy, two threads and a task on it, a sender on the transmit queue, the pump and an application as publishers, two frames: both publishers can be between push and wake at once |
| `sdo_transfer` | Is a completed transfer real, an aborted one without effect, and the server released? | `OutcomeIsReal`, `NoMixture`, `NoDisagreement`, `ChannelReleased` | two transfers, two disturbances (a frame lost or refused, a reset, a change by the application); segments of two bytes and sub-blocks of two, an expedited object and one of two segments, the second padded; two values no mixture of which is a value |
| `parts` | Nine components, each with its own safety property | below | below |
| `progress` | Four components, each with liveness | below | below |
| `ws_drop` | (violated) Does dropping the WebSocket transport cost at most `close_timeout`? | `DropCostsCloseTimeout` | three queued frames, a lifetime of three ticks, a close of two |

The bounds of `parts`:

| Part | Property | Bounds |
|---|---|---|
| emergencies | `BusNeverUnderreports` | two categories, queue of 2, 6 reports: every queue is filled and evicts |
| LSS | `SelectedByWholeIdentity` | any sequence of requests; valid, invalid and unconfigured node IDs |
| identifiers | `ServicesReached` | a TPDO, an RPDO, an additional SDO server, two monitor entries for one monitor; identifiers of every service, free ones, zero |
| F767 | `RecordedIsStored`, `ReportIsTrue` | a journal of three slots that fills, words and chunks of two bytes, one fault at any step, a tool that gives up anywhere |
| board server | `SessionFaithful` | two sessions, channels of one, two messages each way, headers in pieces |
| SLCAN | `FramesAreWholeLines` | a buffer of 12 characters, two lines, reads of one, four or all characters: lines are cut, joined and too long |
| router | `RoutedInOrder` | four frames of every kind, buffers of one to three |
| WebSocket transport | `NothingStale` | queues of three and two, a lifetime of three ticks |
| device link | `LinkAgrees`, `ActiveMappingLegal`, `DefaultsAgree` | the five scenarios; every setting of the application's values, every order of the tool's downloads |

`progress` checks the metadata log with three slots and numbers modulo 16, so that
the page fills, is erased and the numbers wrap (`IsRegister`, that it implements
`MetaRegister`, and `LogKeepsRecording`); the SDO panel with three requests, one of
them for no valid node (`OutcomesRight`, `RequestsAnswered`); a connection of canwsd
with a buffer of two, a kernel filter list of one, three frames and one command
(`FilterExact`, `ConnectionEnds`); and attach with buffers of two and three frames.
`LossAnnounced` and `NothingLeftAsleep` are about the drop buffers of both: what is
pushed is read, although `select!` drops the wait of the bridge with the permit it may
hold, and although nothing but a permit or a wake-up ever makes attach look. A client
of the bridge that wants error frames starts with an empty filter list; its command may
set any other.

An event-queue capacity of one makes every second event an eviction, and an RPDO
with two mappings evicts its own first event; larger queues only delay it. A single
waiting frame is enough for batches, because a new one may arrive after each dispatch. Two SDO transfers are what it takes for
one to meet the remains of another. Deadlock is not checked in runs whose
behaviours end when the bound on their inputs is used up (`sdo_transfer`, `parts`,
`progress`) or whose program ends (`ws_drop`).

`OutcomeIsReal` is stated for a transfer that found the channel empty, `NoMixture`
also for one that meets the remains of a single other: with the late frames of
two, answers cannot be told apart, as the repository's list of known issues says
itself. Block downloads without a CRC are excluded from `NoMixture`, since nothing
in them tells a stray frame from a segment. In the panel, a late answer about an
object may complete the next request for the same object (`sdo.rs:97`), and
`OutcomesRight` allows it. `LinkAgrees` asks for names that stay distinct in the
sheet (see section 6). In `progress`, opening the kernel filter does not fail
(`FailingCalls`); see section 6 for when it does.

### Disagreements with the repository's own words

* `node_lock`: the lock on PDO parameters is checked when a download starts; its
  last segment commits without a second look. `sdo/server.rs:163` says they are
  locked while Operational.
* `fw_tail`: `Programmer::push` forgets the carried bytes when a chunk does not
  complete a word. The checksum rejects the image, so this costs an update and
  never a wrong boot. The F767 updater has the same code; the tool's chunks of 256
  bytes do not reach it.
* `ws_drop`: the thread writes what is queued before it closes, each frame for up
  to the rest of its lifetime. `websocket_transport.rs:253` says that the close is
  all that remains to be awaited. `DropBounded` is what does hold, and is proved.

## 4. Fairness

`node_life`: the application goes on calling `process()` and each call ends (weak
fairness of the stages, receive errors aside), the clock advances, and a
transport that is offered boot-up messages and heartbeats again and again takes
some of them (strong fairness). Nothing is assumed of SDO responses: the channel
is freed by the timeout.

`shared_bus`: a thread that was notified, a task that was woken and a publisher in
the middle of `publish` go on (weak fairness); a thread asleep or a task not woken
is owed nothing, and neither is the pump, so that being served rests on the
wake-ups alone.

`sdo_transfer`: deadlines pass, the node is polled and its clock advances (weak
fairness of the driver's deadline, of the handling of requests, of the response
slot and of the server's timeout); nothing is assumed of the delivery of a frame.

`progress`: for the log, power and flash work now and then for as long as one step
takes (strong fairness of each step), which is what any device that is ever
updated has. For the panel, the thread or the browser's poll goes on, and a
request that stays unanswered reaches its deadline. For the bridge, the select loop
takes each ready branch again and again (`tokio::select!` polls its branches in
random order), the ping interval elapses, and a write ends or times out. For
attach, a woken future is polled. Nothing is assumed of the peers or of the bus.

## 5. Proofs

For every value of the constants that the named assumptions allow. A part has its
theorems, its inductive invariant and the lemmas about its operators in one
place; three modules hold several parts that share no state.

**`NodeProofs`**

* `NodeServices` (every frame leaves in a state that its service is available in,
  responses before their timeout, synchronous TPDOs inside the window),
  `NodeLeavesNothingBehind` (no PDO work outside Operational, no SDO work outside
  the active states, boot flag and NMT state agree) and `NodeKeepsResponses` (a
  timeout abort replaces no owed response). The invariant has four layers, each
  proved with the help of the ones before: `LifeInv` (life cycle), `SdoInv`
  (channels: an owed response is never younger than its transfer's last activity,
  and none is stale after the start of a poll), `PdoInv` and `OutInv`. The layer on
  channels is what `ServicesPermitted` alone lacks: that a response is young when
  it leaves follows only from what the start of the poll did.
* `NodeSamplesLastPulse`: the property is inductive as it stands, since a pulse
  samples every pending TPDO again or gives it up.
* `NodeCountsEvictions`: `overflow = missed`, for any capacities, mappings and width
  of the counter. `PushedOK` is about the loop: after k pushes the queue is full
  or holds k more, and what was dropped is exactly what no longer fits. `PushDownloadOK`
  is about the download, where the fullness before and the commit after have to agree
  with what `push_event` did in between. `EventInv` adds the bounds of both queues (one
  that were longer than its capacity would grow without evicting), `ConfigInv` that
  mappings and monitors are well formed, so that the numbers of events are numbers.
  Rpdos and monitored nodes are finite (`FiniteAssumption`; they are arrays), because
  a SYNC may commit all of them and a call may find all of them expired.
* `NodeCountersFollowBus` and `NodeKeepsTriggers`, which are action properties. `TpdoNext`
  says what any step does to the TPDO engine: it raises triggers, or the node leaves
  Operational, or it is a pulse, or the transmit stage (`TpdoStep`). The two theorems
  look only at these cases.

**`FwUpdateProofs`**: `FwValidMeansVerified`, `FwStatusTellsNextBoot` (with the
one-shot request) and `FwBootableUntilCleared`, for a host that waits for its
answers (`Pipelined = FALSE`). The invariant `Typed /\ Placed /\ Recorded` says
which metadata record is in force at each point of the updater, in particular
that it is invalid from the clear to the mark, so that nothing written in
between can matter.

**`F767Proofs`**: `F767RecordsWhatIsStored`, for any files, any journal capacity and
any range of sequence numbers of at least four (`SeqSpanAssumption`; the code's are
u32). `RecordedIsStored` is not inductive. `F767Inv` adds `Stored` (the slot being
programmed is not recorded as valid, or a chunk could spoil it), `Session` (the
updater's RAM copy is the record in force, or an append would bring back an old
one) and `Pending` (what the updater has not handled yet: a VALIDATE is never queued
behind a chunk or a CLEAR, because the tool waits for the effect of each). The
record in force is a scan of the journal that compares sequence numbers modulo
their range. The proof that an append puts its record in force needs no bound on the
journal: the scan of the longer journal is that of the shorter one and one more
comparison, with a record whose number is one ahead of the newest, however often
the numbers wrapped around.

**`SharedBusProofs`**: `BusForgetsNoThread`, `BusForgetsNoTask`, `BusKeepsOrder`,
`BusCountsLosses`, `BusTyped`. The invariant `BusInv` adds to them `Structure`
(who holds the lock; a dropped subscription is empty and unused), `Ordered`
(whatever a subscriber has is older than the frame on its way to it, which
only the lock of the list gives) and `Reachable` (the waker of a task about to
wait is in its channel, in a publisher's hands, or woken). The number of frames
published is arbitrary.

**`CanwsdProofs`**: `CanwsdFilterExact`, unless `set_filter_accept_all` fails,
`CanwsdLossInOrder`, and `LossesAnnounced` for the bridge and both directions of
attach. The first needs that the kernel's filter accepts at least what the client's
does and that the test in the loop is on whenever it accepts more (`KernelInv`); the
others that the items in a buffer are numbered consecutively and the losses not yet
reported lie right before them (`Counted`). The lemmas on push, next and close are
about any buffer, and serve all three.

**`OrderProofs`**

* `LogIsRegister`: the metadata log implements `MetaRegister`; every step of the log
  is one of the register or leaves it as it was. `LogInv` says that free slots lie
  behind all records and that from one record to a later one the sequence number
  grows by at least one and by at most two for each slot (two where a write failed),
  so that the scan finds the last record (`ScanFindsLast`) although numbers wrap
  around. This holds because the slots are few against the range (`SlotsAssumption`). While a write is
  under way the record to be written is ahead of the last one in the page, and the
  updater's RAM copy is at most one ahead of it.
* `RouterKeepsOrder`: `RouterInv` says of each buffer that it is in order and behind
  what was handed on of the same source (`QueuesInv`), that buffers keep frames of
  different kinds (`KindsApart`), and that a call which waits found nothing of what
  it waits for in its buffer (`CallInv`): without the last, a frame from the bus could
  overtake one that was put aside. It takes the target of a port to be a node
  number and the capacity to be a natural number (`TargetAssumption`,
  `CapAssumption`).

**`ServiceProofs`**

* `EmcyReporting`, `EmcyAccounting`, `EmcyTypeCorrect`. The inductive invariant is
  the conjunction of the proved properties and a bound on the report numbers in
  use, without which order is not preserved.
* `LssSelection` and `LssInformed`. `Progressed` ties the step counter of a
  selection to the requests heard: at step n the last n of them were the first n
  words of the identity.
* `PlanServicesReached`. The invariant has a part for each kind of identifier
  (`ExtraInv`, `SyncInv`, `MonitorInv`, `PdoInv`): each says from which others it is
  kept apart, because every write is checked against the others as they are at that
  moment.

**`WsProofs`**

* `WsNothingStale`, from the fact that a timer which is due stops the clock
  (`TimersHold`), and `WsDropBounded` for a thread that runs as soon as it can
  (`Prompt`): every frame still queued while Drop waits is at least as old as the
  wait is long (`DropInv`), so that all of them together cost at most one lifetime.
* `SessionIsFaithful`: `WsServerInv` counts pieces. What is left of the client's
  stream, the messages read to their end and the pieces read of the next add up to
  all that was said (`Stands`), so a header that is resumed is the header that was
  begun; and the frames the node has or will take are the classic ones of the
  messages read (`Delivered`).

Induction. The library's induction theorems take the property as an operator, which
the installed provers cannot instantiate. Where a proof needs induction over slots,
records or frames, the property is a set of numbers instead, and the lemma `Least`
(a non-empty set of natural numbers has a least element, from the well-foundedness of
<) is applied to the set of those that lack it: `SlotInduction` of `OrderProofs` and
of `F767Proofs`, `PushedOK` of `NodeProofs`. With it the two scans and the loop that
fills a queue, which are recursive functions, are shown to exist and to return what
their invariants say.

Some properties are proved and not part of a run: that frames keep the order of
publication, that no task is forgotten, that no SDO work is left outside the
active states, that an update request is one-shot, `ApplicationInformed` and
`DropBounded`.

Only model-checked:

* liveness (temporal reasoning under fairness is outside the prover's reach);
* the pipelined host of `FwUpdate`;
* `ReportIsTrue` of `F767Update`. It is not true for every set of files: when the
  board resets between the tool's selection and its length, the selection falls back
  to the firmware, and the web image that follows is refused only because it has no
  plausible vector table. The proof would need that as an assumption on files, which
  nothing in the code gives;
* `Slcan`, whose codec is written with recursive operators;
* `SdoTransfer`, `SdoPanel` and the device link.

## 6. Met while translating

Behaviour of the code that a reader of the models should know and that no run
reports as a disagreement.

* The receive loop continues after the reset it dispatched and drops what follows,
  where `node.rs:989` says that frames behind a reset stay queued.
* A declared image length is in force at once, where the updater's comment speaks of
  the next clear; `ValidMeansVerified` holds all the same.
* An overflow of the event queue may evict the only event of another entry; the
  overflow count tells that something was evicted, not what.
* A send on the shared bus may wait for ever after the pump stopped, as
  `bus.rs` documents.
* canwsd: when `set_filter_accept_all` fails the kernel filter set before stays, and
  frames the client asked for are missed, where the comment at `bridge.rs:24` says
  that every failure path falls back to accept-all, "never to over-filtering". The theorem on filters has it as a premise.
* F767: when the write that clears an update request fails, the RAM copy of the
  record keeps `update_requested`.
* Macros: complements in unsigned or boolean defaults (`!0`, `!true`) are exported
  as negative decimals that the EDS import and the DCF reader refuse; a boolean
  default `0x1` is refused by the first and accepted by the second; defaults given
  as a path are exported empty; a string without a default is imported as `0`.
* Macros: mappings are resolved by field name, so that objects of one name get the
  type and address of the first in the client; a mapping into an imported array is
  lost; additional SDO servers are exported and imported as plain records.
* `$NODEID+0x80000180` is a PDO that is off for the client and on for the generated
  device, which cuts off the flag bits.
* Dynamic mappings: an RPDO entry of 0 bits clears its object at every reception, a
  TPDO entry of more bits than its object is accepted and the PDO never built.
* The client's codec refuses mapped 64-bit integers.

## 7. Not modelled

Node: the wrapping of the 64-bit clock, the embassy event signal and `SharedNode`,
and what the application writes to 0x1016 or to identifiers behind the SDO server's
checks. In the
shared bus, a waker that polls its task inside `wake()` and a filter that calls the
bus; a lock is never poisoned. `clear_overflow` of the demultiplexers.

SDO transfers: segmented and expedited downloads without an indicated size,
responses that are not eight bytes long, a caller's buffer smaller than the
client's, sequence numbers of 32 and more (whose bits alias further commands), and
two clients at the same time. In the SDO panel, NMT commands that share its transmit
queue.

Flash: a driver that reports an error for a write that did land, and a page that
reads differently at two times. F767: a request of a tool that gave up and that
arrives after its successor's; the less than 1 ms in which the board's server drains
its channel between two sessions.

Macros: text syntax, time literals of the DSL, values of PDO parameters that do not
fit their wire type, the typed change enumeration and its hooks (`validate_write`),
the error register field, floating-point and 64-bit types, capacity overrides, and
the spelling of names. The objects of the scenarios are declared in ascending
order, which is the order of the writes of a DCF.

Transports that are one system call or one callback per operation (SocketCAN, UDP,
the browser's canwsd port), the layout of canwsd's wire format, command lines,
the listing of interfaces, user interfaces, `canwsd-dump`, the STM32 examples and
the hardware tests: there is no state in them that a model could say more about
than the line of code itself does. `stm32-fwupdate` is the updater of the other two
examples with flash operations that are stubs.
