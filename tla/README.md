# Verification of the pool controller firmware

TLA+ models of the ESP32 pool controller in `src/main`: what runs concurrently
in it, what can be lost, cut short or reordered, and what must hold all the
same. TLC checks the models on small instances, TLAPS proves the main safety
properties for all values of the constants. Line numbers refer to the sources
at the commit next to this directory.

## 1. Inventory

The firmware sits on a half-duplex bus between a pool Touchscreen, its
controller and their devices. It reads every frame, keeps a picture of the pool
(`pool_state_t`), mirrors it to Home Assistant over MQTT, sends commands, serves
a web page, bridges the raw bus to one TCP client and updates itself.

| Component (src/main) | State | Operations | Module |
| --- | --- | --- | --- |
| bus access (`bus.c`) | stash, echo state machine, stream offset, `s_tx_lock` | `bus_read`, `bus_send_bytes`, called by five tasks | `Bus`, `LineAccess` |
| framing (`framing.c`) | reassembly buffer | `framing_add_bytes`, `framing_process_next` | `Framing`, `FrameFormat`, `FrameParse` |
| tcp bridge (`tcp_bridge.c`) | one client, its mutex, last line sent | accept, RX loop, TX, log mirror | `Framing` (RX), `TcpBridge` (rest) |
| message decoder (`message_decoder.c`) | `pool_state_t` under a mutex | about 70 frame handlers, expiry of readings | the `...Entities` modules, `RegisterRequester`, `PoolCommands` |
| mqtt publishing (`mqtt_publish.c`) | last published state, discovery flags | one publisher per entity, from snapshots | the `...Entities` modules |
| mqtt client (`mqtt_poolclient.c`) | connected flag | connect, disconnect, data | `HeaterEntities`, `Retained`, `EntityReset` |
| mqtt discovery, entity reset (`mqtt_discovery.c`) | reset slots and two atomics | discovery on connect and first use, reset task | the `...Entities` modules, `EntityReset` |
| mqtt commands (`mqtt_commands.c`) | none of its own | one command per topic | `PoolCommands`, `RegisterRequester`, `ChannelEntities`, `FavouriteEntities` |
| register requester (`register_requester.c`) | queue, attempts per register | task, request, rescan | `RegisterRequester` |
| energy, power (`channel_energy.c`, `channel_power.c`) | totals, ticks; watts in flash | sampling task; set by the user | `EnergyMeter`, `ChannelEntities` |
| firmware update (`firmware_update.c`) | status, `s_op_lock`, tag of the install | check task, install task, four calls | `FirmwareUpdate` |
| usage report (`usage_report.c`) | two flags, install ID, their copies in flash | switch, run, init; server `api/worker.js` | `UsageReport` |
| web log (`web_log.c`) | ring, dropped count, viewers | append, sender task, HTTP sends | `WebLog` |
| wifi (`wifi_provisioning.c`) | retry count, offline time, portal flag | event handler, retry timer, supervisor | `WifiProvisioning` |
| web server (`web_handlers.c`) | none of its own | pages, calls of the others | as caller only |
| unknown buffer, LED, captive DNS, boot (`main.c`) | small tables | update, read, evict | none, see section 5 |

What is hard here, and what correct means:

* **bus**: the reader and a waiting sender both advance one receive stream and
  one echo check; offsets wrap at 32 bits; the stash fills while its reader is
  busy sending; collisions and driver timeouts happen mid-frame. Correct: one
  transmitter, an echo verdict that is true of what was on the line, no index
  outside the frame, retries only after a collision, every call returns.
* **framing**: reads cut frames anywhere, damaged frames contain good ones, the
  buffer is finite. Correct: exactly the good frames, once, in order.
* **tcp bridge**: any task may log while the client's socket is closed and its
  descriptor given to somebody else; the client's lines come back as echoes
  among other frames. Correct: log lines go to the client or nowhere, each line
  is decoded once.
* **entities**: registers, names, states and types arrive in any order; two
  tasks publish; connections drop and the device restarts, while the broker's
  retained messages stay. Correct: what the broker shows is what the device
  knows now, with the right names and options, and nothing that is not there.
* **requests and commands**: a device applies a write some time after it was
  heard; frames get lost; panels change the same settings; equipment comes and
  goes. Correct: every register that something answers becomes known, a
  read-back sees what was written, the mode ends as asked, a command changes
  what it names and nothing else.
* **energy**: the tick counter wraps and passes are skipped. Correct: every
  tick is counted once, and what is shown is late by an interval at most.
* **firmware update**: four tasks, one lock handed from task to task, a status
  copied and published later. Correct: operations exclude each other, the right
  release is installed, whatever is begun ends.
* **usage report**: two flags shared without a lock, flash keys written one at
  a time, lost requests and replies. Correct: one install per device, an
  opt-out that is final, no data left behind.
* **web log**: appending never blocks, batches cut lines and get lost, viewers
  come and go. Correct: a viewer sees every line or a count of what it missed.
* **entity reset**: two atomics and a list between three tasks. Correct: what
  was listed in time is retracted, nothing else is touched, no slot is read
  that holds nothing.
* **wifi**: three tasks decide about one station from variables that follow the
  driver's events late. Correct: the device is reachable again and again, and
  heals when the network does.

The hazards with their lines and properties are in `PROJECT.json`; the smaller
ones that no property covers are listed in section 3.

## 2. Modules

| Module | What it is |
| --- | --- |
| `Bus` | `bus.c`: every step of `bus_send_bytes` of several senders, `bus_read`, the UART |
| `LineAccess` | what `bus.h:20-26` promises callers of the line, its echo, retries and outcome, without bytes; `Bus` implements it (`KeepsLinePromise`) |
| `FrameFormat` | the frame format: pure operators for checksum, length, end byte, type |
| `FrameParse` | what `framing.h` promises: the frames of a stream, one after the other |
| `Framing` | `framing.c` with the receive loop of `tcp_bridge_task`; implements `FrameParse` (`ParsesStream`) |
| `TcpBridge` | the client, the log hook in every task, the lines sent and their echoes |
| `HeaterEntities` | heater handlers of the decoder, their publishers, connection events, retained messages |
| `Retained` | the broker: messages retained per topic, dropped without a connection |
| `Entities` | what the families share: decode, then publish in order; connection, restart |
| `LightEntities`, `ValveEntities`, `ReadingEntities` | light zones; valves; chlorinator, temperatures, service mode |
| `FavouriteEntities` | favourites and modes, with the MQTT task's discovery on connect |
| `ChannelEntities` | channels, filter pump, solar, channel power, in two publishing tasks |
| `EntityFamilies` | light zones, valves, favourites with the mode, readings, and channels, one of them in focus |
| `RegisterRequester` | the requester's task and queue, setpoint and mode commands, decoder, bus, devices |
| `PoolCommands` | every command that is a frame, to the device and back into the pool state |
| `EnergyMeter` | the meters of channels, pump and system baseline |
| `FirmwareUpdate` | check task, install task, callers, lock, status, publishing |
| `UsageReport` | `usage_report.c`, its flash keys and `api/worker.js` |
| `WebLog` | ring, marker, sender task, viewers |
| `EntityReset` | the reset task, two buttons, the MQTT task that lists topics |
| `WifiProvisioning` | event handler, retry timer, supervisor, rescue portal |
| `MC...` | instances for TLC |
| `...Proofs` | theorems, by component |

How the models correspond to the code:

* **Bus.** `rx` is everything received since boot; the stash and the driver's
  ring buffer are windows of it, so `pulled` and `handed` stand for both.
  `Observe` is `echo_observe_locked()` on the wrapped offset, with the signed
  difference. The lines of `bus_send_bytes()` between two interruptible points
  are one action: `TakeLock`, `Listen`, `Quiet`/`Busy`, `Arm`, `Write`,
  `TxDone`/`TxTimeout`/`WriteError`, `EchoDecided`/`EchoUndecided`, `Retry` or
  `Conclude`, `Unlock`. A deadline may pass at any poll. A foreign byte, our
  own byte and a collided byte are the three ways a byte appears on the line. A
  reader that is itself sending does not read.
* **LineAccess.** One owner of the line makes tries; each is heard back `open`
  (not far enough to tell), `intact` or `disturbed`, and what was heard decides
  for good. Only a disturbed try is repeated (`Collision`), only one that is not
  disturbed is a success (`Deliver`), and a call gives up after its last try was
  disturbed or the driver failed (`GiveUp`). The mapping does not look at the
  code's verdict: `lineEcho` compares the frame with the bytes in `rx` from
  `armedAt` on, as far as they were pulled, and after `echo_wait()` as far as
  they were pulled when it returned (`judgedAt`, a history). So a retry after a
  match, a success after a mismatch or without listening, an attempt too many
  and a second owner all break it.
* **Framing.** The stream is fixed, the buffer is the window `lo .. hi` of it,
  so shifting is moving `lo`. A read is any number of bytes up to the bridge's
  64. Each `framing_process_next()` is one action per result.
* **TcpBridge.** A log call is four steps: the unlocked look at the socket, the
  mutex, the second look, the send. `openFor` says what a descriptor is open
  for now, so a late send can hit somebody else (`stray`). Frames on the bus are
  ours or not; `surplus` counts how often a frame was decoded beyond what it
  should have been. `excused` records what the code cannot tell: an echo later
  than `LOOPBACK_DETECTION_MS`, none at all, or one behind another line.
* **Entities.** One frame is decoded, then its publishers run: `todo` is what
  the bridge task still has to call. The broker keeps the last message of each
  topic; `stale` is a history of topics whose latest message was dropped, and
  the properties say what holds of all others. `ChannelEntities` splits a
  publication into looking, sending and recording (`inHand`), since the MQTT
  task publishes channels too and shares the caches; `raced` are channels both
  had in hand, and `fresh` those that are as the last status frame left them, or
  were published since. The pump's type is stored in a step of its own
  (`LearnPumpType`), after the mutex is released and before anything is
  published; a channel power command stores the watts first and may then not get
  the mutex (`MutexBusy`), which leaves the channel unpublished until a frame
  says something of it. One channel at most is the filter's: the code remembers
  one pump type for all. `FavouriteEntities` has the MQTT task's snapshot on connect;
  `overtaken` records that its announcement offers other options than the state
  did by then: the bridge task went past it, or the mutex was not free within
  500 ms and the snapshot stayed zeroed (`SnapshotTimeout`, also in
  `HeaterEntities`, where `stale` records it). `HeaterEntities` splits
  each publication into announcing and reporting. `kept` in `ChannelEntities`
  is what survives a restart in flash. `EntityFamilies` puts the families that
  share nothing but this scheme side by side; `MCEntities` bounds each of them.
* **RegisterRequester.** The task's loop is its actions: ask for the mode, take
  the set of registers that are missing and ask for them in the order of the
  task's loops, then serve the queue until the interval ends. The delay before a
  read-back waits for the frames that were underway when it began. Frames to the devices and back are in order; a device answers
  a read at once and applies a write later. `missed`, `crossed` and `unheard`
  are histories of read-backs that were lost or refused, of a mode that moved
  while it was asked for, and of a last word about the mode that was lost.
* **PoolCommands.** A command becomes a frame (`wire`), the device changes
  `device`, and says so in a frame (`said`) that the decoder files in `shown`;
  `wanted` is what the topics asked for. Each conversion of an index, slot or
  code is written as the code does it.
* **FirmwareUpdate.** Every wait for a lock, request, publish and notification
  separates steps. A publish is two steps, copy under `s_status_lock` and send.
  Downloads, TLS and the feed parser are their outcomes.
* **UsageReport.** The four writes of a switch are four steps, each flash write
  may fail, and a restart may come anywhere. `torn` is a history: the latest
  switch did not reach flash as a whole.
* **EnergyMeter.** Energy is watts times ticks of a counter that turns at
  `Wrap`. `drawn` is a history that counts with the true time, and `fresh` that
  the last total sent arrived.
* **WebLog.** A line is its number, so that a viewer's feed shows what is
  missing. A batch takes whole pieces of what the ring holds; a line of two
  bytes may be cut. `lost` and `unsure` are histories of lost batches. The
  viewers are a set: at the cap any one of them makes room, in the code the
  oldest, and the log does not tell them apart.
* **EntityReset.** The flag, the count and the slots are read and written in
  separate steps. What keeps a second reset's walk off the first one's is time
  only (`EndCollect`), as in the code.
* **WifiProvisioning.** The driver's events wait in `events` for the handler;
  the timer, the supervisor and the network act in between. The handler's
  commands to the timer (`Rearm`, `StopTimer`) get lost when the timer task's
  queue is full; `refused` records that it was to be armed.

Definitions called "Variant" are changed forms of the definition after them, as
a plausible mistake would change it. `PROJECT.json` pairs every property with a
variant that breaks it.

## 3. Runs

| Run | Result | Shows |
| --- | --- | --- |
| `bus_safety` | holds | types, verdict true of the line, index in bounds across wraps, `LineAccess` implemented, what a timed-out send leaves in the UART is accounted for; with a full stash, driver overflow and transmit timeouts |
| `bus_echo` | holds | with room in the stash: a missing echo means silence; every call returns |
| `framing_parse` | holds | reassembly implements `FrameParse`, captures stay inside the buffer, the loop ends |
| `framing_overflow` | holds | with messages near the buffer size: still no frame twice or invented |
| `fw_updates` | holds | operations exclude each other, right release, install state undisturbed, everything begun ends |
| `usage_restart` | violated | a restart between the two flash writes of an opt-out loses the deletion |
| `heaters_shown` | holds | no phantom heater, configured heaters shown, mode setting followed |
| `heaters_offline` | violated | a state decoded while MQTT is down is remembered as published and never sent |
| `entities_shown` | holds | channels with pump and solar, lights, valves, favourites and readings are at the broker as they are |
| `unused_channel` | violated | a channel in use before its type is known gets entities named Unused |
| `control` | holds | requests, read-backs, mode; every command changes what it names |
| `services` | holds | usage report, log to the TCP client, lines and echoes, energy, web log, entity reset, wifi |

`entities_shown`, `control` and `services` are runs of modules that hold several
components. These share nothing, neither state nor steps, so a behaviour is
about one of them, named by `focus`, and the others stand still: the states are
the sum of the components' and not their product. Where components do share
state they are one module (`ChannelEntities` with pump and solar,
`RegisterRequester` with commands and decoder, `Framing` with the bridge's loop).

The violated runs each check one sentence of a comment or document of the
repository; the findings in `PROJECT.json` quote it.

### Where the code promises less

Met while modelling; the properties except these cases by a named history
variable or condition, and the code does nothing about them.

* bus: a full stash hides a collision, which then counts as silence
  (`bus.c:89`; `NoEchoMeansSilence` with room in the stash). A frame longer than
  about 96 bytes is still in the UART when `uart_wait_tx_done()` gives up after
  100 ms and the lock is given back (`bus.c:335`): the next sender's bytes queue
  behind it. `OneTransmitter` says that the call it belongs to returns -1 and
  that the next one looks for its echo only when all has left.
* framing: a long valid message is lost when its tail no longer fits with the
  bytes before it (`framing.c:100`; `ParsesStream` with room for a read).
* tcp bridge: if the bridge task gives up waiting for the log mutex, a closed
  descriptor stays the target of the log, or a new client gets no log lines
  (`tcp_bridge.c:146`). An echo that comes after `LOOPBACK_DETECTION_MS`, since
  the time is taken before the send has waited and retried, is decoded again,
  and so is one behind another line of the same segment (`tcp_bridge.c:389`).
* firmware update: a status copied on connect can be published after the
  failed install's own, and stays retained (`firmware_update.c:163`); a ping
  reads the install state once and then runs beside an install that starts
  (`firmware_update.c:592`).
* commands: the mode command toggles from the mode last heard, so a second one
  before the first took effect toggles twice (`crossed`). A refused read-back
  leaves a setpoint unread (`missed`). Setpoint attempts are never reset.
* connect: discovery is announced from a copy of the pool state. A change decoded
  between the copy and the announcement is overwritten by it; and when the
  mutex is not free within 500 ms the copy is all zero
  (`mqtt_discovery.c:2089-2094`), so that the mode select is announced although
  the modes are off (the spa setpoints are left alone), and the favourite select
  offers the built-ins and no user favourite. The publishers compare with what
  they sent themselves, so nothing corrects either before the next change of the
  setting, or of a favourite, or the next connect. `SettingFollowed` and
  `FavouritesShown` except exactly an announcement that says other than the state
  does at the time (`stale`, `overtaken`), and only until the next one.
* favourites: the active favourite is not sent again when its label arrives
  later (`mqtt_publish.c:1128`). A built-in that was given another label is
  offered under it, but the command accepts only the literal names; a user
  favourite labelled like a built-in cannot be chosen.
* channels and lights: a light zone's channel keeps the zone's old name until
  its next status frame; a channel that is re-typed leaves the state entities
  of what it was; light zones and valves that are no longer configured are not
  retracted.
* entity reset: a second reset claimed between the clear of the flag and the
  read of the count makes the first retract nothing, or overwrites slots it has
  not walked; "no more can be appended" (`mqtt_discovery.c:170`) is not true of
  a topic whose handler passed the check before. The time between two resets
  keeps these apart in practice; `disturbed` records them.
* web log: the marker of a lost batch is counted as one line; a batch taken
  before the ring was emptied for a first viewer may still reach it (`unsure`).
* wifi: associated without an address since boot is no outage, so no portal
  comes up (`Unnoticed`). `xTimerChangePeriod()` is called without waiting and its
  result is not looked at (`wifi_provisioning.c:268`): if the timer queue is full
  then, no attempt follows and the station stays away until a restart; only the
  portal comes up. `StationHeals` excepts that case (`refused`) from healing, not
  from being reachable.
* energy: a total sent without a connection is gone until the next is due;
  totals start at 0 with every boot, by design.

### Bounds

* **bus**: two senders, of which one is the reader, is what it takes for the
  reader to be blocked and for the lock to be contended. Frames of 0 to 3 bytes
  with `FrameMax` 2 include an empty, an oversized and both good lengths. Two
  attempts have one retry. `HalfWrap` 4 makes offsets wrap several times in a
  behaviour. `MaxForeign` 2 and `MaxCalls` 2: a collision in each of two calls,
  or two in one. Stash of 2 and ring of 3 fill up. With `TxTimeoutBytes` 1 a frame of
  two bytes can time out in `bus_safety`. `bus_echo` gives the stash
  room for everything that these bounds let arrive.
* **framing**: streams of three pieces out of twelve (good, damaged, cut off,
  nested, noise) have each kind of fault before, inside and behind a good
  frame; the buffer of 48 and reads of up to 16 keep the code's relation
  (buffer larger than message and read) in `framing_parse`, and break it with
  messages of 62 bytes in a buffer of 64 in `framing_overflow`.
* **firmware update**: a web and an MQTT caller, two releases: enough for a
  second install call while one is being granted. The number of operations is
  not bounded.
* **usage report**: two IDs, so that a second one would be counted.
* **heaters**: both heaters, two setpoints, both temperature scales, four
  frames and one outage. The longest scenario a property needs is: configured,
  setpoint, removed, mode setting changed.
* **other entities**: three or four events, of frames, commands, lost
  connections and restarts together: announced, changed, then interrupted or
  changed back. Two channels (one filter with its pump, one that is a light, a
  solar controller or jets), two zones, two valves, two labels for a favourite,
  two devices with room for one in the table of seen devices.
* **control**: one timer, one zone and one heater are registers of each kind,
  one of them never answered. A queue of one is refused at once. Two attempts,
  two lost frames or locks, two events. Commands: any two of all kinds, on two
  channels, zones and valves, since a wrong index shows at the neighbour.
* **services**: two tasks that log and two descriptors; two frames, four on the
  line, within a window of two ticks; a counter that turns at 9 with an interval
  of 4, over 12 ticks; a ring of 3 bytes with lines of 2 and batches of 2, three
  lines, two visits, one lost batch; two resets and one change of the broker;
  three changes of network or password, chance failures or lost timer commands.

Where a bound on calls, frames, events or a finite stream lets a model come to
an end deadlock is not checked; `FirmwareUpdate` and `usage_restart` never
stop, and there it is. Every action of every module is taken in some run.

### Fairness

* `Bus`: the UART sends what is in it, the reader task reads, and a task in
  `bus_send_bytes()` continues, as every wait in it has a timeout. `s_tx_lock`
  itself needs no strong fairness since calls are bounded.
* `Framing`: bytes of the stream arrive and the loop continues.
* `RegisterRequester`: the requester's task and the MQTT task continue, frames
  on the bus are heard, devices apply what they heard, the decoder decodes.
  Nothing makes a frame arrive that was lost, or a device answer what it does
  not have; losses are bounded.
* `FirmwareUpdate`: all tasks are scheduled. Strong fairness for `BeginCheck`:
  the check task blocks on the mutex, and installs only poll it, so it is
  readied when the mutex is given. Strong fairness for the end of a download,
  which has a length and a timeout.
* `UsageReport`: both tasks are scheduled, the check task runs again and again,
  and a server that is asked again and again confirms one day. Without the last
  no retry could ever succeed.
* `WifiProvisioning`: an attempt to connect ends, an address comes where the
  network gives one, the event loop, the timer and the supervisor run. Nothing
  makes the network come back or the user act.
* The entities, the bridge's client, the web log, the reset and the meters have
  safety properties only.

## 4. Proofs

All theorems hold for every value of the constants that satisfies the `ASSUME`s
of the modules, so for the sizes of `config.h` as well.

* **BusProofs.** `TypeCorrect`, then the inductive invariant
  `IInv == TypeOK /\ LockInv /\ TrackInv /\ JudgeInv`. `LockInv`: exactly the
  sender past the lock holds it, and the echo is armed only for its frame.
  `TrackInv`: the echo state is a function of the bytes received since it was
  armed, where `armedAt` is the unwrapped offset. The verdict alone is not
  inductive: it needs the unfinished check to have matched a prefix.
  `JudgeInv`: a verdict that was returned is what the bytes pulled by then
  (`judgedAt`) say, and stays so since the stream only grows (`StreamGrows`,
  `HeardForGood`). The arithmetic lemmas
  (`Quotient` to `SignedDistance`) show that the signed wrapped difference is
  the true distance as long as fewer than `HalfWrap` bytes lie between, which
  `SizeAssumption` guarantees. From it `LockDiscipline`, `EchoSound`,
  `EchoNeverOverruns`, and the refinement `PromiseKept`, one case per action: what
  is heard while a sender waits is a step `Hear` (`LineHears`), and the verdict
  allows `Collision` or `Deliver` because `JudgeInv` ties it to the bytes.
  `NobodyElseTransmits`, without an assumption on the length of frames, from
  `TxInv`: a task whose bytes are still in the UART waits for them or has met a
  driver error, and no call reports anything else before it ends.
  `NoEchoIsSilence`: `echo_wait()` gives up only
  after a pull that leaves nothing in the driver, as long as what the reader has
  not fetched fits in the stash (`StashHasRoom`), and `TrackInv` says that what
  was pulled undecided is a proper beginning of the frame. In `bus_echo` that
  condition holds by the bounds: ten bytes can arrive and the stash takes twelve.
* **BridgeProofs**, the framing half. `TypeCorrect` with the length bounds of an
  accepted header; `CapturesStayInside`; `Settled` (what is still buffered after
  a read has no complete frame in front) gives `NothingElseDelays` and, when
  announced messages leave room for a read (`ShortMessages`), `NeverOverflows`
  and the refinement `Reassembles`. `FramesDeliveredOnce` holds with overflow too.
* **BridgeProofs**, the client half. `MutexHeld`, `ClientOpen` and
  `TargetIsClient`: the log's socket is the client's, and not even that when it
  is about to be closed, as long as no wait for the mutex was given up. From it
  `LogStaysWithClient`, for any number of tasks and descriptors. For the echoes
  `EchoInv == EchoTyped /\ LookedFor /\ Balanced`. `LookedFor`: unless
  excused, a frame is looked for within the window, and all echoes on the line
  are of it. `Balanced`: for each frame, how often it was decoded beyond what it
  should have been, and its places on the line, together are one for the frame
  looked for and none for all others. The queue keeps both kinds of frames, so
  its echoes are counted by position (`Places`), with lemmas for what appending
  and taking the head does to the count. From it `EchoNotDecoded`: a line the
  client sent is not handed to the decoder a second time by its echo, unless
  the code could not have told.
* **FirmwareUpdateProofs.** `Inv` adds to the types that the lock's holder is
  the task inside an operation, that the tag buffer is the granted one until
  the install task has copied it, that the copy is. From it `TypeCorrect`,
  `OperationsSerialized`, `RightRelease`, `StateIsTheInstalls`.
* **ServicesProofs**, the usage report. `Inv` adds that flash and RAM hold the same ID and the
  server knows no other (`IdHeld`), that with reporting off no ping follows the
  one on its way (`PingHeld`), and `DeletionHeld`: a flag is cleared only when
  the rows are gone, and a stored opt-out without a pending deletion, in RAM or
  in flash, has no rows and no ping on its way. The part about flash is what a
  restart needs. From it `TypeCorrect`, `CountedOnce`, `OneLatePing` and
  `NothingLeft`.
* **ServicesProofs**, the meters. The wrapped difference of two ticks is the
  true time between two samples while that is less than a turn, and the totals
  follow. From it `Metered`, for any meters, powers, intervals and width of the
  counter.
* **ServicesProofs**, the web log. Lines accounted for are counted as pairs of
  a position where text ends and a number, so that what two texts account for
  adds up (`LinesOfBoth`) without recursion. `LogInv`: whoever is past taking
  the lock has it (`RingHeld`); the count a task has read is still part of the
  count, and its line comes right behind what the text and that count account
  for (`InHandHeld`); text, count and the line in hand account for every line
  (`Balance`); and every piece of a line is where its number says
  (`LinesPlaced`). `InHandHeld` is what makes taking the read count off safe
  while the sender adds to it. From it `GapsAreMarked`, for any tasks, viewers
  and sizes of ring, batch and line.
* **HeaterEntitiesProofs.** The properties speak of states in which nothing is
  left to publish; `Inv` says what holds in between. `TodoShape`: the calls left
  are those of one frame. `Announcing`: a publisher between its two messages
  passed its guard. `Gone`: a heater known not to be configured and not due for
  retraction has no entity and is not marked as announced, which is why nothing
  that repeats announcements brings it back. `Announced`, `StateShown`,
  `SetpointShown`: what the caches say was published is at the broker or was
  dropped, and what is not published is due. `Known`: a switch is published for
  a state that was heard. One lemma per action, with one for the heater it is
  about and `OtherKept` for the other. From it `TypeCorrect`, `NoPhantom` and
  `Shown`. `SettingInv`: unless the setting is still to be published, the mode
  select and the spa setpoints are as it says or marked stale, between the
  MQTT task's steps too, whatever its copy says; from it `Followed`.
* **ControlProofs**, the requester. `Inv` has a part for each way a frame can still
  change the outcome. `SweepInv`: a sweep asks for no setpoint that was given up
  on. `SilenceInv`: nobody speaks of a setpoint no device answers for. `WordInv`:
  the last word about the mode, in the queue of heard frames or filed, is true,
  or it was lost. `ToggleInv`: the mode asked for is the present one and no
  toggle is underway, or it is the other one and exactly one toggle is. Counting
  toggles is what makes it inductive: two of them cancel out. `ReadBackInv`: of
  a setpoint that was written, a read-back is due, or it is delayed behind all
  writes of it, or requested behind them on the bus, or the last word is true.
  From it `TypeCorrect`, `ReadBack_Follows` and `ModeEndsAsAsked`, for any
  numbers of registers, whichever of them nobody answers for, any queue.
* **ControlProofs**, the commands. `CommandInv` ties the four copies of a thing
  together. `Leads`: the frames on the wire, applied in order, take the devices
  from what they hold to what was last asked for. `WillShow`: what the devices
  have said, filed in order (`Speaks`), takes the pool state to what they hold,
  except for a setpoint whose read is still on the wire (`BeingRead`); `ReadNext`
  says that the read stands right behind the write that needs it. That the
  decoder's table files a register with the handler meant is `FirstWins` and
  `RowsCover`: the first row that matches is the row of its range and slot. The
  table has rows for eight light zones, so `NumZones` is at most 8
  (`MAX_LIGHT_ZONES`). From it `Commands_TakeEffect`, for any run of commands.
* **EntityResetProofs.** `OneReset`: one reset is claimed and one walks, and no
  discovery message was received before a reset subscribed. `SlotsHeld`: the
  slots up to the count hold topics, between the two writes of a new one too, and
  so do those a walk has before it. `ListHeld`: whatever was listed in time is in
  the list or already retracted, unless a second reset was claimed in the gap
  (`disturbed`). From it `ResetRetracts`.
* **EntityFamiliesProofs.** A topic is kept as a message (`KeptAs`) if the broker
  holds it or its latest message was dropped; publishing establishes it for its
  own topic and `PublishKeeps` carries it over to all others, as the topics
  of two publishers differ. Each family has an invariant of two kinds of parts:
  what the caches say was published is kept (`LookKept`, `LightKept`,
  `ValveKept`, `SelectKept`, `ModeKept`, `ChlorInv`, `TempInv`), and what is not
  yet said is due (`LightSaid`, `ValveSaid`, `FavouritesSaid`, `ModeSaid`). For
  the readings it takes two facts more: a chlorinator value with an entity is
  valid or old, so that only an expiry clears it, and a sensor with an entity
  or said to be unknown is one the device has. From it
  `LightsAndValves_Shown`, `Favourites_Shown` and `Readings_Shown`, for any
  zones, valves, labels, levels and devices and any numbers of frames,
  connections lost and restarts.
* **EntityFamiliesProofs**, the channels. Two tasks share the caches, so
  `ChannelInv` says of a channel that they never had in hand at once: what the
  caches say is kept, unless a publication has sent and not yet recorded
  (`CacheHeld`); a publication has found exactly what is news to the caches
  (`NewsHeld`), has it at the broker once it is past its sending (`SentHeld`), is
  about the channel as it is unless another is to follow (`CurrentHeld`), and is
  the only one (`Alone`); and a fresh channel that nobody has to publish is in
  the caches as it is (`ChannelSaid`). The caches of the watts and the type
  belong to a channel, that of the pump's type to all: `FilterHeld` says that
  only one channel is ever announced with it, and that learning a type finds that
  channel waiting. `FreshHeld` is what a status frame leaves behind (a solar
  channel as broadcast, the filter's in a mode its pump has, the pump stopped
  with it), and `PumpInv` is about the pump. The handlers all go through
  `ChannelDecodes`, the other steps through `OtherStill` for the channels they
  are not about. From it `Channels_Shown`, for any channels, reports, names and
  watts. Looking for this invariant corrected the model in what no short run
  had shown: the remembered pump type is written with the filter's channel only,
  a register can move the rank, and so the name, of light channels behind it, and
  a task that skips a channel the other has in hand races with it.

Only model-checked: everything temporal with fairness (`SendReturns`,
`EverythingParsed`, `WorkEnds`, `OptOutErases`, `RegistersKnown`,
`StationHeals`), since the proof system does not handle liveness here. Every
invariant, every action property and every refinement of a passing run is stated
by a theorem.

## 5. Not modelled

Formatting (JSON, HTML, discovery payloads, log lines), the pages of the web
server, TLS and HTTP below "request and outcome", the version comparison and
the feed parser, LED patterns, the captive DNS server (stateless), the website,
the Python helpers and the dashboards. The confirmation of a new image in
`main.c` is one timer and a call of the boot loader. The unknown message buffer
is a table that one function updates under one mutex; once it is full of
messages seen twice, new ones evict each other.

In the modelled parts: the timing of the bus (delays are arbitrary),
subscriptions at connect, long MQTT messages in pieces, gas heater details, the
Fahrenheit copies of setpoints, clock and firmware versions of devices, the
stopping of the bridge (nothing calls it), the flash of the configured watts, the
page's own requests to send on the bus.

## 6. Plan

Done in this order: `Bus`, `Framing`, `FirmwareUpdate`, `UsageReport`,
`HeaterEntities`; then the other entities, `RegisterRequester`, `PoolCommands`,
`WebLog`, `EntityReset`, `WifiProvisioning`, `TcpBridge`, `EnergyMeter`; then
the proofs about the bridge, the meters, the heaters, the requester, the reset,
the families of entities, the web log, the commands and the channels. Next
would be:

1. `tcp_bridge_stop()`, which nothing calls yet.
2. The gas heater's entities, and the page's bus requests.

## 7. Running

    tlc -config MCBus_safety.cfg MCBus.tla
    tlapm BusProofs.tla
