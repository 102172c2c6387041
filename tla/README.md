# gw3 in TLA+

gw3 is one Go process on a Xiaomi Gateway 3. It puts itself between the
gateway's own programs and what they talk to, and publishes over MQTT what it
sees: between the Bluetooth program `silabs_ncp_bt` ("the app") and the
Bluetooth chip, and between the gateway's programs and `miio_agent`. Most of
what can go wrong is in the interleaving of its goroutines, timers and
neighbours. These modules model that, TLC checks them on small instances, and
TLAPS proves theorems about most of them, for every size of the instance.

## The system

| component | code | state | operations |
|---|---|---|---|
| command path | `btapp_reader.go`, `btchip_reader.go` | `btchipQueue`, `btchipResp`, `btchipReq`, the read buffer | read a command, queue, write, wait for the answer, forward it, flush on resets |
| watchdog and patch timer | `btchip_reader.go`, `shell.go` | `state`, `discoveryTimer`, `shellPatchTimer` | follow discovery, kill an app that stays away, replace the app by a patched one |
| chip framing | `bglib/bglib.go` | bytes gathered | `Read`, `DecodeResponse` |
| advertisement pipeline | `btchip_reader.go`, `device_ble.go` | `btchipRepeatFilter`, `btchipTrackers`, `devices`, `BLEDevice.state` | filter, publish, forward |
| advertisement data | `gap/gap.go`, `bglib/bglib.go` 162-173, `btchip_reader.go` 198-281 | the read buffer, `gap.Message` | rewrite, take apart, dispatch |
| MiBeacon frames and values | `gap/mibeacon.go`, `gap/parsers.go` | none but the buffer | parse, decrypt, decode |
| CCM cipher | `crypt/crypt.go` | `mac` | `Open` |
| keys | `gw3.go`, `miio_reader.go`, `device_ble.go` | `config.Devices`, `/data/gw3.json`, `miioBleQueries` | look up, ask for, store, write and read the file |
| gateway device | `device_gateway.go`, `miio_reader.go`, `mqtt_reader.go` | `state` map, `alarmState` | alarm commands and reports, Bluetooth state, the will |
| miio proxy | `miio_reader.go` | `miioConn`, two goroutines per connection | accept, dial, forward, bind, close |
| MQTT client | `mqtt_reader.go`, `mqtt/mqtt.go` 707-892 | `mqttClient`, channels of a session | connect, subscribe, serve, publish, reconnect |
| startup | `gw3.go`, `shell.go` | processes and files of the gateway | kill, open, patch, run |

How they interact. `main` starts four goroutines (`miioReader`, `mqttReader`,
`btchipReader`, `btappReader`); `btchipReader` starts `btchipWriter` and the
discovery timer, and is where framing, command path, watchdog and
advertisements meet. Everything publishes through `mqttPublish`, in the caller's
goroutine, through the global `mqttClient`, and so may block on that client's
queue. Keys are asked for by `btchipReader` through a connection `miioReader`
has registered, and stored by the goroutine of that connection or by
`mqttReader`. Nothing in the repository takes a lock: globals, maps and slices
are shared as they are.

What is hard, and what is therefore modelled step by step: a pointer tested and
then used (`mqttClient`, `shellPatchTimer`), a slice queued and its array
overwritten, a signal sent to somebody who does not wait yet, two goroutines
that update and then publish, entries deleted late, answers lost, timers that
race with what they watch, bytes lost on a serial line, the process stopped
between two steps. The other hard part is data: advertisements are rewritten,
decrypted and decoded in place, with offsets and lengths that depend on bits of
the frame and of the device.

## Modules

| module | models | refines / used by |
|---|---|---|
| `CommandLink` | what the proxy promises the app: each command once, in order, one at a time | abstract |
| `BtProxy` | the command path | implements `CommandLink` |
| `BtProxyProofs` | theorems about `BtProxy` | extends it |
| `Watchdog` | discovery state, both timers, the published state | |
| `WatchdogProofs` | theorems about `Watchdog` | extends it |
| `AdvPipe` | which advertisements are passed on, and what becomes of what they say | |
| `CCM` | `Open` and what it calls | used by `MiBeacon` |
| `MiBeacon` | `ParseMiBeacon`, both decryptions, `Decode`, the other parsers | extends `CCM` |
| `BleDevices` | the other side: what devices measure, how they wrap and seal it | extends `MiBeacon` |
| `ScanData` | the way of one advertisement through rewriting, `ParseScanResponse`, the dispatch and the parsers | extends `BleDevices` |
| `ChipFraming` | the reader of the byte stream | |
| `MCChipFraming` | the messages for its run | extends it |
| `ReceptionProofs` | theorems about `ChipFraming` and `AdvPipe` | extends both |
| `BindKeys` | keys, file, queries | |
| `BindKeysProofs` | theorems about `BindKeys` | extends it |
| `GatewayAlarm` | alarm state, the shared state map, sessions and the will | |
| `GatewayAlarmProofs` | theorems about `GatewayAlarm` | extends it |
| `MiioProxy` | the proxied connections and their registry | |
| `MiioProxyProofs` | theorems about `MiioProxy` | extends it |
| `MqttSession` | the client and its sessions | |
| `MqttSessionProofs` | theorems about `MqttSession` | extends it |
| `Startup` | processes and patched files | |
| `StartupProofs` | theorems about `Startup` | extends it |

In every module a step is one access to shared state; what a goroutine does
between two of them is in one step with the access before it. Program counters
are named after what comes next. A definition that ends in `_Something` and is
marked *slip* is a plausible mistake; no specification uses it, and
`PROJECT.json` ("mutants") says which property catches it when it replaces the
definition it is named after.

**BtProxy.** `Reader…` are the steps of `btappReader`, `Writer…` of
`btchipWriter`, `Loop…` of `btchipReader`. A queued slice is a record that says
how much of the buffer it shows; `Content` reads the buffer when the slice is
used, as the code does. `for btchipReq = range btchipQueue` is a receive
(`WriterTake`) and a store (`WriterStore`). The writer that has written and not
yet reached its receive is at `park`, where the non-blocking send of
`btchipRespClear` misses it. All commands have the same length: with different
lengths an overwritten slice would hold fragments instead of whole commands.
Reading a slice header is atomic. `given` is a history variable: the commands
of the app written to the chip since it started.

**Watchdog.** Time is discrete and advances when all goroutines are idle and the
chip's messages have been read. Killing an app is instantaneous. `Startup`, the
longest time an app takes to start discovery, is less than both delays (an
assumption: with the defaults it is a minute). A daemon starts the app it has
found first on its `PATH` and sticks to it (`path`), so that a patched file has
no effect until the daemon is replaced; `binary` is what the running app was
started from.

**AdvPipe.** One advertisement is processed at a time, within a tick. Ages
replace time stamps, and the age `Window` stands for every greater one. A
tracker advertises any of `Beacon`; `said` is a history variable with those it
has been heard with. Only attributes in `Varies` change. Events, which are not
retained, and the info message of a device, which is published once, are left
out; MQTT is there as online or offline.

**CCM.** Bytes are numbers, and all of `Open` is there: the two flag bytes, the
encoded lengths, the padding between the parts, the tag and the key stream. AES,
which is Go's, is a stand-in: a function of all bytes of key and block. The code
uses nothing else about it, so a mistake in what is encrypted shows with this
function as well as with AES; that a forged tag is unlikely is not modelled.

**MiBeacon.** One operator per function. A `Map` is a record, a `float32` its
hundredths, a `uint32` the pair of its halves, a text that a number stands for
that number. `Panic` is a read behind the end of a slice; `TooShort` says when
`ParseMiBeacon` and the two decryptions make one. `TagMoved` is what the
decryption of versions 4 and 5 leaves in the buffer it works in.

**BleDevices.** Written from the other side, so that it is no copy of what it
checks: a reading is a measured value with the object a device sends for it, a
frame is built from its control bits, and encryption is SP 800-38C, Appendix A,
block by block. `Bonded` is the capability byte with the bond bits 0b11 and the
bit 0x20, which four bytes follow: gw3, which compares more than these two bits
with 0b11, takes two of them for payload. gw3's key is right, wrong, missing, or
three bytes, as one set over MQTT by hand may be. The last is for versions 4 and
5 only: of a key shorter than 12 bytes versions 2 and 3 use whatever is in the
memory behind it.

**ScanData.** One turn of the loop of `ParseScanResponse` is one step, the rest
of the way a few steps; one goroutine does all of it, so nothing interleaves.
Elements of types nothing depends on are one. `given` is what is published, by
`btchipProcessBLE` or by `btchipProcessBLETracker` (whose count is in
`AdvPipe`); an iBeacon's transmission power is left out. An element carries what
gw3 should make of it: what is published, whether a key is asked for, whether it
is `short` (bytes gw3 reads are missing, for a MiBeacon frame those of `Needs`)
and whether it is `odd` (data is published, but nothing can be said of it). A
MiBeacon frame is there whole and cut at every length down to nothing, with
every key.

**ChipFraming.** Any messages that say how long they are (`WellFormed`;
`Message` is a constant), given byte by byte with what the firmware (`fw`) puts
around them: v1.4.6 four bytes before each, v1.5.0 one before and one after, and
one more behind a 0xDB in an advertisement. The line loses any of these bytes,
each with a step of its own; the bound is that between two losses a message gets
through whole. What is returned with `WrongRead` is not kept. `Reader…` in the
names keeps them apart from `AdvPipe`'s, because `ReceptionProofs` extends both.

**BindKeys.** A key fits or does not. The cloud answers within the hour or
never. `Truncate` and `WriteFile` are the one call that writes the file, in
either of the goroutines that call `SetBindKey`; `WriteFails` is its error,
before the truncation or after it, which the code logs and forgets. Two history
variables remember how the last call went: `overlap`, that it began while the
other goroutine was in one, and `failed`, that the last write did. `Init` has an
empty file, the first start of gw3.

**GatewayAlarm.** Three goroutines publish the state: the one of the gateway
program's connection (`updateAlarmState`), `btchipReader` and the callback of
`discoveryTimer` (`updateState`, on one key). Reports arrive in order on one
connection. `updateState` (the test), `SetState`, `Marshal` (the test for a
client), `Marshalled` and `Publish` are steps, so that the goroutines can
overtake each other; the history variable `overlap` remembers that the last
update began while another was under way, `rival` which updates of the Bluetooth
state have met each other. When the timer fires and the chip speaks is
`Watchdog`'s. Sessions come and go, and `SessionEnd` and `Restart` leave the
will retained; `spoken` is a history variable that says whether a state has been
published since.

**MiioProxy.** A packet is a number and a length in buffers. The address a
program binds is the first message. An agent that is not there is a dial that
takes longer: `miioReader` tries again until there is one, and changes nothing
meanwhile.

**MqttSession.** Sessions are numbered and never reused. The deferred calls of
the reader are three steps. A connection that ends loses what was on its way up.
With `log=mqtt` `mqttReader` complains of a refusal to the session that has just
been refused, where it may meet a closed channel like any publisher.

**Startup.** One step for each command `main` and `miioReader` run. Killing is
instantaneous except for an earlier instance of gw3.

## Runs

One run for each component, two for the command path, and one that ends in a
violation. The runs have the type invariants of their modules too, except those
of `ScanData`, which has none (`Init` says what its variables hold), and of
`GatewayAlarm` and `BindKeys`, where `TypeOK` only documents it.

| run | what it shows | bounds |
|---|---|---|
| BtProxyPrompt | for an app that waits the proxy is a `CommandLink`, and every command is answered | window 1, queue 2, 3 commands, 2 events |
| BtProxyRestart | from the GPIO reset on, whatever the chip's timing: no stray answer, no command given to the chip twice, and a flush that holds | queue 4, 5 commands, 1 event, 1 restart |
| BtProxyLostWakeup | (violation) what an early answer does | as BtProxyPrompt |
| Watchdog | the timer stays alive, kills no healthy app, brings discovery back; the app in the end is started from the patched file | delays 3 and 4, patch delay 3, 2 faults |
| AdvPipe | what exactly the filter drops, when a tracker is one, and that the retained state becomes current | 1 sensor with 2 attributes of which one changes twice, 1 tracker with 2 data, threshold 2, window 2, 1 lost session |
| ScanData | what is published is what was measured; keys are asked for when, and only when, sealed data cannot be opened; the Bluetooth program is given the same advertisement; the loop ends | all readings in the usual frames; all frames of versions 2 to 5 with readings of 4 lengths and every key, and one reading cut at every length; all data of up to 3 elements, cut anywhere |
| ChipFraming | the messages sent are the messages returned, and what a lost byte costs | all pairs of 24 messages, both firmwares, any one byte lost |
| BindKeys | the file agrees with the keys in use; every key is retrieved | 2 devices, 1 new key, 1 stop, 1 loss, 1 failed write |
| GatewayAlarm | the mode is shown after all; each of three goroutines publishes its own value | 3 changes, 1 command on its way, 2 Bluetooth states, 1 fault (lost session or restart) |
| MiioProxy | no dead connection is registered; messages once and in order; ends close together | 2 connections, 3 messages |
| MqttSession | order, delivery, release of publishers, reconnection | 1 publisher with 3 messages, queue 2, 2 sessions, 1 break or refusal |
| Startup | gw3 takes its place, alone on line and socket | 2 stops, an instance that outlives up to 5 attempts |

Why the bounds are enough. The races are between two goroutines over one or two
items, so two or three items in a queue of capacity two reach every order of
them; the code does not compare or count further, except the tracker's count and
the filter's times, which are constants of the modules, and the capacities of
the queues. `btchipQueue` is full in `BtProxyPrompt` (an extended scan and a
start before the writer has taken one), `out` of a session in `MqttSession`.
Commands with window 1 follow each other, so the third has every situation the
first two can leave behind; `BtProxyRestart` has five, for reset, start and
other before the restart and a reset and one more after it. `MaxStays` 5 has
values on both sides of the four attempts of `btappInit`. One restart or stop
covers a stop in each state, two (in `Startup`) a stop during recovery. The
window of the filter is two ticks and the minute one, so that an advertisement
is heard before, at and after both. Two changes of an attribute are a value that
returns, within the window or behind it; a tracker is counted twice before it is
detected, with the same data or with both. Three elements are one before, one
after and one between of every kind; the readings of `Long` end before, at and
behind the first block of the cipher. The two messages of `ChipFraming` are the
damaged one and the next; its theorems are for any number. The two Bluetooth
states of `GatewayAlarm` are one of each goroutine, or of one after the other;
its theorem is for any number. One failed write of `BindKeys` is before or after
a good one, or one that overlaps. Two is the smallest number of sessions with an
old one draining behind a new one.

Deadlock is not checked: in every run the system may stop, because a bound is
used up, gw3 has panicked (`panic`, `dead`) or the algorithm is done. That it
does not stop early is what the liveness properties say.

Symmetry is not used: devices, connections and sessions are few or ordered.
Where several values are alike `Init` picks one of them (`AdvPipe`,
`GatewayAlarm`).

## Where the code does otherwise

`BtProxyLostWakeup` checks the statement at `btchip_reader.go:170` ("unblock
btchipResp chan even if no waiters"): the answer arrives between `Write` and the
receive from `btchipResp`, the non-blocking send finds nobody, the answer is
forwarded, and the writer waits for a second one for ever. Every later command
stays in the queue until a reset.

The other departures from what comments and README say are part of the models
and named in the properties, which hold with these exceptions:

| exception | in | what the code does |
|---|---|---|
| `restarts = 0` | `NoStrayAnswer`, `ChipOnce` | a queued slice is overwritten by the next read, so after a restart of the app one command may be executed twice and answers for the former app are forwarded |
| `panic` | `Patched`, `Discovers` | `shellPatchTimer` is set to nil between its test and its use |
| `panic` | the liveness properties of `MqttSession` | `mqttClient` is nil, or its channel closed, when a publisher gets to it |
| `Stuck` | `Reconnects` | a connection that ends during CONNECT or SUBSCRIBE leaves `mqttReader` waiting |
| `LinkedAgain` | `KeysRetrieved` | `SetBindKey` changes a copy of a known device's entry, also of one for which only the empty answer is known |
| `FileLost` | `KeysRetrieved` | a stop between truncation and write, or a write that fails there, leaves a file gw3 cannot start on |
| `overlap` | `FileAgrees`, `RetainedFollows` | two goroutines write and publish at once, and the older result may stay until an update by itself |
| `failed` | `FileAgrees` | a write that fails is logged; the map keeps the key, and nothing tries again |
| `rival` | `OwnValuePublished` | `btchipReader` and its timer are in `updateState` at once, and one publishes what the other has stored |
| `n`, the number of data it has said | `TrackerStays` | data that varies passes the filter, so a tracker that varies its data is counted more often than once a window |
| `heard` | `RetainedFollows` | a siren that ends before gw3 has been told a mode restores the empty one |
| `spoken` | `RetainedFollows` | a new session starts with the will retained, and only the info message is published: the state says offline until it changes |
| `odd`: `made` | `AsMeasured`, `AsksForKeys` | versions 2 and 3 are decrypted without a tag: with a wrong key, or bytes missing, values are made up and no key is asked for |
| `odd`: `Misread` | `AsMeasured`, `AsksForKeys` | a capability byte of version 5 with the bond bits 0b11 and 0x20: `capab >> 3` is 0b111, so the two bytes of the bond are taken for payload. Unsealed, the object is misread; sealed, the right key is taken for a wrong one, and asked for for ever |
| `Overrun` | `Finishes` | bytes are read that are not there: an id cut in two, a MiBeacon frame shorter than its control bits say (`Needs`), an object 0x0B shorter than nine bytes, a weight shorter than thirteen, or what is made up says it is one of these |
| the last seven bytes | `Forwarded` | versions 4 and 5 are decrypted in the buffer that is forwarded, which moves the tag over the counter |
| the length byte | `Forwarded` | that of a legacy frame is computed from the class of the event |
| `Mistaken` | `Exact`, `LossContained` | DB DC and DB DD in an advertisement's own data lose a byte |
| `Clear` | `LossContained` | a damaged message may take the next one with it if a byte behind its first is 0x20 or 0xA0 (an rssi of -96), if its class is larger than its length, or if it has DC and DD in a row |
| `Outlived`, `LeftTorn` | `ComesUp` | the fourth attempt is the last; a patched file that exists is never written again |

Each exception is needed: without it TLC finds the property violated (for
`EveryPublishDelivered` with a second publisher). Some things the models have
and no property forbids: the dead clearing of the filter's cache (`AdvPipe`),
the late deletion of a newer connection's entry and the cut of a message longer
than the buffer (`MiioProxy`), `zigbee_gw` not restarted after a stop
(`Startup`), and an app with more than one command unanswered (`BtProxy` with
`Window` 2, where two commands in one read go to the chip together).

## Fairness

Goroutines that can run do run: weak fairness of each goroutine's steps, because
Go's scheduler is preemptive and a blocked step stays enabled until taken. What
neighbours owe is named in each module: the chip executes commands, a healthy
app reaches discovery, the daemon starts what is missing, the broker handles
what reaches it, the cloud answers what reaches it, devices keep advertising.
They owe no faults, restarts, breaks, losses, nor commands; those are bounded
and not fair. Strong fairness is in `AdvPipe` only: hearing an advertisement and
the tick both need the idle reader, which is left and reached again for ever.
`ScanData` is one goroutine: its fairness is that the loop, whose end is the
question, goes on.

`PromptPark` is the one assumption about speed: the chip, which must receive the
command at 115200 baud and answer, is not faster than a goroutine that goes from
a write to the next statement. Nothing in the code guarantees it;
`BtProxyLostWakeup` is `BtProxyPrompt` without it. The safety of
`BtProxyRestart`, and the theorems, do not need it.

## Proofs

Eight modules hold theorems, for all values of the constants that satisfy the
assumption named in the component's module. TLC finds no state that breaks one
of the inductive invariants with the constants of the component's runs (those of
`SerialInv` and `LinkInv` are of `BtProxyPrompt`). In all of them the step lemma
has one step per action, or per group of actions that leave the same part of the
state alone.

`BtProxyProofs` (`ConstantsAssumption`):

- `TypeCorrect`: `Spec => []TypeOK`. The buffer never becomes shorter
  (`Overwrite`), so a slice queued earlier stays a slice of it (`SliceKept`).
- `FlushCorrect`: `Spec => []FlushBeforeReset`. `FlushInv` adds that
  `btappReader` is at `addext` only with a start command at hand. The lemma has
  one step per action: others only take from the queue, and `btappReader`, the
  only one that adds, is elsewhere.
- `SerialOutstanding`: under `Serial` (the app waits for each answer, is not
  restarted and sends no reset), `Spec => []OneOutstanding`. The property is far
  from inductive: `SerialInv` adds that what is on its way is the one newest
  command (`Fresh`), that reads and slices are single (`Singles`), that there is
  no boot event (`NoBoot`) and that the unanswered command, the writer's place
  and the release are in one of a few combinations (`OneInFlight`). `Serial` is
  needed: with `Window` 2 two commands that one read returns are written to the
  chip together.
- `NoStrayAnswerCorrect` and `ChipOnceCorrect`: for an app that waits for each
  answer (`Window = 1`), with resets, boot events, early answers and restarts.
  `AnswerInv` says that until the app is restarted the state is `Steady`: the
  buffer is shown by one slice in one place (`Alone`, `OneCommand`), which is
  the command the app waits for (`Current`); what the chip has, has sent or
  `btchipReader` holds was sent earlier (`Older`), is in one place (`Distinct`)
  and is waited for (`Answers`); and a boot event taken for that of a reset
  command is (`SoftReset`). `GivenInv` adds what the chip has been given: one
  that is still to be written is newer than all of it. `Window = 1` is needed:
  with 2, TLC finds a command given to the chip twice, because the second read
  overwrites the first slice.
- `LinkImplemented`: under `Serial`, `Spec => Link!Spec`, the safety part of the
  refinement, without `PromptPark`: answers may be early. `Todo` and `Out`
  concatenate whatever is queued and sent; `QueueShape` and `OneInFlight` bound
  that to an extended scan, a command and a response, so that `TodoShown` and
  `OutShown` give both a closed form (the lemmas `Flatten...` and `SeqOf...` are
  about the library's operators). `LinkStep` has one lemma per actor: a send is
  `Accept`, a write that has bytes is `Give`, the release of the writer is
  `Answer`, everything else changes neither.

`GatewayAlarmProofs` (`GatewayAlarmAssumption`):

- `TypeCorrect`: `Spec => []TypeOK`. That the state found for a report is a
  state (`PropertyState`) rests on the modes being none of the other states.
  `TypeOK` is no invariant of the run; it was checked with TLC by hand.
- `OwnValueCorrect`: `Spec => []OwnValuePublished`. The alarm state has one
  writer, which changes it only while it has no message in hand, so what the
  others do between `Marshalled` and `Publish` cannot make it stale. The
  Bluetooth state has two, and `RivalInv` says that when both are in
  `updateState` both are in `rival`. `Quiet` is a name of its own for the empty
  string, which the SMT translation cannot take; so are `NoKey` in `BindKeys`
  and the state `"none"` in `Watchdog`.

`MiioProxyProofs` (`ProxyAssumption`):

- `NoStaleConnCorrect`: `Spec => []NoStaleConn`. Alone it is not inductive: a
  connection could be registered by a goroutine that runs while the other has
  exited. `Registered` says who is in `miioConn` at an address has bound that
  address and its goroutine `in` has not exited; only that goroutine registers,
  and it deletes what it has registered when it exits, whatever has been deleted
  before. `Shape` is the part of the type invariant this needs.
- `TypeCorrect`, `ForwardedInOrderCorrect`: `Carried` says of each direction
  that messages sent and written are numbered from 1 and that all messages read
  have been written but the one in hand; `NotStarted`, that the goroutines of a
  connection start after the agent has been dialled. That a direction is sent no
  more than `MaxMsgs` messages, which are counted over all directions, is a fact
  about cardinalities (`Room`).

`StartupProofs` (`StartupAssumption`):

- `TypeCorrect`, `ChipExclusiveCorrect`: nothing starts the Bluetooth program
  while no daemon runs, and `main` runs the daemon last. `ChipInv` says so for
  each place of `main`, with the patched daemon that a stopped gw3 left behind.
- `AgentApartCorrect`: `AgentInv` adds that `miioReader` runs beside a patched
  daemon and that a patched agent that is in `/tmp` has been or will be killed.

`WatchdogProofs` (`DelaysAssumption`):

- `TypeCorrect`: with `Fits`, that `btchipReader` does with a message what is
  done with messages of its kind.
- `WatchAliveCorrect`: the callback arms the timer last, and nothing disarms it.
- `NoSpuriousKillCorrect`: if `Startup + 1 < Delay`, `Spec => []NoSpuriousKill`.
  `Faultless` says that until something goes wrong the timer exceeds what the
  app may still take; once discovery has started each tick begins with a full
  delay, so that the patch, which restarts the app only then, leaves it
  `Delay - 1`. `Startup < Delay` alone is not enough: with 1 and 2 TLC finds a kill.

`BindKeysProofs` (`KeysAssumption`):

- `TypeCorrect` (the run has no type invariant) and `FileAgreesCorrect`: without
  an overlap one writer at most is active, what it has marshalled is still the
  map, and the file it writes to is empty (`FileInv`), so nothing of a longer
  content stays. A write that fails leaves `failed`, until one succeeds.

`ReceptionProofs`, about `ChipFraming` (`ChipFramingAssumption`: every message
is well formed), for any set of messages, any number of them and any losses the
bound admits; there is no induction over a message, because chip and reader go
through it byte by byte:

- `ReaderTypeCorrect`: `ReaderSpec => []ReaderTypeOK`, and in it that the buffer
  of 260 bytes is never filled ("this shouldn't happen", `bglib.go:101`). `Inv`
  says how far the chip is and which bytes are still to come (`ChipInv`), that
  what is gathered is shorter than its second byte says (`Short`) and that every
  advertisement returned decodes as one (`Decodes`).
- `ExactCorrect`: `ReaderSpec => []Exact`. `Held` says that of a message that
  has lost nothing Read holds what has been given, less the additions;
  `ExactInv` adds that what has been returned are the messages before it.
  `OwnByte` is the heart of it: the next byte of a message is neither skipped
  nor a reason to give up, as long as Read holds exactly the part before it.
- `LossContainedCorrect`: `ReaderSpec => []LossContained`. Of a message that has
  lost a byte Read holds something that lacks two bytes at most (`Damaged`,
  `Behind`): the lost one, and one taken for an addition. The firmware's bytes
  behind it and before the next message are two at least and begin no message,
  so that they complete it (`Closing`), and the next message finds nothing held
  (`Passing`). `Clear` is what excludes everything else.

and about `AdvPipe` (`AdvPipeAssumption`: there is a sensor, an attribute and a
value):

- `TypeCorrect`; `OncePerWindowCorrect`, an action property: `FilterInv` says
  that a cache entry younger than the window is as old as the last time its data
  was given to the program, and any other tells nothing.
- `SteadyTrackerStays`, an action property: `TrackerStays` for a tracker that
  has always said the same. `TrackInv` says that with n events it has been
  present for n - 1 windows and the time since the last. `Windows(n)` hides the
  product from the provers, `WindowsAdd` is what they need to know of it. For
  trackers that vary what they say the count is a sum over the data, which stays
  with TLC.

`MqttSessionProofs` (`SessionAssumption`), for any number of publishers,
sessions and messages:

- `TypeCorrect`: with `Numbers`, that whoever is past the dial, or past the
  second load of `mqttClient`, has a session. `NetStep` says once what the
  broker and the network may do to the queues; each of their actions is shown to
  be one.
- `PublishedInOrderCorrect`: `Spec => []PublishedInOrder`. The property speaks
  of what has arrived; `OrderInv` of all that is on its way. `Within` and
  `Across` put it into one order: by session, and in a session what is on the
  connection before what is queued. `Delivered` says that what has arrived comes
  before all that can still arrive: a session the broker has accepted has taken
  the connections of all older ones (`Ended`), so what old sessions still drain
  is lost, not late. `Own` and `Past` say of each publisher that what it has
  queued is older than what it publishes next, and that it never goes back to an
  older session. The lemmas `Shrinks`, `Grows` and `Moves` are the three things
  that happen to queues.

Only model-checked: liveness (and with it the fairness of the refinement, and
`ClosedTogether`, `KeysRetrieved`, `ComesUp` and the like), which is out of the
prover's reach; `TrackerStays` in general; and `ScanData`, whose parsers compute
with bits (`Bitwise`, in `CCM`).

## Hazards without a property

`PROJECT.json` lists the hazards of this code, each with the properties about
it. Three have none. The test and use of `shellPatchTimer` (`shell.go:126`) is
in `Watchdog`, which ends in `panic`, the exception of `Patched` and
`Discovers`. The cache of the filter is never cleared (`btchip_reader.go:308`):
`AdvPipe` has that condition as it is, and a bound on the cache would be
violated. The maps `devices` and `config.Devices` are read by one goroutine
while another writes them (`mqtt_reader.go:44`): Go ends a program it sees doing
so, and the models take one access for one step.

## Not modelled

- The MQTT server, lines 1-706 of `mqtt/mqtt.go`: a copied library of which gw3
  uses only the client. `Disconnect` of the client is never called.
- `Seal` in `crypt/crypt.go`: gw3 only decrypts.
- `serial/`: system calls that configure a tty. `dict/`: stateless accessors,
  whose defaults are in the guards of the modules that use them.
- Mesh messages in `bglib/` from line 175 on: nothing calls them.
- `updateBT` of the gateway: nothing calls it. `updateEvent`, the buzzer and the
  test commands pass one message on each.
- Formats and levels of the log.
- Half-open TCP connections (a break is always noticed), and `nextid`, which is
  called without a lock.

## Plan

Done, in this order: `BtProxy` with `CommandLink` and its proofs, `Watchdog`,
`MqttSession`, `MiioProxy`, `BindKeys`, `AdvPipe`, `GatewayAlarm`,
`ChipFraming`, `Startup`, `ScanData`; then `CCM`, `MiBeacon` and `BleDevices`
with `ScanData` over them, and sessions in `GatewayAlarm`; then the proofs.

To come:

1. Compositions, in place of the runs of their parts: `MiioProxy` with
   `BindKeys` (queries on a connection that ends), `BtProxy` with `Watchdog`
   (kills while commands are queued).
2. An abstract retained topic that `GatewayAlarm` and `Watchdog` implement.
