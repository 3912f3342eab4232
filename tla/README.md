# Verification of the power supply's firmware

TLA+ models of the firmware in `src/sw/fw` (Rust, embassy, ESP32-C3), checked
with TLC and, where it matters for every size of the system, proved with TLAPS.
Paths below are relative to `src/sw/fw/src`.

The device takes a USB-PD supply, programs a TPS55289 converter for its output,
trips the output on over-current and tries again after a back-off, counts such
episodes in flash, takes its settings over MQTT, and is guarded by a watchdog.

## The system

| Component | State it keeps | Operations | Meets |
|---|---|---|---|
| `systems/watchdog.rs` | mask and number of tickets, the peripheral | `ticket`, `feed` | every long-running task holds a ticket |
| `systems/power_ext.rs` | `Inner` (driver, `state`, `backoff_duration`) behind a mutex; four locals of `monitor_task` | `init`, `persist`, `state`, `config_task`, `monitor_task` | Config's channel, Record, UsbPd's pin, Watchdog; Stats reads `state` |
| `systems/config.rs` | settings behind a mutex, the copy on flash, a channel | `update`, `fetch`, `publish_immediate`, `push_task` | called by Net and Events; PowerExt and Events subscribe |
| `systems/record.rs` | record and `sync_at` behind a mutex, a wake-up channel, a channel, the copy on flash | `log_overcurrent`, `publish_immediate`, `sync_task`, `push_task` | called by PowerExt and Events |
| `systems/net.rs` | outgoing channel (one message), events, link and MQTT session | `send`, `net_task` (with `link_up`, `mqtt_connected`, `send_message_qos1`, `process_message`), `connection_task`, `stack_task` | calls `Config::update` |
| `systems/events.rs` | none but positions of its two tasks | `net_task`, `publish_task` | Net, Stats, Record, Config |
| `systems/stats.rs` | last sample, a channel | one task | ADC, `PowerExt::state`, SleepStats |
| `systems/storage.rs` | two flash partitions, a cache | `init`, `fetch`, `store` | Config, Record |
| `systems/usb_pd.rs`, `drivers/stusb4500` | non-volatile memory of the USB-PD controller, a pin | `init` (reads and, if different, programs the memory), `set_pin`, `state_task` | PowerExt |
| `drivers/tps55289` | registers | conversions of voltage and current | PowerExt |
| `executors` | a wake-up flag, sleep statistics | `run`, `pend`, `wait_impl` | all tasks; `power_ext` runs on an interrupt executor of higher priority |
| `util.rs` | type of all channels: one message, four subscribers, one publisher | | Config, Record, Net, Stats |

What is hard here:

* Tasks are cooperative and interleave at every `await`, but `power_ext` runs on
  a higher-priority executor and may run between any two instructions of others.
* `monitor_task` and `config_task` share a converter whose registers are
  written one at a time, each an `await`.
* Locks are held across awaits in two places: `Config::update` (while it
  waits for consumers) and `Record::schedule_sync` (while it sends).
* Channels have one message: publishing either waits for the slowest consumer or
  evicts what it has not read.
* A reset comes at any time (watchdog, or one of the many `unwrap`s); RAM is lost,
  the converter and the flash keep their state.
* Edges of the fault pin are lost when nobody is listening.
* Errors of libraries are answered with `unwrap`, and the panic handler halts; only the
  watchdog turns that into a reset.

`PROJECT.json` lists these hazards with their lines and the properties against them.

What makes each component correct:

* Watchdog: live tasks never cause a reset, a dead one always does.
* PowerExt: a fault always turns the output off; it comes back after its whole
  back-off, with registers of one setting, and says so only when that is true; an
  episode of trips is recorded once.
* Config: what consumers act on is durable, moves forward only, and ends at the
  last settings; nobody waits for ever.
* Record: no episode is forgotten except by a reset within the period; few writes.
* Net: short outages and short waits do not reset the chip, and whatever happened, a working
  network ends in a session.
* Storage, UsbPd: a reset during initialisation is repaired by the next boot.
* Executor: no wake-up is slept over. Numerics: registers hold what was asked for, and
  it is known for which settings they do not.

Composition: `Config` uses `PubSub`, `Events` extends `Config`, `Supervision` extends
`Watchdog`, `Record` uses `PubSub`; `Replica` and `WriteBehind` are abstract specifications that
`Config` and `Record` implement. The other modules meet through what each says of its
surroundings: UsbPd's boot relies on the ticket that Watchdog guarantees
(`WatchdogReset`), Config and Record on storage whose items stay (`NothingLost`).

## Modules

### Watchdog

`Watchdog.tla` is `systems/watchdog.rs`. `mask` is the set of set bits, `count` the
number of tickets, `age[i]` and `hwAge` the seconds since a ticket and the peripheral
were fed. `Ticket`, `Feed`, `InnerFeed` are the methods; `Hang` is a holder that
blocks or panics. `Tick` does not let a live holder exceed `WATCHDOG_DEADLINE`: that
is the contract in the comment of line 25, and the properties say what
follows from it. Ages stop counting at twice the timeout, which is never reached
(`HangDetected`).

### PowerExt

`PowerExt.tla` is `systems/power_ext.rs` with an atomic step between any two awaits
of `monitor_task` (`pc`) and of `config_task` in `persist` (`cfgPc`). The mutex is
`lock`. Registers are `oe`, `vref`, `limit` (whose settings they hold) and `fault` (the
latched OCP/SCP bits, cleared by reading). `ReadStatus` is the transfer of the status; what it held
is acted on from the positions `faulty` and `fine`, which are the await of the watchdog's feed. Instants are
the ticks left until them, so `t < Instant::now()` is `t < 0`; only `ocp_since` is the ticks since, of which
the code takes `elapsed()`. Ghost variables measure how long the output
has been off or on, and follow the episodes by the trips alone: `episode` is the time since the first trip after
the output was last stable, `unrecorded` the episodes begun less those logged. `Fault` moves `monitor_task` only if it is in the select, so
edges are lost as on the device. `Reset` is a reset in any state; a panic on an I2C error
is one of those. It forgets the back-off and the episode, and the ghosts with them: the properties
are about the time between resets. A setting is represented by its `backoff_ms`, by which settings differ.

### Config and Events

`PubSub.tla` is the channel type of `util.rs`: the last message and who has
not read it. `Config.tla` is `systems/config.rs` with `config_task` of `power_ext.rs` as
consumer; a setting is its version number. Flash operations do not suspend, so
`update` is one step up to the wait in `publish`, where it is in `upPc = "publish"`
with the lock held. `rested` stands for the clock: `PUSH_PERIOD` (30 s) is over only
after all tasks have waited at some time since the timer was set, which is the only thing
about 30 s that matters. An update with equal settings changes nothing and is no action.
`Consume` is any further consumer, which reads at any time or never again: `publish_task` waits for
the network between two reads. `Republish` is `publish_immediate`
as `events.rs` calls it after a connection, in an assembly with such a consumer.

`Replica.tla` is what Config promises the converter: a copy of the durable settings
that may lag but never leads or goes back. `FollowsFlash` is that refinement,
with `current <- flash, replica <- applied`.

`Events.tla` extends Config with both tasks of `systems/events.rs` and the part of
`systems/net.rs` that they and Config meet: the outgoing channel, the select of
`mqtt_connected`, `process_message` and the event of a new connection. At this commit
`main.rs` has PowerExt, Stats and Events commented out (lines 68-81); the module is
the assembly with these lines in place, which is what the modules' code is written for.

### Record

`Record.tla` is `systems/record.rs`. `log_overcurrent` comes from the high-priority
executor and may fall between any steps of `sync_task`, also between taking the
data and storing it. Code that holds the lock without awaiting is one step; the
`send` in `schedule_sync` is separate (`logPc = "send"`). `seen` is what `publish_task` last took since
the start; nothing obliges it to take anything (`Consume`), as it waits for the network in between, so
`RecordOffered` says that it has the kept record or finds it on the channel. `WriteBehind.tla` is the
abstraction: memory runs ahead, the disk follows, a restart falls back to it.

### Supervision

`Supervision.tla` is `systems/net.rs` as a holder of one of Watchdog's tickets. `netPc` is
the position of `net_task` through `link_up`, `mqtt_connected` and `send_message_qos1`, `conPc` that
of `connection_task`; `ap`, `broker`, `link` and `ip` are the network. A second
(`Second`) passes only when nobody has anything to do that takes less. What is
not on the net's path is kept: the holder `App` is main's loop, the others feed in time.

* `spin` is `link_up`'s loop while the link is up without an address: `connect` fails at once
  (NoRoute), the loop has no other await, so no other task of the executor runs; the
  address and the link are `stack_task`'s to change, and `app`'s ticket goes unfed as well.
* `ConArm` is the moment `wait_for_event` begins to listen: a disconnection between it and `ConCheck`
  is missed.
* `process` is the await of `process_message`, and with it of `Config::update`. It ends by `NetProcessed`, at any
  time or never: how long consumers take is not this module's, and Events shows that it may be for ever.
* A broker may refuse a session it could serve, or send another packet before the acknowledgement
  (`NetHandshakeFails`), and may end one (`SocketAborts`).
* `Panic` is an `unwrap` of net.rs: esp-backtrace's handler loops for ever with the features
  that Cargo.toml asks for.
* `Second` puts a message into the outgoing channel or not: Stats and Events send one each second where
  they are assembled, and nobody does in `main.rs` as committed.

`outage` is a ghost: the seconds since the service was last whole, with messages to send and no update waiting,
for more than `ConnectTimeout`.

### UsbPd

`UsbPd.tla` is `Usbpd::init` and `drivers/stusb4500`. `pc` is the next transfer on the bus; there is an
action for each method of `hl.rs`, with a disjunct for each of its transfers
(`ReadFetch` and `WriteDone` end an iteration of the loops in `read_sectors` and `write_sectors`, whose
index is `sector`). `Goes(from, to)` is the order of the transfers, the operators before the actions say
what each does to the controller's registers.
The controller runs beside it: `Execute` does what a request asks for, and a request that is broken
off by a new one leaves what it was erasing or writing in any state. A reset of the processor
leaves the controller's registers, a power cycle does not, and its memory is anything
at first. A sector's contents are its number (what `NVM_DATA` says), `Blank` or `Garbage`.

### Storage

`Storage.tla` is `systems/storage.rs` with the accesses of Config and Record. A page is the set of
`<<key, version>>` on it; `foreign` pages hold something else: a partition of other use, or (`Rot`) a page
that has become unreadable, because its contents rotted or other firmware left an item whose key this one does
not know (`storage.rs:56-65`). `ensure_initialized` goes page by page with a reset possible
between any two. A fetch from a partition with a foreign page may fail or not.

### Executor

`Executor.tla` is `executors/thread.rs`, `interrupt.rs` and `__pender`. Interrupts (`irqs`) come at any
time, and are served at once unless masked: in `wait_impl` from the load of
the flag to the end of `wfi`, which a pending interrupt ends although it is masked.
`raw::Executor` is what embassy documents: a wake-up calls the pender only if the queue was
empty, and `poll` takes the queue as a whole.

### Regulator

`Regulator.tla` is the arithmetic of `PowerExt::persist`, `VRef` and `IntFB` with
its widths. It sweeps all 65536 settings, and then messages
that change one field or both between settings at the edges.

## Runs

| Run | Bounds | What it shows |
|---|---|---|
| `Watchdog` | 3 tickets, timeout 4, wiggle 1 | main hands out three tickets in the full assembly (app, net, power_ext); one hanging, one alive and one new are all that the mask can tell apart |
| `PowerExt` | settings {0, 3}, stabilisation 1, poll 2, one reset | back-offs shorter and longer than the poll and than the stabilisation, and equal to zero; ages count to 6, so an episode with a second trip has another age than one begun at that trip |
| `ConfigPower` | 4 versions, 2 restarts | one version in each place (flash, channel, task, converter) at once |
| `ConfigSlow` | 4 versions, 1 restart, a third consumer | the third reads whenever it likes or never again, so `push_task` meets a held lock and an update may wait for ever; deadlock checking is off because of that |
| `Record` | 3 episodes, periods 2, one restart | an episode before, during and after a write |
| `Events` | 3 versions, 1 restart, 3 consumers | every way two messages and an update can be in flight with one slot each; deadlock checking is off because the cycles are real |
| `UsbPd` | 3 of 5 sectors, 2 faults | one sector written, one being written, one still blank; the second fault hits the boot that repairs the first |
| `Storage` | 3 pages, 2 keys, 2 versions, 3 faults | erased, being erased and still foreign pages; a fault during the repair of a fault |
| `Executor` | 2 and 1 tasks, 2 ticks between statistics | a task that wakes another of either executor, and one that does not run |
| `Supervision` | 2 tickets (app, net), timeout 4, connect timeout 2, 2 attempts | outages and waits of updates shorter and longer than the timeout, twice in a row, at every position of both tasks; a session with a quiet, vanished or refusing broker |
| `Regulator` | none: all of `u16` | for which settings the arithmetic is exact |
| `EventsCycle` | 2 versions, no restart | finding: `update` and `publish_task` wait for each other |

`CHECK_DEADLOCK` is off in `UsbPd`, `Storage` and `Regulator` as well, where the system ends: a boot is
through, all versions are stored, or all settings are done.

Bounds on counters (`MaxVersion`, `MaxCount`, `MaxRestarts`, `MaxResets`, `MaxFaults`) are guards of the
actions that count; `Horizon` ends the counting of ghost ages above any duration
they are compared to. Each property has a mutant: an operator marked `Slip` next
to the definition it replaces, with a mistake the code could have, that the
run's property catches.

The runs spend their properties on what TLC alone can show or what a reader wants to see
on an instance. Type correctness is a theorem of every component's module, and so are `FedByAll`,
`SendNeverWaits` and `WorkIsSignalled`, which no run repeats.

### Finding

`config.rs:98` says of `publish(..).await` "Await until all consumers had their fill". That
await is done with the lock held, in the task that empties the
outgoing channel. If `publish_task` is waiting for room in that channel while it has
an unread settings message, neither moves again. `EventsCycle` gives the schedule: statistics
and the record are due (periods of 1 s and 10 s) with `push_task`'s 30 s, and an incoming message
is processed before `publish_task` is polled for the settings. The watchdog ticket of
`net_task` ends it by a reset. `UpdateReturnsOrCycle` in run `Events` shows that only this
cycle and the one of `push_task` with `update` keep an update from returning, and `CyclePermanent` that nothing but a restart ends the first. The
second takes an update that waits for `publish_task` while the 30 s elapse, so that
`push_task` queues for the lock with that update's message still to read, and
another update that takes the lock first, in the same poll (the mutex is unfair).

What the passing runs say that a reader may not expect:

* As committed (no Stats, no Events) a broker that is silent for the timeout, 30 s,
  resets the chip: `net_task` feeds between messages only. `ResetNeedsOutage` counts time without
  messages as an outage, and `SessionsLast` needs a message each second (`Reporting`).
* Fully assembled, a working network with messages flowing can still end in a watchdog reset: a received
  update waits for its consumers with `net_task`'s ticket unfed (`net.rs:214`), in the cycle of `EventsCycle` for ever.
  `ResetNeedsOutage` counts that wait as an outage, and `SessionsLast` needs updates to return (`UpdatesReturn`) and a
  broker that does not end sessions (`SessionsKept`).
* "Await until all consumers had their fill" (`config.rs:98`) waits for room, i.e. until the message
  before is read; the message of this update may be unread when `update` returns. Nothing
  relies on more.
* "retry until we get an Ack" (`net.rs:168`): `send_message_qos1` gives up after five unrelated
  packets (`SendUnrelated`), and its caller only logs that.
* `link_up` without an address occupies its executor until the watchdog resets the chip. Its last
  feed and that of `app` may be old by then, so this can cost a session for an outage
  of a few seconds. `ResetNeedsOutage` names it as its exception, and `Recovers` says that the
  device comes back.
* A missed disconnection, a halted panic, an update that does not return and a session nobody answers
  are all ended by the watchdog alone.
* A broker that refuses, or sends a retained message before the acknowledgement of the subscription, panics
  (`net.rs:280-288`). `Recovers` needs one that accepts in the end (`Fine`).
* Settings of `vout_mv` from 0 to 797 mV wrap below zero in a release build: 0 mV gives a reference
  code for about 14.6 V. From 21313 mV the field of 11 bits wraps, from 3200 mA that of 7 bits.
  `VoltageHeld` and `LimitHeld` say these bounds are exact. No document of the
  repository limits the settings.
* If a page has become unreadable and the formatting that follows is cut short, a marker on a later page
  may survive. `MarkerMeansFormatted` leaves this out by `damaged`.
* A stored value that cannot be deserialized panics at each boot (`config.rs:69`, `record.rs:47`); that is
  the exception in `BootsUnlessUnreadable`.

### Fairness

Weak fairness of a task's steps: the executors poll every task that was
woken, and bus transfers, flash operations and timers end. Time passes (`Tick`).
Strong fairness where a step needs a lock that others take again and again:
`MonitorLock` and `PersistLock` of PowerExt (the mutex is unfair, but
`config_task` takes it once per message, and messages arrive at human pace), and
`Rest` of Config (updates do not keep all tasks busy forever). Nothing is assumed of
the environment: no one has to update, connect, log or acknowledge. In Config and Record that includes
`publish_task`, which reads at any time or never again (`Consume` has no fairness). Events has it in detail and
assumes only that network operations end (`NetTask`; rust-mqtt and the socket have timeouts of 10 s).

UsbPd: transfers are made, requests that are not stuck end, and the watchdog resets a boot that
waits for one that is. Storage: boots go on. Executor: strong fairness of the handler, the thread
and the drivers' interrupts, because each may be kept off again and again by what is above it, but
`power_ext`'s tasks and the drivers leave time to the rest. Supervision: tasks are
polled and time passes, no more. A broker need not publish (`NetReceive`), an update need not return
(`NetProcessed`), a socket need not notice that its peer is gone (`SocketAborts`), and nobody panics of necessity. `Recovers` and
`SessionsLast` are about a network that is there from some time on, with a broker that accepts (`Fine`): joining
it and getting an address then takes less than a second (`LinkWaits`). What `SessionsLast` needs besides stands in
its premises, and without any of them it fails.

## Proofs

TLAPS checks these for every value of the constants; the only assumptions are the
`ASSUME`s of the modules, which TLC evaluates in the runs, and where a theorem says so one
hypothesis about a constant: that `publish_task` is a consumer (`"publish" \in Subs`, theorems about Events), that `app` and
`net_task` hold different tickets (`Net # App`, theorems about Supervision), that push_task and config_task are the only consumers
(`PushNeverBlocksUpdate`). Every invariant and action property that a run checks is proved.

* `SupervisionProofs`, about Watchdog: type correctness, `NoSpuriousReset`, `HangDetected`, `FedByAll`. The
  invariant: a clear bit's ticket is at least as old as the peripheral's last feed, a set one's at
  most, and as soon as there is a ticket some bit is clear. `hwAge` is then bounded by the
  age of a live ticket. `NoSpuriousReset` alone is not inductive: it does not know which
  ticket keeps the round open.
* `PowerExtProofs`: type correctness and the five safety properties. The invariant says
  for every position of `monitor_task` what `state`, `oe`, the pin and the local
  flags are (`Agreement`), that a timer and the age of what it measures add up to
  at least its duration (`Covers`), that `ocp_since` is the episode's age and one episode is unrecorded while one
  runs or is about to be logged (`EpisodeKept`), and that the registers agree except between
  the two writes of the lock's holder (`RegistersCoherent`).
* `ConfigProofs`: type correctness, `DurableBeforeVisible`, the refinement of Replica, and, for
  consumers `push_task` and `config_task` only, `NeverStuck`. The invariant
  is the order `applied <= applying <= chan.val <= flash = settings`, and that
  `push_task`'s period is not over while a message is unread.
* `RecordProofs`: type correctness, `SendNeverWaits`, `DeadlineKnown`, `NothingForgotten`, `WearLimited` and
  the refinement of WriteBehind. The invariant: `sync_at` is set exactly while one write is
  scheduled, so there is at most one message, and it finds its deadline.

* `StorageProofs`: type correctness, `MarkerMeansFormatted`, `NothingLost`. The invariant, as long
  as no page has become unreadable: without a marker no page has an item, with it nothing is foreign and nobody erases; what
  `erase_all` has passed is empty and not foreign. `MarkerMeansFormatted` alone does not say why
  `StoreMarker` finds the partition clean.
* `ExecutorProofs`: type correctness, `WorkIsSignalled`, `NothingSleptOver`, `IdleAtMostAll`. The
  invariant is `WorkIsSignalled` with what each position implies: a batch only while its
  executor runs, an empty queue while the thread sleeps, and no nap but then. `NothingSleptOver` follows,
  but by itself it does not survive the wait: it does not know that a queued task has set the flag.
* `ConfigProofs`, about Events: every step of the assembly is one of Config's or leaves Config's
  variables (`StepOfConfig`). So the assembly implements Config (`EventsImplementsConfig`) and has what is
  proved of it, with the refinement of Replica. With the positions of the network's tasks, Config's
  invariant gives the type invariant. `CyclePermanent` goes through the actions: each that could read the
  message or take the outgoing one waits for the other.
* `SupervisionProofs`, about Supervision: type correctness and `ResetNeedsOutage`. The
  invariant: the rounds of the watchdog (a set bit's ticket was fed since the peripheral, a clear one's not, one bit is
  clear), what holders other than `net_task` promise, and for `net_task` that
  its ticket is at most a second older than the outage, with what each position that waits
  knows (`NetKept`); waiting for an update is such a position. A reset then names a ticket that nobody fed for the whole timeout.

* `UsbPdProofs`: type correctness, `WritesBlank`, `ProgrammedWhenRunning`, `NeverUnprogrammed`, for any number of
  sectors. The invariant says for each position of the boot what it knows: how far reading has come and that
  what was read is what the memory holds (`ReadSoFar`), that sectors before `sector` are programmed and those behind
  it blank (`WrittenSoFar`), what the registers hold (`Registers`, `Operations`), and that from the first
  write of NVMCtrl0 on a request in execution is this boot's own (`OwnRequests`). Before it, the
  controller may still execute what an earlier boot asked for: `Harmless` says, at every position, that
  such a request does not erase a memory that is right and writes only what belongs into a blank sector.
  None of the three properties is inductive without these.
* `RegulatorProofs`: type correctness, `VoltageHeld` and `LimitHeld` for every sequence of messages and every set of edges. The run
  covers all settings, but sequences of messages only between settings at the edges; the proof
  reduces the shifts and wraps to intervals of the settings (`CodeOf`, `CodeWraps`, `LimitOf`).

Only model-checked: everything about liveness, which is out of the prover's reach: `HangEndsInReset`, `FaultTurnsOff`, `Recovers`,
`UpdateReturns` and its relatives, `LastSettingsApplied`, `SettingsGetThrough`, `RecordReachesFlash`, `RecordOffered`,
`BootsInTheEnd`, `BootsUnlessUnreadable`, `InterruptsReachTasks`, `SelectEnds`, `SessionsLast`.

## Not modelled

* `bsp`: assignment of pins and peripherals; its one action, starting the interrupt executor, is
  in Executor. `logger`, `serialnumber`: output and constants.
* `state_task` of `usb_pd.rs`, which only logs; that it panics on a state the enumeration does not
  have is one of UsbPd's resets.
* WiFi, TCP, MQTT, sequential_storage, `raw::Executor`, the two chips: only what the code relies
  on, marked external in `PROJECT.json`. What a receive that is dropped by the select of `mqtt_connected` leaves in the
  stream depends on rust-mqtt, and is not in any module.
* Parsing of settings and formatting of messages; errors of the buses other than as resets.
* Errors of the flash itself. One in the fetch of the marker would format the partition (`storage.rs:98-113`
  takes any `Err` for an unformatted one).
* `Stats::latest_data`, which has no caller, the polling of the ADC and the conversion of its samples
  (`value * 2` and `value * 987 / 100` end in `u16`; an ADC of 12 bits stays far below).

Further work: an abstract circuit breaker that PowerExt implements, and a map from keys to values
that Storage implements.
