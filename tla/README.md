# A formal model of the WQM-1 firmware

The WQM-1 is a water-quality monitor: a Raspberry Pi that samples probes,
drives four relays by rules, and reports over LoRaWAN and HTTP. Its firmware
(`src/`, Python) is one process of worker threads under a supervisor, an
update agent in a process of its own, a web front end (the Service Window), a
setup page on a hotspot, and systemd units that keep them alive. This directory
holds TLA+ modules of the parts whose correctness depends on what happens
*between* steps: threads that share a database, coils or a session; processes
that share a file, a bus or a radio; a process that may die anywhere; networks
that lose answers. TLC checks the modules on small instances, and TLAPS proves
the main results about twenty-three of them for every value of the constants.

Paths are relative to the repository, or to its `src/` where a component is named
(`PROJECT.json` puts `src/` before them), unless they name a `.tla` or
`.cfg` file of this directory.

To reproduce: `tlc -workers 2 -config X.cfg X` with a module `X` that has a .cfg, `tlapm XProofs.tla`
for the proofs. `PROJECT.json` lists runs, mutants (small faults in a definition,
each of which breaks the property it is paired with), the source lines behind
every definition, hazards, findings and theorems.

## 1. Inventory

### Threads and processes

| Actor | Code | What it shares |
|---|---|---|
| sampling worker | `src/app/workers.py` `SamplingWorker` | database, relays, hold, sensor monitor, publishers |
| radio worker | `RadioWorker`, `_JoiningRadioWorker` in `src/main.py` | LoRa session, database, relays (downlinks) |
| SX1262 alert thread | `src/radio/sx1262.py` | one event of the driver |
| cloud-sync worker | `CloudSyncWorker` | database, cloud client |
| command worker | `CommandWorker` | cloud client, relays, dispatcher, event queue, settings |
| register, heartbeat, GPS, smart-breaker workers | `DeviceRegisterWorker`, `HeartbeatWorker`, `GpsWorker`, `integrations/smart_breaker` | key store, settings, clock, relays |
| supervisor | `src/app/supervisor.py` (main thread) | beats, database rotation, watchdogs |
| command socket | `src/main.py` `_cmd_listener_loop` | everything the commands change |
| relay timer threads, AWG timers | `src/control/relay.py`, `src/main.py` | coils |
| MQTT and HomeKit threads | `src/integrations` | announcement, accessory |
| OTA agent | `src/ota`, its own unit | releases, `current` link, state file |
| Service Window | `src/service_window` | configuration and calibration files, key store, RS485 adapter, radio, socket |
| setup page, boot fallback, join and retry services | `src/utils`, `scripts` | radio lock, profiles, mode file, status file, clock |
| systemd, NetworkManager | `systemd/*.service` | restarts, watchdog, `/run/bluesignal`, autoconnect |

### Components

For each: state, operations, what is hard, what makes it correct.

**Reading buffer and cloud sync** (`storage/database.py`, `cloud/client.py`,
`app/workers.py`). State: the `readings` table with a sync state per row, the
batch a POST is about, the rotation settings. Operations: insert, query the
oldest pending rows, POST with retries, two marks, rotation of resolved and of
pending rows. Hard: each SQL statement is a transaction, and sampler, sync
worker and supervisor run between them; answers get lost; the process dies
between POST and mark; the server refuses a whole batch; the settings that permit
dropping pending rows change at run time. Correct if rows agree with what the server decided, none is forgotten,
none is sent again once resolved, rotation respects its limit, and every row is
settled in the end.

**Relay bank** (`control/relay.py`). State: four pins, their bits, one auto-off
thread per channel. Operations: set, arm, timer expiry, all off. Hard: a timer
that has run out races the request that supersedes it; a GPIO write can raise in
the middle. Correct if every energised coil under a ceiling has a live timer,
bits agree with pins, and a superseded timer does nothing.

**Rules engine, irrigation hold, commands** (`control/rules.py`,
`control/irrigation_hold.py`, `main.py`, `app/reboot.py`). State: suspended
probes, pending fail-safes, the engine's own timers, cooldowns and hourly
budgets; the hold's snapshot of its settings, what it drove and where.
Operations: one evaluation per sample, downlink and socket commands, reload,
fail-safe before a reboot. Hard: ownership of a channel is asked before it is
used; settings are reloaded from another thread; a write fails and is or is not
tried again; the engine and the relay controller keep time separately. Correct if
no coil stays on for a frozen probe, the hold knows each coil it energised, nobody
else drives the channel it owns, and the engine keeps to its own limits.

**Worker threads and supervisor** (`app/workers.py`, `app/supervisor.py`). State:
beats, error streaks, intervals, time since the watchdog was petted. Hard: the
deadline is computed from the interval a worker has *now*. Correct if a hung
worker brings the service down in bounded time and no other worker does so by itself.

**Device commands** (`cloud/device_commands.py`, `cloud/device_hardware.py`,
command worker). State: answers by command id, in memory and on disk, undelivered
results, half-done calibrations. Hard: redelivery, lost replies, a bounded
retry list, crashes between effect and record. Correct if commands act at most
once, the cloud's record is true, and every command is answered or expires.

**OTA agent** (`ota/agent.py`). State: release directories, the `current` link,
the state file, the running service. Hard: a death or an exception at any step;
the agent runs from the release it is installing; the self-test infers life from
traces that the old service also leaves. Correct if the link always leads to a
complete release, the state file tells the truth, and a release that does not
work is left again.

**LoRaWAN session, MAC layer and radio** (`radio/lorawan.py`, `radio/sx1262.py`,
`storage/database.py`, `main.py`). State: keys, both frame counters, DevNonce,
recent AppNonces, link-check counters, one database row; receive windows, channel
plan, data rate, answers still to be sent; the chip's mode and set-up, one event.
Hard: two threads take snapshots of the session and write them later; the network
may forget the session and never say so; server and device change a parameter at
different times; an interrupt edge of one call arrives in the next. Correct if
numbers are fresh, a downlink acts once, keys and windows are shared or will be,
silence is bounded, and a call of the driver reports its own outcome.

**Smart breaker** (`integrations/smart_breaker`, `service_window/routes/awg.py`).
State: desired and confirmed position, queued open, unreachable-since, fail-safe,
the interlock relay, the token, plain timers. Hard: the fail-safe overwrites a
queued command, its relay write may raise and is not retried, others write the same
relay, the timer that ends an on-period cannot be cancelled, a reload moves the
binding under a running controller. Correct if what is queued is wanted, the
fail-safe stops the load, and the controller does not start a load it stopped less
than the short-cycle time ago.

**Device registration and key store** (`cloud/register.py`, `utils/device_keys.py`,
`service_window/routes/setup.py`). State: identity seed and temporary file under a
lock, key file, register state, `config.yaml`, the key in memory. Hard: two
programs register; each of four files is written by itself; a late 401 for an old
key takes a fresh one. Correct if there is one identity, and a claimed unit gets
online for good.

**Configuration** (`utils/config.py`, `service_window/config_editor.py`,
`main.py`). State: `config.yaml`, the overlay with its version, the settings in
force, what the components were built from, the event queue. Hard: writers replace
the whole file; persist, reload, announcement and restart are separate steps; the
queue is bounded, three workers fill it, and a post is not repeated. Correct if the version reported is in
force and whole, the last valid document comes to run, and the owner hears of it.

**WiFi join, hotspot, setup page, clock repair** (`utils/netctl.py`,
`wifi_setup.py`, `join.py`, `join_service.py`, `cardmove.py`, `captive_portal.py`,
`scripts/wqm1-ap-fallback.py`). State: profiles, the active link or hotspot, the
radio lock, the join state file, the mode file, the boot hold, a marker of the
clock step. Hard: five processes drive one radio, and one of them without the
lock; each may be killed anywhere; a card may be moved; the directory of the mode
file belongs to three units. Correct if a proven network is kept, a failure leaves
the unit reachable, the unit goes back to its network, port 80 follows the
hotspot, and the clock is stepped once.

**Sampling and sensor health** (`sensing/monitor.py`, `adaptive.py`,
`app/workers.py`). State: a window of values per probe, suspensions, the adaptive
interval. Hard: the window is pruned before it is judged; late cycles. Correct if
a dead probe is suspended and a live one comes back.

**Drivers and calibration** (`sensors/*.py`, `sensing/calibrate.py`, `main.py`).
State: which board answers, which drivers exist and with which coefficients, the
calibration file with two writers, the bus and its stray answers, the pulse
register, the receiver's power toggle. Hard: a board that is plugged in late; two
processes on one adapter; a counter that must survive a power cut; a toggle nobody
can read back. Correct if each channel is sampled with the calibration in force or
said to be faulted, a probe is moved or its owner told, and the bill never goes back.

**Publishing** (`integrations/home_assistant`, `integrations/apple_home`). State:
the client, the retained state and the will on the broker. Hard: reconfiguration
while connected, connections that are cut. Correct if nothing retained says online
for a unit that is gone.

**Diagnostics** (`diagnostics/boot_status.py`). State: the status file, twice, with
one temporary name for every writer. Hard: writers of two users merge without a
lock, and any call may fail on a full or read-only card. Correct if the card says
what was last said.

**Not modelled**: board detection and pin tables (once, at boot), the pages and the
login of the Service Window, burn-in and the bench simulators, image building and
shell scripts. Section 6 has the details; `PROJECT.json` lists them as components.

## 2. The modules

| Module | Models | Rests on |
|---|---|---|
| `ReadingLog` | what the reading buffer promises, abstractly | - |
| `CommandLedger` | what the path of a cloud command promises | - |
| `ReleaseTrial` | what an update promises: trial, acceptance, way back | - |
| `UnitIdentity` | what the identity of a unit promises | - |
| `SettingsInForce` | what remote settings promise, version by version | - |
| `WaterRegister` | what a totalizer promises | - |
| `StoreForward` | the buffer, its three threads, settings, key, restart | implements `ReadingLog` |
| `RelayBank` | the relay controller and its timer threads | - |
| `RelayControl` | rules, hold, commands, reload and reboot over the bank | `EXTENDS RelayBank`, and implements it |
| `RuleLimits` | cooldown, hourly budget, timed periods and ceiling on a clock | - |
| `SmartBreaker` | the AWG circuit: controller, queue, fail-safe, timers, binding | - |
| `Supervision` | worker threads, supervisor, systemd watchdog, on a clock | - |
| `DeviceCommands` | commands, the handled cache, results and their retries | implements `CommandLedger` |
| `OTAAgent` | the update agent, services, systemd | implements `ReleaseTrial` |
| `Registration` | identity seed, key, register state, uploads; two programs | implements `UnitIdentity` |
| `Configuration` | `config.yaml`, cloud overlay, reload, restart, verdicts | implements `SettingsInForce` |
| `LoRaSession` | join, counters, persisted row, link check | - |
| `MacLayer` | receive windows, channel plan, data rate, MAC answers | - |
| `Transceiver` | the SX1262 driver and its alert thread | - |
| `Sampling` | the sampling cycle, sensor monitor, adaptive interval | `EXTENDS Publishing` |
| `Publishing` | Home Assistant and Apple Home, broker, will | - |
| `Probes` | the analog board, drivers, calibration and its two writers | - |
| `Position` | GPS receiver, power toggle, clock and its label | - |
| `Rs485` | the Modbus bus of two processes | - |
| `FlowMeter` | pulse register and clamp-on meter | implements `WaterRegister` |
| `WifiSetup` | boot fallback, retry, joins, profiles, hotspot, Keep and Finish | - |
| `ClockRepair` | the proof of BlueSignal in a join, and the clock step | - |
| `Portal` | the setup page's server and what starts and stops it | - |
| `BootStatus` | the status file on the card and its writers | - |
| `...Proofs` | theorems and proofs about twenty-three of these | TLAPS |
| `MC...` | instances for TLC; `OTAAgent` and `Registration`, whose constants are plain sets, get theirs in the .cfg alone | |

Most modules share no state and are composed where they interact: `RelayControl`
with its bank, `Sampling` with its publishers. Six modules state a promise without
saying how it is kept, and the module of the component has it as an `INSTANCE` under a
refinement mapping and as a property. Four MC modules (`MCRelayControl`, `MCLongRun`, `MCSensing`,
`MCFieldDevices`) put modules that share no variable into one run. They are
*sums*, not products: a variable `part`, chosen in the initial state, says which
module moves, and the others stay in one initial state. Every behaviour of each
module is a behaviour of the run and nothing is explored twice.

Conventions. One action is one stretch of code between two points where another
actor can act: a SQL transaction, a section under a lock, a write to a file, a
system call, a wait. What a thread holds in local variables is a variable of the
module (`batch`, `reply`, `snap`, `cur`, `job`), and a `pc` says where it is. A crash
resets these and keeps what is on disk. *History* variables, grouped and marked,
record what a property needs to know about the past; no guard reads them, except
that LoRaSession counts the joins in `asked` to bound them, and that Rs485 stops a behaviour at a
state that is already outside its property (see below). *Bounds* are constants
marked as such; they limit faults, crashes, messages and inputs and appear in
guards only. Each module states its type invariant. Definitions said to be "as it
would be" or a "fault" are the faulty forms that the mutants put in place of the
definition below them; `Next` uses none.

### StoreForward

`row[r]` is the sync state of each row, `verdict[r]` what the server decided on
it. The sync worker goes `idle -> posting -> mark_synced -> mark_failed -> idle`:
`GetUnsynced` is the query, `AttemptFails`, `AttemptRefused` (401) and
`AttemptAnswered` one HTTP attempt each, in all of which the server may have
processed part of the batch; `MarkSynced` and `MarkFailedPermanent` are the two
transactions. `refused` has the rows for which the server refuses the batch they are
in as a whole (a 4xx): nothing is marked, and the next cycle posts the oldest rows
again. `batchSize` is chosen at the start, so that a row may stand behind the batch.
`rotate()` is four steps because it is four statements. `Register`,
`ProvisionCloud`, `ReloadConfig` change the settings from other threads, and
`Restart` takes the process away at any point. `legacy` is a server whose replies
name no rows, for which the client falls back to marking the whole batch. Ranks
of timestamps are arbitrary (`stamp`), because the clock may be wrong when a row
is inserted.

The refinement mapping to `ReadingLog`: `held` is the set of pending rows,
`settled` the rows with a verdict, `shed` those rotated away while pending,
`capped` is `rotatePending`.

### RelayBank, RelayControl and RuleLimits

A method of the controller is atomic because it holds the lock throughout. A timer
thread is `waiting`, then `fired` (its wait is over, it wants the lock), and then
either acts or finds that it is no longer the registered one. `stale` is history:
a newer request came for the channel. Writes that raise are actions of their own
wherever they leave something half done (`AutoOffFails`, `AllOffFails`); a `set`
that raises changes nothing.

RelayControl adds the callers. The sampling thread evaluates (`Evaluate` collects
the fail-safe OFFs, the expired engine timers and the rules that fire), applies
each action in a step (`ApplyDrop`, `ApplyRule`, `ApplyFails`), arms durations
(`ApplyDuration`), then runs the hold. The hold runs under its lock but other
threads see the coils between its writes, so `Configure`, `LetGo`, `TakeOver`,
`Configured`, `EvaluateHold`, `Judge` are steps and `lock` keeps out the second
thread that wants in. Commands look (`CheckOwner`), write (`CommandSet`) and arm
(`CommandArm`). The socket thread and the LoRa worker are one command thread here:
their steps are the same and at most one is under way; reload is separate, since
it comes from the socket, the cloud or the sampling thread itself. Thresholds,
schedule, cooldown and hourly budget only ever keep a rule from firing; RelayControl
lets any rule of a healthy probe fire or not.

RuleLimits is the other half: one relay that the hold does not own, the rules of
one probe, and time. A `Cycle` is one step (`Swept`, `Reverted`, `Matched`,
`Charged` are its parts in the order of `evaluate`), `notes` is what the engine
keeps (its own timer, since when the relay is on, when it let go, the seconds of
the hour), `autoOff` the relay controller's timer, which the engine does not see.
Time stands still while the controller's timer is due.

### SmartBreaker

A call of the controller holds one lock from its first line to its last and is one
step: `Command`, `Poll`. `service` is what the vendor does with the call: answer,
act and answer too late, stay away, lock the account. `FailSafe` may follow in the
same step when a failed call is the one by which the grace period runs out.
`TimerFires` is main.py's plain timer, whose end is one more OFF that nothing
cancels. `Bind` is the installer's file, `Reload` brings it into the running
service without building a new controller; `mixed` is history of a reload that
changed the vendor under it.

The relay is not the controller's alone: `OtherWrites` is a `relay_set`, a rule, a
downlink on FPort 100 or the ceiling's timer, which switch its channel like any other.
While `jammed` a write raises; the controller logs that and goes on, and a request is
refused. `rest` is history of the time since the load stopped, whoever stopped it,
`ordered` of whether a request or the fail-safe did, `spared` of a fail-safe OFF that
left the relay up, or found it raised again.

### Supervision

Time is in units of 20 s. A worker steps (up to `MaxStep`), beats, and waits for
its interval less the time spent, or its backoff after an error. The supervisor
looks once per unit and pets the watchdog if nobody is overdue. A `Countdown`
worker is one whose `interval_s()` is the time left to a due date
(`DeviceRegisterWorker`). `slept` and `misjudged` are history: a wait that was
computed from a longer interval than the one it is judged by. `tardy` is history too:
who has been overdue at a look since the last pet; `TakenTurns` says that it was more
than one. `StepsAreShort` says of the constants that no wait and step outlasts the
deadline and the watchdog together; `MCLongRun` assumes it, and a step that long is as
good as a hang.

### DeviceCommands

The command worker retries undelivered results, fetches, applies each command
(`Apply`: the handler and its effect), stores the answer (`Store`: memory, then
the cache file, whose write may fail), posts it (`PostResult`). `kind` keeps apart
the halves of a calibration, since `finish` without its `start` is rejected after
a restart; a malformed command is a rejected one. `Expire` is the command's
`expiresAt`, on which device and cloud are taken to agree.

`CommandLedger` sees of this the record in the cloud, how often the device acted, and
the three licences: `lost` (an act that a crash or a failed save may have erased from
the cache, `torn`), `half` (`partial`), `dropped` (`forgotten`). An act needs a command
that is asked for, in time and not acted on, unless its memory may be lost; an answer is
the truth and the end of the command. The worker's list, its cache file, the retries and
the restart are stutters, or licences.

### OTAAgent

`rel` is what lies in each release directory, `current` the link, `record` the
state file, `svc` the main service, `agent` the release the agent's own code comes
from. The steps of `_apply`, the self-test, `_rollback`, pruning and
`recover_incomplete_apply` are separate because the agent may die, or a call may
raise (`StepRaises`), between any two. `health` says what a release is worth:
*good*; *mute* (active, does no work); *down* (never active); *dead* (not even the
agent in it starts). The poll, download and verification change nothing that is
installed and are one step, `Fetch`, which may be attempted at any time.

`ReleaseTrial` sees the release in use, the complete ones, and the one to go back to:
while the state file says that an update is under way and `current` already leads to it,
that is `record.previous`. It is what survives the agent, so the promise needs no agent
to be alive: the way back stays complete until the trial is accepted or undone. `stale`
and `misled` are the licences: a state file that an update which raised has left behind,
and an agent that went by it.

### Registration

Two programs, the firmware and the one attempt after a join, each read or create
the seed (`ReadIdentity`, `DrawIdentity`, `WriteIdentity`, `RenameIdentity`,
`SyncIdentity`, under the file lock) and then ask (`Ask`), are judged by the cloud
(`Judge`) and write what they got, one file a step (`StoreKey`, `ConfigKey`,
`MarkRegistered`). `req` counts the requests in flight by the key they carry;
`Denied` is a 401, after which the key leaves memory, file, configuration and
register state in four steps. `loose` says that the last rename is not on the
medium yet: `PowerCut` may undo it. The clock is right or wrong (`skew`), and an
answer brings the offset.

`UnitIdentity` sees three sets: what the next reader of the card would get (`OnCard`: the
seed file, or else a whole temporary file), what the programs go by, and what the cloud
has bound. The card's is drawn where the temporary file becomes whole, which a kill or a
power cut in the middle of the write may bring about too; the rename is a stutter.

### Configuration

`overlay` is what the command worker persisted, `settings` what a reload made of
file and overlay, `built` the cold values the components were built from, `applied`
the hot ones last handed to their users. The worker's poll is `Poll`, `Fetch`,
`Refuse` or `Persist`, `Reload`, `Announce`, `Drain`; anybody may reload between
them, and a kill may come. `events` is the bounded queue: the command worker, the
sensor monitor and the smart breaker (`OtherEvent`) put into it, a full one refuses
(`Emit`), and a poll takes the oldest up to the limit (`Drain`). `writer[w]` reads the whole of `config.yaml` and replaces
it. A value stands for the settings of a kind: `hold` is a hot key, `flow` a cold
one, `fit` and `key` are set on the unit only.

`SettingsInForce` sees four versions (published, kept in the overlay, read, reported),
the values read, and whose saved settings are among them. `Persist` keeps a version,
`Start`, `Reload` and `ReloadCommand` read it, `Heartbeat` reports it.

### LoRaSession, MacLayer, Transceiver

In LoRaSession keys are the pair of nonces they are derived from, so "same keys"
means what it means in the code. A join window may hear any JoinAccept the network ever
sent whose AppNonce is not among the recent ones: `stray` is history of keys made of one
that was missed in its own window. The radio worker's `join()` and `send_uplink()`
are split at each `_persist`, transmission and receive window. `Row` is the
snapshot that `_persist_session` takes, `Commit` the transaction that writes it:
between them the other thread runs, so an older snapshot may overwrite a newer row.
`late` and `behind` are history of exactly that; `misled` says that the process has
since restarted from such a row. The network refuses a DevNonce it has seen, may
forget the session, and its frames may be lost or heard again.

In MacLayer a step of the radio worker is one action. The server repeats a request
until it hears the answer and uses the new parameters from then on; the answers
ride in `fopts` until an uplink with them is heard; `size` is the reading's length,
with which the answers have to fit. In Transceiver `chip` is the chip's mode and
set-up, `edge` an interrupt that the alert thread has not delivered, `event` the
driver's one event; a wait may end at any moment.

### Sampling, Publishing, Probes, Position

One probe with two sources stands for the channels. A `Cycle` reads, judges,
publishes, picks the next interval and stores, `late` by a member of `Late`.
`Observed` is the monitor's window, pruned before it is judged. In Publishing
`broker` has the retained availability; `Disconnected` makes it publish the will,
`Connected` is paho's reconnect.

In Probes `adc` is the board as the firmware knows it, `drivers` what was built and
with which coefficients, `held` what the sampler holds. `Retry` is the sampling
cycle's retry of a board that was missing at start; `CalibratePh` and the two
wizards are the three writers of the calibration. In Position `awake` is the
receiver and the driver's belief a variable of its own; `StampRow` and `LabelRow`
are the two moments at which a row gets its timestamp and its clock source.

### Rs485, FlowMeter

`wire` has the answers on their way and `tty` what arrived and nobody read: both
processes read from the same adapter, and an answer is checked for length and CRC
only. `job` is the exchange each process is in. A behaviour ends where a frame was
taken for another or two devices share an address: what follows is outside the
property, which excepts both, and unbounded in kind. FlowMeter has the edges that the
callback counts, the count that is persisted at each sample and the row that carries
it; `lost` is a count the database refused. `WaterRegister` sees the edges, the register of
the latest row and `lost`.

### WifiSetup, ClockRepair, Portal, BootStatus

In WifiSetup a step is what a process does between two waits: `Boot...` is the
fallback, which asks no lock, `Retry...` the timer's unit, `Join...` the worker of
the join lock, started by the page or by the Service Window; `link` and `saved` are
NetworkManager's, `record` is `join-state.json`. `gap` is history of a failure that
nothing recovers from (a hotspot that did not start, a join killed after it recorded
its failure); `wiped` of a Finish, or of a Keep of a held profile; `muted` of a proven
network whose autoconnect the boot of a moved card turned off in the middle of a join.
A power cut may move the card, and a second one may come while the first boot is
still holding (`boot` is "held").

ClockRepair has `now` in years, the verdict of a probe, the step and its two
records (memory of the process, marker in `/run/bluesignal`). Portal's loop turns
(`OpensOrCloses`, `ReadsJoin`, `ClearsWatch`), clients hold permits; `mode` is the
mode file. A server that is closed (`Closes`) leaves its threads running, and the next
one has a semaphore of its own: `ours` tells their threads apart. BootStatus' writers
compose the text from what they know and what was there (`Begin`), open the temporary
file of one name (`OpenTmp`), flush, rename (`RenameTmp`), and copy to the card; an inode
that is renamed away stays open. Any of these calls, and the helper, may fail for a
writer that is alone (`OperationFails`).

## 3. The runs

| Run | Instance | Distinct states | What it shows |
|---|---|---|---|
| `store_forward` | 2 rows, batches of 1 or 2, rows refused with their batch, limit 1, 2 attempts, 1 restart, fair | 247,000 | `MarksAgreeWithCloud`, `NothingForgotten`, `ImplementsReadingLog`, `EventuallySettled` |
| `relay_control` | 2 channels, 2 timers, ceiling below the duration, 2 rules of one probe, 1 failing write; on the clock 3 rules, cooldown and budget 2, ceiling 3, days of 2 hours of 6 units, until time 12 | 2,054,000 | `BoundedCoilIsCovered`, `DriversKeepTheirMandate`, `HoldForgetsNoCoil`; `RulesKeepTheirLimits` |
| `device_commands` | 2 commands in 3 combinations of kinds, room for 1 undelivered result, 1 crash, 1 failed save, fair | 501,000 | `ImplementsLedger`, `CloudKnowsTheTruth`, `EveryCommandAnswered` |
| `ota` | 3 releases of any health, 2 assignments, 1 death, 1 raising call, fair | 647,000 | `ImplementsTrial`, `RecordTellsTheTruth`, `BadReleaseIsLeft` |
| `smart_breaker` | 4 bindings, short-cycle time, grace and duration of 1, relays that jam, other writers, fair | 782,000 | `QueuedOffIsWanted`, `FailSafeStopsTheLoad`, `NoShortCycle` |
| `wifi` | 2 networks (one whose signal or password may be bad, one that may have no internet), 1 ask, 1 fault, 2 power cuts, fair | 526,000 | `ProfilesAreHonoured`, `FailureStaysReachable`, `SiteNetworkReturns` |
| `registration` | 3 seeds, 2 uploading threads, 1 key change, 1 attempt by the other program, 1 trouble, fair | 503,000 | `ImplementsIdentity`, `UploadsAtLast` |
| `configuration` | 3 documents, 2 writers, queue of 2 drained one at a time, 2 events of others, 1 fault, fair | 1,560,000 | `ImplementsSettings`, `DesiredRuns`, `VerdictReachesOwner` |
| `sensing` | window 3, hold 2, intervals 2 and 1, cycles late by 0 or 1; 2 coefficients | 346,000 | `NoGhost`, `ChannelsAreAccountedFor`, `BoardComesBack`, `LabelIsHonest` |
| `long_run` | workers in units of 20 s; 2 joins, 2 frames each way, 1 rejoin, 1 crash, 1 failed save; 3 writes of a card by 2 writers, 1 failing call or kill | 7,711,000 | `WatchdogIsFair`; `SessionIsSound`, `FramesCountOnce`; `CardTellsTheTruth` |
| `field_devices` | 2 channel blocks, readings of 10 values with and without a position (51 and 40 bytes); 2 probes on 2 addresses, 1 bus fault, 2 calls; 2 edges and 1 cut; 2 kills; 1 permit and 2 threads, 2 SSIDs, 1 fault | 408,000 | `InStep`, `LinkReturns`; `CallsAreWhole`; `MovedOrTold`; `ImplementsRegister`; `OneStepABoot`; `PortalFollowsTheHotspot` |
| `stuck_probe` | as `sensing` | violation | `SilentProbeIsSuspended` is false of the code (section 5) |

`SessionIsSound`, `RecordTellsTheTruth`, `DriversKeepTheirMandate` and
`CallsAreWhole` are conjunctions of named parts, which their modules state one by one.
Where a run checks that a component implements its abstract module, the invariant that
follows from it is not checked again: `AppliedAtMostOnce`, `CurrentIsWhole`,
`OneIdentity`, `ReportedVersionIsInForce` and `RegisterNeverGoesBack` are consequences,
by a theorem each (section 4).

Deadlock is checked in `store_forward`, `relay_control`, `device_commands`, `ota`,
`smart_breaker` and `wifi`. In the others a behaviour really ends: when the bounded
calls, writes, edges, cycles, kills or joins are used up (`long_run`, `field_devices`,
`sensing`, `stuck_probe`), when the last document is in force and nobody wants
anything (`configuration`), and when a unit is registered and no trouble is left
(`registration`). Where a wait for ever would matter, a liveness property says that
it does not happen.

**Why the bounds are enough.** *StoreForward*: a batch of two rows is the least that
has one row judged and one not, a batch of one of two rows the least that leaves a row
behind it; a limit of one makes every rotation bite; one
restart covers each crash point, since `Restart` reads only the disk. *RelayControl*:
a second channel tells "the hold's" from "another"; two timer threads are a
superseded one and its successor; rules, hold and commands may coincide on a
channel, which is the interesting case. *RuleLimits*: days of two hours let the same
hour of the day come again; an hour is longer than budget and cooldown together, so that
a spent budget still holds when the cooldown is over, and the horizon covers two hours;
one order and one start of the service meet every point of a period.
*DeviceCommands*: a list with room for one and two commands is the least in which
one result evicts another. *OTAAgent*: the installed release, the update, and a third
to be assigned while the first is still being recovered; `Keep = 1` makes pruning
delete. *SmartBreaker*: the four bindings are the two
vendors, with different fail-safes, and one without its device;
with times of one unit, one step is before, at or after each deadline.
*WifiSetup*: one network cannot take the other's place, and three add no new pair;
the fault and the power cuts fall at any step, and together; a second cut is the least
that interrupts the boot of a moved card. *Registration*: three
seeds are those of the two programs and one drawn again; a key change and another
program's attempt are what it takes to have an old key in flight while a new one is
stored. *Configuration*: a good document, one with a key the cloud may not set, one
that drops a key; two events of others fill a queue of two before a verdict, and with one
drained per poll a verdict waits behind others. *Sampling*: a window of
three at intervals of one and two is spanned exactly or not, which is all the code
asks. *Supervision*: the two workers are one that may hang and whose interval a reload
changes, and one with the countdown; steps of up to a minute and the last backoff of 60
s let each be late, and both take turns; deadlines and watchdog are those of
`LIVENESS_FACTOR = 3`, `LIVENESS_MIN_S = 60` and `WatchdogSec=180`.
*LoRaSession*: `FCntMod = 2` makes the 16 bits of a counter wrap at once; `NonceMod =
3` is one more than the joins can use, so a repeated nonce is a fault and not the
wrap-around. *MacLayer*: a full reading leaves DR1
two bytes for answers with a position and thirteen without. *Rs485*: two probes whose answers
differ in length, two addresses, one of them the factory's. *BootStatus*: two writers
of different users and three writes are an overlap and a write after it; one failing
call falls on any step of any of them. *Portal*: one permit and two threads are the
least in which a server is opened again while a thread of the closed one runs.

**Fairness.** Each thread takes a step that stays possible (weak fairness): the
workers are operating-system threads with a loop that a failing step does not
leave, and the units are restarted by systemd. Strong fairness is used where the
code retries for ever and the other side answers only sometimes: a batch that is posted
again and again gets an answer for at least one of its rows in the end, unless it is
refused as a whole, a fetch and a result that are tried for ever get
through, a poll of the breaker meets the vendor while it is up, the retry timer meets
a network while it is there. No fairness is given to faults, crashes, operators,
owners, claims, the weather, the network forgetting, or cards that move. The
properties ask in addition for what the code cannot bring about: that cloud mode stays
on and the head of the queue is not refused for ever (`EventuallySettled`), that the unit is claimed and left alone (`UploadsAtLast`),
that the network comes back (`SiteNetworkReturns`), that the board is plugged in
(`BoardComesBack`); `EveryCommandAnswered` allows a command to expire. `long_run` and
the specification of `relay_control` state no fairness: their properties are safety.

**Exceptions inside properties** are there because the code has no answer to
them, and each is recorded by a history variable that only the fault sets: `stuck`,
`torn` (RelayBank), `lost`, `withheld`, `late` (RelayControl), `torn`, `partial`,
`forgotten` (DeviceCommands), `stale`, `misled` (OTAAgent, LoRaSession), `unlearnt`,
`stray` (LoRaSession), `gap`, `wiped`, `muted` (WifiSetup), `mixed`, `spared`, stops
that are not `ordered` (SmartBreaker), `unmarked` (ClockRepair), `stale` (Transceiver),
`misjudged`, `TakenTurns` (Supervision), `HeadRefused` (StoreForward), and the overlap of
two writers or a copy on the card that failed (BootStatus).
What they admit is listed in section 5.

## 4. The proofs

Eight modules prove, with TLAPS and for every value of the constants that satisfies
the named assumptions of the modules, what the runs check on their instances:

| Module | Theorem | States |
|---|---|---|
| `StoreForwardProofs` | `TypeCorrect`, `Invariance` | type correctness; the inductive invariant |
| | `MarksAgree`, `NoSilentLoss` | `[]MarksAgreeWithCloud`, `[]NothingForgotten` |
| | `NoResend`, `RotationKeepsLimit` | a resolved row is not sent again; rotation never goes below the limit |
| | `Refinement` | StoreForward implements `ReadingLog` |
| `RelayProofs` | `BankInvariance`, `ControlInvariance`, `ControlTypeCorrect` | the inductive invariants and types of RelayBank and RelayControl |
| | `ControlIsABank` | RelayControl implements `RelayBank` |
| | `CeilingCovers`, `BitsMatch`, `SupersededInert` | `[]BoundedCoilIsCovered`, `[]BitMatchesPin`, `SupersededTimerIsInert` |
| | `HoldRemembers` | `[]HoldForgetsNoCoil` |
| | `MandatesAreKept` | `[]DriversKeepTheirMandate` |
| | `LimitsAreKept` | of RuleLimits: `RulesKeepTheirLimits` |
| `DeviceCommandsProofs` | `AppliedOnce`, `RecordIsTruth` | `[]AppliedAtMostOnce`, `[]CloudKnowsTheTruth` |
| | `KeepsTheLedger`, `LedgerIsWorthIt` | DeviceCommands implements `CommandLedger`; what does has both properties above |
| | `QueueIsTheLastWord`, `NeverShortCycled` | of SmartBreaker: `[]QueuedOffIsWanted`, `NoShortCycle` |
| `OTAProofs` | `CurrentStaysWhole`, `RecordIsTrue` | `[]CurrentIsWhole`, `[]RecordTellsTheTruth` |
| | `KeepsTheTrial`, `TrialIsWorthIt` | OTAAgent implements `ReleaseTrial`; what does has `[]CurrentIsWhole` |
| `CommissioningProofs` | `OnlyOneIdentity` | `[]OneIdentity` |
| | `KeepsTheIdentity`, `IdentityIsWorthIt` | Registration implements `UnitIdentity`; what does has `[]OneIdentity` |
| | `ProvenNetworksAreKept`, `UnitStaysReachable` | of WifiSetup: `[]ProfilesAreHonoured`, `[]FailureStaysReachable` |
| `ConfigurationProofs` | `ReportedInForce` | `[]ReportedVersionIsInForce` |
| | `KeepsTheSettings`, `SettingsAreWorthIt` | Configuration implements `SettingsInForce`; what does has `[]ReportedVersionIsInForce`, and versions that never go back |
| `FieldDeviceProofs` | `FlowInvariance`, `RegisterIsMonotone` | the order of the meter's numbers; `RegisterNeverGoesBack` |
| | `KeepsTheRegister`, `RegisterIsWorthIt` | FlowMeter implements `WaterRegister`; what does has `RegisterNeverGoesBack` |
| | `OneStepHolds` | `[]OneStepABoot` |
| | `ChipInvariance`, `CallsHold` | what each step of the driver can find; `CallsAreWhole` |
| | `PermitsHold` | the permits that are out are exactly the threads that run for this server and those not started, and at most `MaxClients` |
| | `ProbesAreFoundOrMissed` | `[]MovedOrTold` |
| | `DeviceAndServerKeepStep` | `[]InStep` |
| | `GhostFree` | `[]NoGhost` |
| | `LabelsAreHonest`, `FixesUnderOpenSky` | `LabelIsHonest`; a desynchronised toggle costs an attempt, never the fix |
| | `ChannelsAccounted` | `[]ChannelsAreAccountedFor` |
| `LongRunProofs` | `HangsAreBounded`, `WatchdogHolds` | `[]HangIsBounded`; where `StepsAreShort`, `[]WatchdogIsFair` |
| | `SessionsAreSound`, `NoCounterTwice` | `[]SessionIsSound`, `FramesCountOnce` |
| | `CardIsTruthful` | `[]CardTellsTheTruth` |

They cover all twenty-three modules of the program, and the six abstract ones as targets
of the refinements. Every safety property that a passing run checks is stated by a
theorem. A proof step is split until each leaf asks little of the solver, so that the
proofs do not depend on the speed of the machine.

A refinement has two halves. `Keeps...` is Spec => Abstract!Spec: each step of the program
is a step of the abstract module or a stutter, under the invariant of the component.
`...WorthIt` starts from Abstract!Spec alone, whoever implements it, and ends in the
properties: it shows that the abstract module says enough.

**StoreForward** (`SizesAssumption`: finitely many rows, positive batch size and
number of attempts). None of the properties is inductive alone. That a row is
marked synced only if the server stored it needs to know, between the answer and
the mark, that the reply in memory names rows the server did decide that way
(`ReplyAgrees`), that a legacy server, for which the whole batch is marked, refuses
nothing (`LegacyNeverRefuses`), and that what is being posted was inserted
(`BatchRecorded`). That rotation gives rows up only by licence needs
`PendingHalfNeedsCap`: the step that drops pending rows is reached with
`rotatePending` only. `IInv` is the conjunction of these with the type invariant;
`Refinement` maps every step to a step of `ReadingLog` or a stutter, with the same
invariant. `RotationKeepsLimit` is a counting argument: between the count and the
delete the excess counted and the limit together do not exceed the rows now present
(`ExcessFits`), since every other thread only adds rows.

**RelayBank and RelayControl** (`BankAssumption`, `RulesAssumption`: channels are
positive numbers, the rule list names them and their probes). `BankInv` adds to the
types `Registered` (a timer in the table is a live thread of that channel, not
superseded, armed for no longer than the ceiling), `Guarded` (an energised coil has
a registered timer or is an exception) and `BitsAgree` (where pin and bit differ, it
is the pin that is off). It is inductive for every caller. RelayControl is then shown
to do nothing to the coils that `BankNext` does not allow (`ControlIsABank`), which
carries the bank's properties over. `ControlInv` adds the types, `Busy` (a thread
about to arm a timer has a channel and a positive duration) and `HoldForgetsNoCoil`.

The mandates need more, since rule and command look at the owner in one step and
write in another. `AskedFirst` remembers that what they are about to switch was not
the hold's when they looked, so that a write to the hold's channel is one of somebody
who looked before the take-over, and makes it `late`. `FrozenDue`, `OwnCoils` and
`Pending` say what an unfinished cycle owes: each coil on for a suspended probe is
still to be dropped or is an exception, and what is about to fire is of live probes.
`HoldMandate` counts: the hold believes it drives a coil that is another one, or is
still driving while it takes over, only after one write has failed; it believes a coil
is on that is off only after two. `OthersKeepHold` and `HoldReleases` / `HoldTakes`
carry it through the steps of the others and of the hold.

**RuleLimits** (`LimitsAssumption`: the rules are a sequence, of any length, of on/off and
a duration; hour, day, cooldown and budget are positive). `LimitsInv` says that the
engine's notes know enough: after its own drop, `notes.off` is no earlier than the drop,
or its timer is due and the next cycle will note it (`DropIsNoted`), which holds because a
period that the controller ends for the engine is one the engine has noted too
(`PeriodIsNoted`); and the seconds charged to this hour, with those since the last charge,
cover what the periods took (`PeriodsAreKnown`). A cycle takes a turn of every rule that
matches, a recursive function over the list. The library's induction theorems are out of
the provers' reach, so `CountingUp` proves induction over the numbers from a fact about
finite sets (an injection of a finite set into itself is onto), as a statement about sets;
`TurnsFollow` has from it that the function exists, `TurnsKeep` that what every turn keeps
holds after the last. What the turns keep is `Noted`: the relay is raised only if, when the
cycle began, the cooldown was over and the budget not used up, and every switching is noted
at the time it is made.

**DeviceCommands** (`CommandsAssumption`). That a command acts once is not inductive:
`Remembered` adds that whatever took effect is on the books, or about to be put there,
or was lost in a crash between effect and record (`torn`), or has expired; eviction
drops expired commands only (`UnexpiredKeeps`). That the cloud's record is true is a
statement about answers that travel: they wait, are posted again, pushed off the list,
read back from disk. `AnswersAreVouched` says of each of them, wherever it is, that it
is what happened and that no later run of the command can make it false, because a
command with an answer on its way is on the books or expired (`Settled`);
`EffectIsKnown` is the converse for what took effect. The filter that cuts the retry
list is handled by two facts about it: its range is part of the old one, and so is its
type. For the refinement the same invariant decides which ledger action a delivery is:
`Apply` acts only on what is not `Remembered`, and what a delivery puts on record is
vouched for; an eviction is a `Drop` (`EvictionDrops`).

**SmartBreaker** (`SmartBreakerAssumption`). `QueueIsLast`: what is queued is an OFF, of
the vendor that queues, and the last thing asked for; it needs `VendorStands`, that
vendor and controller match until a reload parts them (`mixed`, which the property
excepts). `RestIsCounted`: if a request, a timer or the fail-safe stopped the load
(`ordered`), the controller has counted no more time since its OFF than the load has
rested. The load is the breaker and the relay wired in series, if there is one, so the
theorem says as much of a circuit without an interlock; and it is kept by the steps of
the other writers, since a load they stop was not stopped on order.

**OTAAgent** (`UpdateAssumption`). `JobInv` says what the agent goes by at each of its
steps, `LinkInv` that the release in use and the one to go back to are kept whole while
the third is cleared and placed, `RecordInv` that the state file, between any two steps
of an apply or a rollback, names exactly these two. `RecordInv` fails after a call that
raised behind the flip (`stale`), and `LinkInv` once a recovery has gone by such a file
(`misled`): the invariant has these escapes, and the properties the same ones. In the
refinement `LinkInv` keeps the way back complete and `RecordInv` says that the state file
names it (`WayBackStep`); the escapes are `Muddle` and `Stray`.

**Registration and WifiSetup** (`RegistrationAssumption`, `WifiAssumption`). `MakingInv`: a program that writes an
identity holds the lock, and until the rename nobody, not even the cloud, has been
given one; `CardInv` knows the last rename that may be undone (`loose`). A power cut
therefore takes an identity back only before anybody has it. The refinement needs one
fact more, `TornInv`: while a program writes a seed the temporary file is torn, so that a
card that holds an identity has nobody at work on another. Of the radio `RadioInv`
speaks of `Lasting`, the profiles that the running join will not take away: `Promoted`
(a join past its proof has its network among them), `ProvenLasts` (so has everybody
else), `AutoIsOn` (NetworkManager may bring one up by itself) and `Reached` (once boot is
over the hotspot is up, a lasting network is there, or somebody is still at work who
will see to it). `TryIsMine` says that the temporary profile is the running join's,
`MovedIsHeld` that boot and retry go by the card as it was when they began. The search
for this invariant found `muted`: a power cut between a proof and the end of the join, in
a Pi the card has been moved to, lets the boot turn off the autoconnect of the network
that was just proven.

**Configuration** (`ConfigurationAssumption`). `OverlayInv`: the overlay is a document
that passed, whole; `BaseInv`: a local key is only ever written by the writer it belongs
to, also in the copies that writers are about to put back. With `Layered` as the last
reload left it, the version in force is the one reported. `VersionInv` is what the
refinement adds: the document in the worker's hand was published, and is never older than
the overlay, because the worker alone writes the overlay and a kill forgets what it had
in hand.

**Publishing, Position, Probes** (`NoValueAssumption`, `FactoryAssumption`).
`GhostInv` follows the will from one connection to the next. `Vouched`: a verdict of
timesyncd, its cached copy and the agreement with GPS are only ever true of a clock that
is right, and a right clock stays right. `BoardInv` and `CalibrationInv` say that sampler
and application have one pH driver, and that only a calibration not yet handed over may
be ahead of it.

**FlowMeter, ClockRepair, Transceiver, Portal** (`FlowAssumption`, `ClockAssumption`,
`PortalAssumption`: finitely many threads). `FlowInv` orders row, memory and disk over a power cut.
`MarkerAccounts` counts the steps of the clock against the marker, whichever process
made them. `ChipInv` says of each step of the driver what the chip may be doing, whose
set-up it has and what event and edge stand for. `PermitInv` is an
equation about the cardinality of the set of threads of this server (`Ours`), with the
library's theorems on finite sets: a thread of an earlier server that ends is not among
them, and returns its permit to a semaphore nobody asks.

**Rs485, MacLayer** (`BusAssumption`, `MacAssumption`). A probe that was moved is where
the configuration has it, or somebody was told: between the write and the answer this is
false of the probe being moved (`AtHomeOrTold` excepts it), and it comes true again
because a frame on the line for a process is of the exchange it waits for
(`FramesAreCurrent`) and only one process moves probes (`OneMover`). `Claimed`, the
states outside the property, is the hypothesis of the whole invariant. In MacLayer
`Together` is `InStep` with what a pending answer will bring about: as long as an answer
that moves the windows is in `fopts`, the server has the request open and will have the
device's windows once it hears it (`Promised`). The folds that handle a frame's requests
and choose the answers that fit are unfolded for the one or two requests a frame has.

**Supervision** (`SupervisionAssumption`, `StepsAreShort`). That a hang ends (`HangIsBounded`)
follows from `Heard`: each look that pets found everybody within a deadline, so nobody is
silent for longer than one of his deadlines and the time since (`HangInv`); it holds for
every choice of constants. That nothing else ends the service does not. A worker whose
interval is short waits 60 s after its fourth failure and may be silent for 60 s, so that
it is overdue during the whole of its next step; with two such workers TLC shows a
behaviour in which one of them is overdue at every look (`SteadyServiceLives`, section 5).
`NoneStarvesItAlone` is what is left and true: a service that is ended without a hang, and
without an interval that shrank (`misjudged`), had more than one worker overdue since the
last pet (`TakenTurns`). It needs steps that are not longer than the watchdog is patient.
The invariant `PaceInv` says that a worker's age is at most what it was told to wait and
has worked (`Paced`), and that while the watchdog starves and one worker alone is to blame
(`Starves`) it has been overdue since the last pet, or has beaten after the last look, and
then the next look finds it, and everybody, in time.

**LoRaSession** (`LoRaAssumption`: the joins and restarts together are no more than
the DevNonces). The session is in memory, in the row, and in a snapshot of each thread, and
a statement about counters has to be made of each copy. `CountInv`: memory and the radio
worker's snapshot are past every frame, the row and the command thread's snapshot past
those that a restart may not repeat (`SafeUps`, `SafeDowns`: sent, or written and about to
be). `NonceInv` counts: as many DevNonces as may still be used lie fresh after the one in
memory, one less after that of the row. `PastInv` and `LeftInv` say that keys on a frame
or given up are those of an earlier join. All four hold until a process has restarted
from a row that was overwritten by an older snapshot (`misled`); `KeysInv`, that keys in any
copy were derived by the network too, holds always, but for keys of a JoinAccept missed in
its own window and heard in a later one (`stray`), or of an AppNonce forgotten in a crash or
behind `RECENT_APP_NONCES_KEPT` others (`unlearnt`). `SilenceInv` counts link checks against silent uplinks.

**BootStatus** (`StatusAssumption`). `Truthful` says of every text that can be read, will
be, or is being composed, that it agrees with what was said except on the lines that a
writer at work or an earlier accident has put in doubt. It is kept because the two copies
share no inode (`Separate`), a blank file is one that somebody still has open
(`TornIsOpen`), and whoever writes alone finds the temporary file as it left it
(`WholeProceeds`). A call that fails on its own puts the writer's line in doubt if it was on
the first copy, none if it was on the card, and leaves the card behind the unit's copy
until the next write that is alone and does not fail (`blurred`, `whole`). A writer always finds an unused inode: the writers are finitely many,
there is an inode for each of them and each of the four names, and the one that opens a
file has none yet.

Only model-checked: every liveness property (`EventuallySettled`, `EveryCommandAnswered`,
`BadReleaseIsLeft`, `FailSafeStopsTheLoad`, `SiteNetworkReturns`, `UploadsAtLast`,
`DesiredRuns`, `VerdictReachesOwner`, `BoardComesBack`, `LinkReturns`,
`PortalFollowsTheHotspot`: TLAPS has no fairness argument here).

## 5. What the models show of the code

One run ends in a violation: in `stuck_probe` a probe gives no number for longer than
the flatline window and keeps its rules. The other sentences of the repository that the
code contradicts are properties stated in the modules and checked by no standing run;
each is refuted when it is put, alone, in the place of the properties of
the run named. `PROJECT.json` (findings) quotes both sides.

| Constants of | Module: property | Behaviour |
|---|---|---|
| `store_forward` | StoreForward: `PendingKeptWhileCloudOn` | `rotate_pending` is fixed at boot; a unit that registers while it runs drops rows never sent |
| | StoreForward: `NoHeadBlocks` | a batch refused as a whole is posted again in every cycle, and what is behind it waits |
| `relay_control` | RelayControl: `NobodyElseOnOwnedCoil` | who looked before the hold took a channel over switches it afterwards |
| | RuleLimits: `PeriodsAreCharged` | a period that ends by its duration is not charged to the hourly budget |
| | RuleLimits: `BudgetIsOfThisHour` | the budget is kept by the hour of the day, and found again a day later |
| | RuleLimits: `EveryDropRests` | the cooldown counts from the engine's own drops only |
| | RuleLimits: `LaterCommandReplaces` | the engine's own timer ends the period of a later command |
| `long_run` | Supervision: `OnlyAHungWorkerKills` | a worker asleep until its due date is judged by an interval that shrinks meanwhile |
| | Supervision: `SteadyServiceLives` | failing workers take turns at being overdue: the last backoff is `LIVENESS_MIN_S` |
| | BootStatus: `OthersLinesStay`, `StaysReadable`, `AloneItLands` | lines of two writers are lost, the one temporary name is truncated under a reader, a file of root stops the other user |
| `ota` | OTAAgent: `SelfTestIsTheGate` | the old service's last sign of life passes the self-test of the new release |
| | OTAAgent: `InterruptedApplyIsUndone` | the recovery of an update is in the release under test |
| `smart_breaker` | SmartBreaker: `ExplicitOffDrops` | the fail-safe in the same call raises the relay that the OFF dropped |
| | SmartBreaker: `NoCoilLeftBehind` | a reload moves the binding, and the old relay stays energised |
| | SmartBreaker: `EveryStopCounts` | an open delivered by the poll, a relay dropped by another writer and a restart start no short-cycle time |
| | SmartBreaker: `CircuitStaysOff` | `relay_set`, the rules and FPort 100 raise the interlock without asking for the short-cycle time |
| | SmartBreaker: `FailOffGuarantees` | a drop that raises is recorded as applied; another writer raises the relay again |
| `wifi` | WifiSetup: `NeverStranded` | a hotspot that did not start is not tried again |
| | WifiSetup: `NeverDeleted` | Finish deletes a proven network |
| `registration` | Registration: `KeyOnDiskIsUsed` | a key stored by the other program is not attached |
| | Registration: `CloudRecovers` | a conflict is never asked about again |
| | Registration: `FreshKeySurvives` | a late 401 for the old key takes the new one |
| `configuration` | Configuration: `SocketIsServed` | the listener looks at a flag that is set after it starts |
| | Configuration: `SavedStaysSaved` | a value saved between another writer's read and replace is undone |
| `sensing` | Sampling: `OnlineWhileItPublishes` | after a cut, "online" is never announced again |
| | Probes: `UncalibratedIsSilent` | calibrating the 5-in-1 marks the analog electrode calibrated |
| | Position: `AsleepBetweenFixes` | after a restart the toggle stays inverted |
| | Position: `RowIsHonest` | the timestamp is taken before the source that vouches for it |
| `field_devices` | Rs485: `AnswerIsItsOwn` | the answer to one process is taken by the other |
| | Rs485: `MoveReachesItsProbe`, with `MaxCalls = 4` | a driver that has not been restarted has the old address of a moved probe, and a command moves the one that is there now |
| | MacLayer: `ReadingFits` | a full reading and the MAC answers do not fit DR1 |
| | MacLayer: `PlanIsTheServers` | a block of LinkADRReqs is applied one by one |
| | Transceiver: `SentIsAired` | an edge of an earlier call ends the wait for this one |
| | Portal: `OpenInTheEnd` | a unit that stops removes the mode file, and port 80 stays closed |
| | Portal: `AtMostMaxClients` | a server that is opened again has a full semaphore while threads of the old one run |
| | Portal: `EveryProofKicks` | a join watched between read and clear is forgotten |
| | ClockRepair: `OnceABoot` | the marker goes with the directory, or was never written |

Three more were found by reading. `SensorMonitor.reset_baseline` is called by nothing, so
a calibration leaves the drift baseline as it was. A restart-required key that a later
cloud document no longer names falls back in the settings, but `restart_keys` looks at the
keys of the new document only, so the components keep the old value until the next
restart; `DesiredRuns` is about the keys a document has. `_restart_services`
(`ota/agent.py:525`) ignores what `systemctl` answers; see section 6.

The exceptions named in the passing properties are weaknesses of the same kind:

- a relay write that raises: an auto-off is then never tried again (`stuck`), a
  fail-safe OFF is issued once per suspension and lost (`lost`), a hold that failed
  twice may believe it still holds a coil that is off;
- a hold that arms on a channel cancels the pending fail-safe OFF of that channel
  (`withheld`), which `TakeOver` makes good unless its write fails;
- a crash between the effect of a device command and the cache makes the
  redelivered command act again (`torn`); a handler that raises after acting is
  reported as rejected (`partial`);
- an OTA update that raises after the flip stays at "applying" with the new
  release current, and a later recovery goes by that file (`stale`, `misled`);
- the command thread's snapshot of the LoRa session can overwrite a newer row, so
  a crash soon after restores used nonces and counters (`behind`, `misled`),
  against `src/radio/lorawan.py:449`; a row that cannot be written does the same;
- a crash between a JoinAccept and the row forgets its AppNonce (`unlearnt`); one missed in
  its own window and heard in a later one makes keys the network does not hold (`stray`),
  which the link check gives up;
- the smart breaker's fail-safe OFF is not repeated if its write raises, nor if another
  writer raises the relay again (`spared`); stops it did not ask for are not counted;
- several failing workers that take turns at being overdue, or an interval that shrinks
  under a worker asleep, end the service (`TakenTurns`, `misjudged`);
- a batch the server refuses as a whole stays at the head of the queue (`HeadRefused`);
- a card that refuses a copy keeps the old status file until the next write.

Two hazards of `PROJECT.json` have no property of a passing run: what they threaten is
broken already (`SavedStaysSaved`, `OpenInTheEnd`, `OnceABoot`), and the other
properties are checked with it happening.

## 6. Simplifications, and what is not modelled

- *StoreForward*: the payload and attempt counters are left out; one key at a time; the
  batch size stays what it was at the start.
- *RelayControl*: one command thread and one reload at a time; no clocks, so a timer
  may run out at any moment.
- *RuleLimits*: one relay, the rules of one probe, a cycle is one step; schedule and
  override are nondeterministic; the wall clock is not stepped and the relay
  controller's timer is on time; cooldown and budget are positive. `RulesKeepTheirLimits` is two promises: the mutant
  listed breaks the budget, `SweptFault` in the place of `Swept` the cooldown. The baselines that
  adaptive rules learn are left out.
- *Supervision*: a countdown worker's due date is exact; fan, LEDs and the hardware
  watchdog, which the same tick drives, and `stop()`, are left out.
- *DeviceCommands*: device and cloud agree on when a command expires.
- *OTAAgent*: poll, download and verification are one step; there is always a
  `current` release (`scripts/setup.sh`); a restart of the services that `systemctl` reports
  as failed, which the agent does not look at, is one after which the services run the new
  release or are down, never one that leaves the old service running; the reboot flag is left out, and so is the
  loop of a rolled-back release that stays assigned and is applied again.
- *LoRaSession*: a downlink is verified, decrypted and its MAC commands dropped in one
  step (they are in MacLayer); the join backoff is left out.
- *Registration*: signature and schedule of an attempt are left out.
- *Configuration*: one value stands for the settings of a kind, one verdict for the
  checks of all fields.
- *SmartBreaker*: the last status and power, which are shown and decide nothing, are
  left out; the relays jam and come free between calls, not in the middle of one, and a
  restart frees them; another writer's duration ends like any other write.
- *WifiSetup*: NetworkManager may connect at any time to any profile it would
  (over-approximated); the retry unit is not killed; joins of the Service Window run the
  same code as the page's; no join is asked for before the boot hold is decided;
  duplicate profiles of one name are merged.
- *Portal*: the pacing and expiry of the watch are left out; every request takes its
  thread for as long as it likes, which covers a rescan and a silent client.
- *BootStatus*: lines are of three kinds; portal and station lines and the redaction
  are left out; the privileged helper dies with its caller and, when it is given up after its ten
  seconds, stops; an unflushed file reads blank.
- *Sampling*: spikes and drift, which suspend nothing, a sampler without any probe,
  exceptions of the monitor, paho's queue and a change of the accessory port are left out.
- *Probes*: TDS and turbidity drivers, which have the pH driver's shape, and the
  arithmetic of the coefficients are left out.
- *Position*: fixes are a day apart, which is more than `GPS_TRUST_S`.
- *Rs485*: owner and installer do not re-address at once; enabling and disabling probes
  is left out.
- *FlowMeter*: the clamp-on meter's cached unit is modelled without a property of its own.

Not modelled at all: board detection and pin tables (run once, at boot); the pages,
login and database reader of the Service Window; the LED patterns and wording of
`explain`; burn-in, `netsim` and the bench simulators; image building and shell scripts.
They keep no state that two actors change, or are not part of the running unit.

## 7. Plan

What is left, in this order:

1. Proofs: abstract modules for the session of LoRaSession and the joins of WifiSetup,
   whose properties are stated of the detailed modules only.
2. A clock that is stepped under the rules engine, and the learned baselines of
   adaptive rules.
3. The supervisor's `stop()` with blocked workers; the OTA agent's repeated
   application of a release that was rolled back, and a restart of the services that
   fails and leaves the old ones running.
4. Re-addressing by two programs at once on the bus; TDS and turbidity drivers.
5. The Service Window's pages, where a form reads state that another process changes
   before it is sent.
