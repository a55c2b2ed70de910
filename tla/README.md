# Verification of the low energy environmental sensor

This directory holds a TLA+ development of the firmware in this repository: an
ESP32 that wakes up, measures temperature, humidity and pressure, stores the
values in flash, transmits them every n-th wakeup and goes back to deep sleep,
with a maintenance mode in which a client changes its configuration. The
modules are translated from the C source; line references are to that source.

## 1. The system

### Parts, their state, and how they interact

| Part | Source | State | Operations |
| --- | --- | --- | --- |
| data partition | `components/storage/storage.c` | NVS strings `b_0`, `b_1`, ... in the partition `storage` | write one entry, read a range, count, erase |
| counters | `components/util/util.c` | `entry_batch_count`, `wake_up_counter` in RTC memory | get, set, increment |
| configuration | `components/util/config.c`, `storage.c` | `config` in RTC memory, seven keys in the partition `nvs` | read all, write all |
| boot | `main/router_main.c` | wakeup cause, protocols initialised | `app_main`, `wakeup_reason`, the button's ISR |
| measurement task | `main/routines.c` | `data[]` and the locals of `storage_write_data_batch` | one measurement per boot, pinned to core 1 |
| event loop task | `components/event_handler/event_handler.c` | bounded event queue, locals of `send_data` | sleep, command batch, send, on core 0 |
| commands | `components/command/command.c` | none | parse a batch; print, set time, write config, restart, erase |
| protocol registry | `components/protocol/transfer_protocol.c`, `user_reg_init_protocols.c` | table of protocols in RTC memory, its count in RAM | register, look up, initialise one |
| protocols | `components/protocol/prot_*.c` | retry counter, event group, handlers, sockets, frames | init, send |
| maintenance server | `components/protocol/prot_config.c` | connection, receive buffer | answer requests, post command batches |
| sensor drivers | `components/sensor/sensor.c`, `bmp280.c`, `i2cdev.c` | calibration, device mutex, installed port | initialise, read |

`app_main` initialises NVS, starts the event loop task, reads the configuration
from flash, initialises a protocol if one will be needed, looks at the wakeup
cause (and may post a send event), starts the measurement task on the other
core, and in maintenance mode the server task. The measurement task posts the
sleep event; the event loop task takes events one at a time, sends and erases,
executes commands and enters deep sleep. The tasks share the data partition,
the two counters, the configuration and the queue without a lock. Deep sleep
keeps RTC memory and nothing else of RAM; every other start (power on, panic,
`esp_restart`) reloads it from the image. Flash survives everything.

### What is hard about it

* two cores write the entry counter and the partition (`event_handler.c:64-65`,
  `storage.c:225`, `util.c:46`);
* a reset may fall between any two of those steps, and the restarted firmware
  must find the counter again (`router_main.c:103`);
* `app_main` decides on a prediction of what `wakeup_reason` will do
  (`router_main.c:62`);
* the button wakes the chip on its level and restarts it on its falling edge
  (`router_main.c:28-41`, `event_handler.c:31`);
* a failed WiFi connection restarts the chip (`prot_wifi.c:51`);
* the configuration exists twice, two tasks change the RTC copy, and one may
  reload it while the other writes it key by key (`command.c:67-91`,
  `prot_config.c:83`, `storage.c:80`);
* an entry may be stored before the partition is erased and counted after the
  counter was zeroed (`event_handler.c:65`);
* a byte of the receive buffer that belongs to no request is parsed as a command
  (`prot_config.c:99`, `command.c:27`);
* late WiFi events meet an event group that is gone (`prot_wifi.c:136`), failed
  transmissions leave their sockets open (`prot_wifi.c:149`), the protocol table
  survives the sleep and its count must not (`transfer_protocol.c:7`);
* the poll for the end of the sensor's reset has no bound (`bmp280.c:187`): a
  measurement may never return;
* the sensor needs milliseconds and the task waits for ticks (`routines.c:31`);
  a bus that fails leaves uninitialised values to be stored (`sensor.c:20`);
* events are dropped when the queue is full (timeout of one tick everywhere);
* window arithmetic on `uint32_t`, ranges with both ends included.

`hazards` in `PROJECT.json` lists each of these at its line with the properties
that would catch it going wrong, or why none does.

### What makes each part correct

* partition and counter: no gaps, the counter is the number of entries, stored
  values stay, what is erased was sent;
* boot and sleep: every boot outside maintenance mode whose sensor answers ends
  in deep sleep, the wakeup counter reaches its threshold and never passes it;
* configuration: what the module sleeps with is what it will find in flash;
* protocols: the one that sends is the one that was initialised; the table is
  whole, handlers outlive neither their group nor the wait, frames are
  well-formed;
* modes: the stored configuration decides where a boot ends up, the button leads
  to maintenance mode, a deployed module goes on measuring;
* commands and server: the commands of a batch are executed, in their order and
  with their parameters; what the server knows is answered;
* sensor: what is stored was measured in this boot.

## 2. The modules

| Module | What it is |
| --- | --- |
| `Storage` | the data partition as a function from indices to entries; the read-only functions of `storage.c` as operators |
| `DataLog` | the data path: measurement task, event loop task, boot, sleep and reset over partition and counters, for one fixed configuration |
| `Recorder` | the abstract specification `DataLog` implements: an append-only sequence whose end is transmitted |
| `Lifecycle` | the modes: configuration in RTC memory and flash, boot, wakeup causes, button, protocol initialisation, maintenance commands, sleep |
| `Modes` | the modes of the README's automaton as an abstract specification, implemented by `Lifecycle` |
| `Sensor` | one measurement: driver, bus, mutex, ticks and the sensor itself |
| `Protocols` | the registry over boots, joining an access point, what a transmission does to sockets and frames |
| `Startup` | what `app_main` may rely on when it initialises a protocol, implemented by `Protocols`; what `Lifecycle` assumes of a connection is shown to be no more (`StartupSafety`) |
| `ConfigServer` | maintenance mode seen from a client: requests, receive buffer, queue, and the parser of command batches, byte by byte |
| `MCDataLog`, `MCLifecycle`, `MCProtocols`, `MCConfigServer` | small instances for TLC |
| `Storage_proofs`, `DataLog_proofs`, `Lifecycle_proofs`, `Sensor_proofs`, `Protocols_proofs`, `ConfigServer_proofs` | theorems and proofs |
| `Induction` | induction over bounded and unbounded intervals and recursion on them, as theorems the proofs cite |

How they fit together: `Sensor` produces the value `DataLog` stores. `DataLog`
has one fixed configuration (but for the maintenance flag) and every step of the
data path, `Lifecycle` has the whole configuration and measuring and
transmitting as one step each. `Lifecycle` joins an access point in one step,
`Protocols` in many: both implement the safety part of `Startup`, which is the
interface between them. `ConfigServer` produces the sequences of commands that
`Lifecycle` and `DataLog` execute.

Operators named "Mutant of X" in a comment are deliberate errors; they are not
part of any specification and serve to see that a property notices them.

### DataLog

State: `log` (partition), `mounted` (NVS has it initialised; erasing it
de-initialises it), `count` and `wake` (RTC), `power`, `cause`, `maint` (the
maintenance flag of the configuration), `main` (where `app_main` is), `queue`,
the event loop task (`loop`, `from`, `to` are its place in `send_data` and the
locals), the measurement task (`meas`, `reading`, `key`, `tmp`), and two history
variables, the last batch handed to a protocol and the readings that left the
device.

One action per step that another task could come between: formatting the key,
`nvs_set_str`, `nvs_commit`, load and store of `++entry_batch_count`, posting;
reading the counter, reading a block, sending it, erasing, zeroing the counter.
`ReadSensor`, the half of the measurement that is `Sensor`'s, is one step that may
never be taken: the driver polls without a bound.
`nvs_set_str` on a key that exists replaces it; on a new one it needs room
(`Capacity`). An unmounted partition fails at open, at commit, and reads as
empty. `Reset` is possible in every state, also for the button's ISR, whose
other writes do not survive its own `esp_restart`.

Abstractions: an entry (time stamp, three numbers, base64) is opaque and
differs from the ones stored; a range is read in one step, because nothing but
the counter tells the reader of a write in between; the configuration is fixed
except for the maintenance flag.

### Lifecycle

State: `cfg`, `wake` and `registered` (RTC), `nvs` (keys that flash has),
`power`, `cause`, `main`, `inited` (the protocol this boot initialised), `link`,
`queue`, the event loop task, the commands it has still to execute and the
values it is writing (`held`), the measurement task (running or not), the
button, and two history variables: `used`, the protocol `send_data` went
through, and `torn`, that a client asked for the configuration while a command
was writing it.

A command that changes the configuration takes three actions, because the server
task (`GetConfig`) and resets come between them: `SetField` changes RTC memory,
`Collect` takes the values to be written from there, `Persist` has written them.
A reset before `Persist` leaves any beginning of the keys in flash. `GetConfig`
after `Collect` reloads what flash still has, and the writer goes on with
its own values: RTC memory and flash then disagree until a restart. That is the
exception `torn` in `SleepsAsStored`, `SendsReady` and `NotOverdue`. The seven
writes are one action towards `GetConfig`: a reload that sees some of them sets
`torn` like one that sees none, and none of the properties looks further.

Abstractions: the measurement is one step (its detail is `DataLog`'s) that may,
as there, never be taken, a transmission is one step, numeric fields have small
values, a command batch is
a sequence of commands (`ConfigServer` has its bytes).

`Modes` has four modes: booting, maintenance, deployed (collecting, and
transmitting if a transmission is due: one boot does both), asleep. Its
variables are what a user can see of `Lifecycle`: the mode, what began the boot,
whether a transmission is due, and whether the stored configuration is out of
maintenance mode. It says that this last one alone decides where a boot ends up,
that a boot by the button does nothing but restart, and that what was posted is
transmitted before the module sleeps. The README's automaton leaves maintenance
mode only by the restart command; the program also sleeps from there once a
command has switched the mode off, which `Modes` allows; the automaton's
commands to collect and to transmit from maintenance mode are not in the program.

### Sensor

State: `pc` (the measurement task up to the value it stores), `chip`, `bus`,
`port`, `mutex`, `calib`, `values`; the device's `mode` and `regs`, which keep
their content over boots as the sensor keeps its power; `phase`, `ticks`, `age`
for time; `faulted` (history).

One action per bus access of `bmp280_init` (`Access`), each of which may fail
(`InitFails`, and the reboot after `ESP_ERROR_CHECK`), except the status poll,
which goes on for ever (`PollAgain`). Time is counted in milliseconds only while
the task sleeps: `vTaskDelay` cuts 45 ms to four ticks, the first of which may
end at once (`phase`). Values are told apart by where they come from:
converted in this boot, in an earlier one, the content after a reset, an
uninitialised local, computed without calibration. The compensation formulas are
opaque. `i2cdev` is modelled from the copy in the repository; the build links
the one of esp-idf-lib, of which it is a copy.

### Protocols and Startup

State: the table in RTC memory and `protocol_count` in RAM; `active` and `maint`
of the configuration this boot has read; `app_main`'s place in `wifi_init`,
`config_init` or `ble_init`; the retry counter, event group, bits and handlers;
the default event loop's queue; the WiFi driver; the sockets left open; the last
frame.

`wifi_init` and `config_init` share their actions, since `prot_config.c` repeats
`prot_wifi.c` but for the restart in the handler that gives up (`GiveUp`).
`RestartChip` is a step of its own: the handler runs on another task, and
`wifi_init` may see the bit and begin to unregister before the chip restarts.
Unregistering waits for a handler that is running. A ZigBee frame is its length
field, size, byte sum and checksum, in 16 and 8 bits as in `zigbee_send`.
`ble_init` registers no callbacks, so that it only waits and `ble_send` does
nothing.

`Startup` has the mode of the connection only: booting, starting, up, alone.
A module that transmits over WiFi comes out of starting with an address or by
a restart; the others may go on alone; starting ends (fairness). `Lifecycle`
implements it too, but for the fairness (`StartupSafety`): its `Connect` and
`ConnectFails` do nothing that `Startup` does not grant, and its boot leaves what
was reached alone until the next one.

### ConfigServer

State: the server task, whether a socket has the port, its connection, the
request on the wire, the receive buffer behind its first byte; the client's
connection and the request it waits for; the queue; the batch being executed
with its place (`at`) and the commands done so far.

Requests are bytes. `do_retransmit` keeps its buffer over the requests of one
connection; `Receive` overwrites its beginning only, and `ArgsOf` takes one byte
too many for the event. The parser reads the length of a command, advances
by it and by the loop's increment (`Advance`), also past the end of the event,
where `Garbage` stands for the memory behind it. `accept` may fail, which makes
the outer loop bind again and end the task; a client may vanish without closing,
which leaves `recv` waiting.

Abstractions: a request arrives in one piece; the answer's content is left out
(that of a dump is `Storage`'s `ReadEntryBatch`); a client waits for its answer
or leaves.

## 3. The runs

| Run | Instance | Question |
| --- | --- | --- |
| `window` | `MCDataLog_window.cfg` | window of 3, threshold 2, room for 4 entries, 5 readings, queue of 2, resets everywhere, a client that leaves maintenance mode, lossy link: `LogContiguous`, `CountAgrees`, `StoredStays`, `NotOverdue`, implements `Recorder` (`RecorderSpec`), `TransmitsAgain` |
| `all` | `MCDataLog_all.cfg` | everything in blocks that begin at every second index and overlap by one, as those of 50 in the source, room for 3, 4 readings, erase commands, resets: `BlocksOffered`, `EveryBootSleeps` |
| `modes` | `MCLifecycle_modes.cfg` | fresh or deployed module, four command batches, get-config requests, outages, resets, the button at any time: `SleepsAsStored`, `SendsReady`, `NotOverdue`, implements `Modes` (`ModesSpec`), and the safety part of `Startup` (`StartupSafety`) |
| `outages` | `MCLifecycle_outages.cfg` | fresh modules and deployed ones with threshold 1 or 2 and deep sleep on or off, four command batches, an access point that comes and goes, the button held until maintenance mode is up or the module sleeps: `ButtonObeyed`, `CollectsAgain` |
| `sensor` | `MCSensor.cfg` | the firmware's tick and delay and the 41 ms its comment names for a conversion, every kind of chip, a bus that fails and recovers at any time: `StoresMeasured`, `MeasuresAgain` |
| `protocols` | `MCProtocols.cfg` | every protocol, an unknown one and maintenance mode, sleeps and restarts, connections that fail, succeed and get lost: `RegistryWhole`, `SignalsLiveGroup`, `FrameWellFormed`, implements `Startup` (`StartupSpec`, with its fairness) |
| `server` | `MCConfigServer.cfg` | three batches and three other requests in any order, clients that leave and disappear: `ExecutesSent`, `ExecutesAll`, `RequestAnswered` |

One run of each module checks its `TypeOK`, and every property of these runs is
violated by a mutant listed in `PROJECT.json`.

Runs that show where the program departs from its documentation; TLC's shortest
counterexample is the scenario:

| Run | Property | What happens |
| --- | --- | --- |
| `erased_unsent` | `ErasedOnlyAfterSent` | the measurement task stores a value after the last block was read; the partition is erased |
| `quick_release` | `MaintenanceReached` | the button is let go of before `storage_write_config` has run: the ISR restarts the chip and the request is gone |
| `late_increment` | `AllOffered` | an entry is stored, the partition is erased and the counter zeroed, and then the task counts its entry: the counter is 1 over an empty partition. The next values go to `b_1` and on; the next transmission looks for `b_0`, finds nothing to send, and erases them. No reset is needed |
| `change_lost` | `ChangeKept` | a client asks for the configuration while a command changes it, and what flash has is reloaded. Before the command has taken the values to write (`Collect`), the old value comes back and is written to flash, too; after it, flash gets the new value and RTC memory has the old one for the rest of the boot. The command had been acknowledged |
| `unsent_command` | `OnlySent` | a long batch, then a short one on the same connection: the byte behind the short one is a command nobody sent |

Seen in the models, on the list of hazards, and not made a run of their own:

* with deep sleep switched off the module measures once (`event_handler.c:26`),
  where README.md:134 of the repository has it go on in an active state, and with a
  threshold of one, WiFi, and no access point it restarts for ever
  (`prot_wifi.c:51`): `CollectsAgain` and `ButtonObeyed` name these configurations
  in their hypotheses, and fail without them;
* a wakeup by the button into a boot that has to join WiFi is lost when joining
  fails: the chip restarts before it has looked at the cause. A button still held
  wakes the module again after its next sleep (`ButtonObeyed`);
* the wait for the first conversion lasts more than 30 and at most 40 ms, where the
  comment at `routines.c:30` asks for at least 41: `StoresMeasured` says what is stored then,
  the content of the registers after the reset;
* a read that fails stores the locals of the task, uninitialised
  (`sensor.c:20`), the other exception of `StoresMeasured`;
* the sensor's status poll may go on for ever (`bmp280.c:187`); the module is then
  awake until it is reset;
* a failed transmission is followed by sleep as a successful one, and leaves its
  socket open (`prot_wifi.c:149`); ten of them in a boot use the sockets up;
* a window larger than what is stored sends an empty batch (the subtraction
  wraps around), and every other one an entry more than the window if it has been
  stored meanwhile, since the upper end is read, too: `Recorder` allows both;
* an entry is 37 to 41 bytes long, and a block has up to 51: 2091 bytes where
  `to_send` has 2048, and a window may be configured up to 255. `DataLog` gives
  entries no length;
* the erase command leaves the counter as it is (`command.c:102`): what is stored
  until the next restart lies behind a gap, as in `late_increment`;
* a batch that finds the queue full is dropped and acknowledged
  (`prot_config.c:101`); a client that vanishes, or an `accept` that fails, may
  leave the server deaf (`prot_config.c:66`, `187`). `RequestAnswered` names the
  last two as exceptions.

### Bounds

* `Word` is 2^32 in the code. The instances take 8 to 16: what matters is that
  the window's start wraps around beyond every index in use, which holds as
  soon as `Word` exceeds capacity plus window. `wake` is reset at the threshold
  and never gets near `Word`.
* `Capacity` 3 or 4: none, some, one less than full, full. In `window` it is one
  more than the window and the first transmission finds fewer values than the
  window asks for; in `all` it is one more than a block.
* `Readings` is one more than the capacity, so that a measurement always has a
  value unlike the stored ones.
* `Step` 50 in the code, 2 in `all`: a block is `Step` + 1 entries long, begins at
  an index that the one before has read already, and has indices inside that begin
  none, so that a gap in the middle of one hides what follows it. In
  `late_increment` it is 4, one block for the whole partition, which is what a module
  with the default threshold of 5 has to send.
* `QueueSize` 32 in the code, 2 in the instances: with the two events a boot
  posts itself the queue is full, so drops happen in maintenance mode.
* `BlocksOffered` speaks of the entries the read of their block reaches. What lies
  behind a gap of its block the code erases unsent (`late_increment`), and so it does
  with the value the measurement task is storing (`erased_unsent`), which both
  definitions leave out.
* `Sensor` has the constants of the firmware: ticks of 10 ms, a delay of 45 ms, and
  the 41 ms of the comment for a first conversion, longer than the 30 ms that the
  4 ticks less one are sure to cover.
* Configurations in `outages`: threshold 1 and 2 (a transmission every time,
  every other time), deep sleep on and off, none stored; the client changes
  protocol, threshold and mode from there.
* `MaxRetry` 128 and `BleThreshold` 16 in the code, 2 in `protocols`: none, some,
  the last. `MaxSockets` 10 in the code, 3 with 4 batches in a boot, so that they
  run out. Batch lengths and byte sums lie around the boundaries of one and two
  bytes.
* `BufSize` 1021 in the code; in `server` a buffer of 9 that the longest batch
  fills, a queue of one event, so that a batch is dropped while another runs, and
  two values for memory that is not the program's, one of them a command.
* `RtcErrorThreshold` 2^24 in the code: above any count that fits the partition.
* No symmetry is used: the runs check liveness as well.

### Fairness

Weak fairness of `app_main`, of the measurement task once it has its values
(`Storing`), of the event loop task (each is a ready FreeRTOS task and nothing of
higher priority runs for ever) and of the wakeup (the RTC timer is armed
before every sleep); not of the sensor's answer (`ReadSensor`, `Measure`), which the
driver awaits without a bound. That it comes is the hypothesis `SensorReturns` of
the liveness properties; what makes it come is `MeasuresAgain` of `Sensor`: a bus
that works. In `Sensor`, of the
task, of time, and of the sensor, which ends its copying and its conversions; not
of the bus, which need not recover. In `Protocols`, of `app_main`, of the default
event loop's task, and of `JoinEnds`: the driver reports how an attempt to join
ended; not of the access point. In `ConfigServer`, of the two tasks, but
not of a failing `accept`. Clients, the
button, resets and outages are not fair: they may stay away for ever, or come
for ever, and properties that would be defeated by an endless series of them say
so (`TransmitsAgain`, `MaintenanceReached`, `CollectsAgain`). The last of these and
`ButtonObeyed` have more hypotheses, each needed: `MeasuresFirst` (after a restart a
boot measures before it needs WiFi: a threshold above one, no threshold in use, or
another protocol), and for `CollectsAgain` deep sleep, a stored configuration out of
maintenance mode, and a client that does not leave the module in maintenance mode.
`CHECK_DEADLOCK FALSE` appears only in instances without resets and in
`ConfigServer`'s, where maintenance mode waits for a client that need not come.

### Facts about the platform the model relies on

`RTC_DATA_ATTR` variables keep their value through deep sleep and are reloaded
on every other start. `nvs_flash_erase_partition` de-initialises the partition.
`nvs_set_str` and `nvs_set_u8/u32` are atomic. `esp_event_post_to` drops the
event when the queue stays full for the given tick. The ext0 source wakes on a
level, the GPIO interrupt is taken on the falling edge. The wakeup counter is
incremented in the argument of `ESP_LOGI` (`router_main.c:94`), which the
configured log level (`sdkconfig`, INFO) keeps in the build; with a lower one the
module would never transmit. The task watchdog is configured to warn, not to
panic, and is not a source of resets. `esp_event_handler_unregister` waits for a
handler of the same loop that is running. A listening socket accepts into its
backlog while the server serves another client.

## 4. The proofs

The proof modules follow one pattern: an inductive invariant, a lemma that it
holds initially, a lemma that every step preserves it with one case per action,
and theorems that follow from it.

### The data path

`DataLog_proofs` proves, for every value of the constants that satisfies
`StorageAssumption` and `DataLogAssumption`:

* `TypeCorrect`: `Spec => []TypeOK`.

and, for deployments that keep their values (`KeepMode`: a window is configured
and the client does not erase):

* `KeepsContiguous`: `Spec => []LogContiguous`;
* `CounterAgrees`: `Spec => []CountAgrees`;
* `NeverOverwritten`: `Spec => StoredStays`;
* `ImplementsRecorder`: `Spec => RecorderSpec`.

Of every deployment, whatever the environment does:

* `NeverOverdue`: `Spec => []NotOverdue`;
* `EverythingOffered`: `Spec => []BlocksOffered`, where no transmission gets lost
  (`Lossless`): for every block size, the entries that are counted and reached by
  the read of their block. It does not extend to the entries behind a gap of their
  block, which the run `late_increment` loses.

The argument. None of the invariants is inductive alone: that the counter is
right after an increment needs the key the task wrote under, and that the key
was free needs the counter at the time it was formatted. `KeepInv` strengthens
them: the partition is `0..Size-1`; the counter is `Size`, or `Size - 1` while
the measurement task is between write and increment; the formatted key is the
first free index while it has not been written; the loaded value is the
counter; and a restarted `app_main` that has not recounted runs no measurement.
`EraseSent` and `ResetCount` are unreachable in these deployments. From
`KeepInv`, `SetString` is the only step that changes the partition and appends to
it (`Recorder!Store`), `SendBatch` is the only one that changes the batch and
reads a range whose start is the counter of some earlier moment minus the
window (`Recorder!Transmit`), every other step is a stutter, including sleep,
wakeups and resets.

`Storage_proofs` has the lemmas on the two scans of `storage.c`: a scan that
stops at the first missing key returns the number of entries, or the entries of
a range, when the partition has no gap. `WakeInv` keeps the wakeup counter below a
threshold in use in every state, not only asleep. `CHOOSE` is
resolved by the least natural number with a property.

`OfferInv` adds to `BlocksOffered` what a transmission that is still under way has
offered: every entry below `from`, the index at which the next block begins, that
its block reaches (`OfferBlocks`). Blocks begin at the multiples of `Step`
(`BlockStartStep`), and the read of the one that begins at `from` goes up to the
first missing index, so that it has every entry it reaches (`NextBlock`); an entry
stored meanwhile lies at or beyond the counter of its moment (`OfferTasks`).

### The modes

`Lifecycle_proofs` proves `TypeCorrect` for every configuration, set of commands
and queue, and under `~NvsFaults` (writing the configuration succeeds, or the
power is cut; the program ignores a failed write and goes on with what it could not
store):

* `SleepsStored`, `SendsWhenReady`, `NeverOverdue`: `[]SleepsAsStored`,
  `[]SendsReady`, `[]NotOverdue`;
* `ImplementsModes`: `Spec => ModesSpec`.

`TypeInv` adds to the types that a task in the middle of a batch has a command
left. `BootInv` says what the queue and the tasks cannot hold before
`CreateTasks`. `ModeInv`, unless `torn`, ties together RTC memory and flash
(`FlashInv`: they agree whenever nobody is writing, and a missing maintenance key
means maintenance mode), the counter (`CountInv`: it has counted only in a module
that is out of maintenance mode, and is below a threshold in use) and the
protocol (`SendInv`: the prediction of `ProtocolsNeeded` covers what
`WakeupTimer` decides, as neither counter nor configuration changes in between).
For `Modes` two smaller invariants suffice that `torn` does not disturb: the flag
a boot has read is the stored one (`KeyInv`), and no event that transmits is
queued behind one that sleeps (`OrderInv`).

### One measurement

`Sensor_proofs`: `TypeCorrect`, and `StoredMeasured` (`Spec => []StoresMeasured`)
for every tick, delay and conversion time: without a converted value the
conversion has had more than `Guaranteed`, the delay cut to whole ticks and less
one of them, or the read failed. `CoveredMeasured` is what follows where `Guaranteed`
covers the conversion (`Covers`): what is stored was converted in this boot, or the
read failed. With 45 ms and ticks of 10 ms that is 30 ms, not the 41 of the
comment. `Remaining` is the
heart: while nothing has been converted, the time since the start plus what is
still to be slept reaches the whole delay but for one tick, so that at its end a
conversion has had its time; the rest of `MeasInv` carries calibration and mode
from the end of the reset to the read.

### Protocols

`Protocols_proofs`: `TypeCorrect` (with the five contents the queue of WiFi events
can have), `TableWhole`, `GroupLives`, `FramesWellFormed` where no batch is longer
than 65521 bytes (`ShortBatches`; `send_data` has 2048), and
`ImplementsStartup`, the safety part of `Startup`. `RegInv`: the table is empty or
full. `SignalInv`: handlers exist only while `app_main` is joining, and there the
group does; the bit of an address means an address; the bit of failure in the
WiFi protocol means that the handler is about to restart the chip, which keeps
`UnregisterGotIp` from returning.

### Between the modes and the protocols

`UsesStartup` (`Spec => StartupSafety` in `Lifecycle_proofs`) and
`ImplementsStartup` (in `Protocols_proofs`) meet in `Startup`: for every
configuration and every number of retries, `Lifecycle` treats the initialisation
of a protocol as a behaviour `Startup` allows, and `Protocols` behaves as
`Startup` allows. `NetInv` is what the first needs: a boot that has not reached
`init_protocols` has neither a protocol nor a connection, and only the two
protocols that join an access point wait for one.

`ChangesKept` (`~Queries /\ ~NvsFaults => (Spec => ChangeKept)`) is the other half of
the run `change_lost`: where no client asks for the configuration and flash can be
written, a command that is done has its value in RTC memory and in flash, whatever
the button, resets and outages do. `Queries` is false for a client that changes the
configuration without reading it. The theorem is about commands that are done: a
reset before that, a write that fails, and a batch that is dropped on a full queue
lose changes, too. `ChangeInv` says that between a command's change and its write RTC
memory has its value, and so has what it collected to write.

### Commands

`ConfigServer_proofs`: `TypeCorrect`, `ExecutesSentCommands`
(`Spec => []ExecutesSent`) and `ExecutesAllCommands` (`Spec => ExecutesAll`), for
every buffer, queue, set of batches and content of memory that satisfies
`ServerAssumption`. The assumption says what the wire format does: a byte is
0 to 255, an operation is one byte, and the number of a command's parameters
fits its length byte.

Neither property is inductive: the commands done say nothing about where the
parser stands. `IInv` has three parts. `QueueOK`: every event in the queue is the
request a client sent, laid out as the client encoded it, followed by the one byte
that `ArgsOf` takes from the buffer. `RunOK`: the event that is executed has
that form, and the parser stands either at the offset of the next command of the
batch, with the ones before it done (`Reading`), or behind the byte that was
appended, after at most one command that byte began (`Overrun`). The offsets are
those at which the encoding of each command begins. `EncodeProperties` and
`FlattenSeqLayout` prove that they exist: encoding a batch puts the operation, the
length and the parameters of command `j` at its offset, and command `j + 1`
begins where `Advance` and the loop's increment take the parser. `TLC` has checked
`IInv` on the instance of `server` and on one with a longer queue and other memory
before it was proved.

`ExecutesAll` is about the commands before the first one that is unknown or has no
parameters: there the parser returns (`command.c:28-30`), and leaves out what
follows. `ExecutesWholeBatches` is what this means for a client that does not send
such commands, nor any behind a restart (`WellFormed`): of a batch whose execution
has begun every command is done.

`TerminatedBatches` (`Terminated => (Spec => []OnlySent)`) is the other side of
the run `unsent_command`: a client that ends its batches with a command the
parser stops at, such as one whose operation is no operation, never has a command
executed that it did not send, whatever the buffer holds behind its batch.

`Induction` is what the argument rests on. The theorems of the proof library on
natural induction take an operator as a parameter, which the installed provers
cannot instantiate. `Induction` states induction over a *set* of naturals instead
(`LeastNatural`, `SetInduction`, `BoundedInduction`, `GreatestNatural`), proved
from the least-number principle, and that a function which takes its
value at `i` from that at `i - 1` exists on every interval (`BoundedRecursion`). With that,
`FlattenSeqProperties` establishes what the community module's fold over a batch
computes, for every batch.

### Model-checked only

Liveness, which is out of the prover's reach: `EveryBootSleeps`,
`TransmitsAgain`, `ButtonObeyed`, `CollectsAgain`, `MeasuresAgain`,
`RequestAnswered`, and the fairness part of `Startup` (in `StartupSpec`). Every
safety property of a passing run is a theorem; those with a hypothesis name
it above. The properties of the runs that end in a violation are false of the
program; `ChangesKept` and `TerminatedBatches` prove two of them where their cause
is absent.

## 5. What is not modelled

* the compensation formulas of `bmp280.c`, forced mode (no caller) and the
  configuration of the I2C port beyond its installation;
* the GAP and GATT callbacks of `prot_bluetooth.c`: `ble_init` does not register
  them, so that no connection is made and `ble_send` does nothing;
* `zigbee_recv`, `storage_write_data`, `deinitialize_protocols`, `wifi_destroy`:
  no callers; the flag of a protocol: written, never read;
* the content of answers and dumps, NVS handles and the heap, a TCP stream that
  splits or joins requests;
* `rtc_wake_stub.c`, the ULP program, `device.c`: not built, commented out, empty;
* logging, base64, `sprintf`, the wall clock.

## 6. Plan

1. An abstract specification of a batch of commands that `ConfigServer`
   implements and `Lifecycle` consumes, as `Startup` is for connections.
2. `SensorNode`: `DataLog` and `Lifecycle` composed over one configuration, so
   that a command changes window and threshold under a running data path.
3. A receive that splits and joins requests in `ConfigServer`.
