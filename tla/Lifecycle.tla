------------------------------ MODULE Lifecycle ------------------------------
(***************************************************************************)
(* The modes of the sensor module: booting, maintenance, collecting,       *)
(* transmitting and deep sleep, as app_main (main/router_main.c), the      *)
(* event handlers (components/event_handler/event_handler.c), the commands *)
(* (components/command/command.c) and the protocol registry                *)
(* (components/protocol) bring them about, with the configuration in RTC   *)
(* memory and in NVS (components/storage/storage.c) that decides on them,  *)
(* the button, the timer, the access point, resets and flash errors.       *)
(* What the measurement stores and a transmission sends is DataLog's.      *)
(***************************************************************************)
EXTENDS Integers, Sequences

CONSTANTS
  Word,           \* 2^32
  Defaults,       \* the initialisers of config.c
  StoredConfigs,  \* what NVS may hold when the device is first powered
  Batches,        \* command batches a maintenance client may send
  QueueSize,      \* 32, EVENT_RECEIVE_DATA_QUEUE_SIZE
  Queries,        \* the client asks for the configuration
  Outages,        \* the access point may be out of reach
  NvsFaults,      \* writing the configuration may fail
  Resets,         \* power may be cut, a task abort
  Buttons,        \* the button is used
  QuickRelease    \* it is let go of before maintenance mode is up

\* The keys in the order storage_write_config writes them.
KeyOrder == <<"sleep_dur", "wake_thresh", "send_x", "active_prot",
              "deep_sleep", "config_mode", "t_wake_thresh">>
Keys == {KeyOrder[j] : j \in 1..Len(KeyOrder)}
Configs == [Keys -> Nat]

\* The protocols register_protocols knows, by identifier byte.
Wifi   == 1
Zigbee == 2
Ble    == 3
Config == 255
Protocols == {Wifi, Zigbee, Ble, Config}

Commands == [op : {"set"}, key : Keys, value : Nat]
            \cup [op : {"restart"}, key : Keys, value : {0}]

ASSUME LifecycleAssumption ==
  /\ Word \in Nat /\ 1 < Word
  /\ Defaults \in Configs /\ Defaults["config_mode"] = 1
  /\ \A c \in StoredConfigs : DOMAIN c \subseteq Keys /\ c \in [DOMAIN c -> Nat]
  /\ Batches \subseteq Seq(Commands)
  /\ QueueSize \in Nat \ {0}
  /\ {Queries, Outages, NvsFaults, Resets, Buttons, QuickRelease} \subseteq BOOLEAN

VARIABLES
  cfg, wake, registered,  \* RTC memory: config, wake_up_counter, prot_collection
  nvs,                    \* the default partition: key -> value
  power, cause, main,     \* on/asleep, wakeup cause, app_main
  inited, link,           \* protocol initialised in this boot; access point joined
  queue, loop, todo,      \* event queue; event loop task and its command batch
  held, torn,             \* what it writes to flash; history: overtaken since a restart
  meas,                   \* measurement task
  used,                   \* history: protocol send_data went through, this boot
  button

rtc  == <<cfg, wake, registered>>
boot == <<power, cause, main>>
net  == <<inited, link>>
task == <<loop, todo, held, torn>>
vars == <<rtc, nvs, boot, net, queue, task, meas, used, button>>

Event(t) == [type |-> t, batch |-> <<>>]
Events   == [type : {"sleep", "send", "command"}, batch : Seq(Commands)]

On(toggle) == cfg[toggle] # 0

TypeOK ==
  /\ cfg \in Configs /\ wake \in 0..(Word - 1) /\ registered \in BOOLEAN
  /\ DOMAIN nvs \subseteq Keys /\ nvs \in [DOMAIN nvs -> Nat]
  /\ power \in {"on", "asleep"} /\ cause \in {"timer", "ext0", "undefined"}
  /\ main \in {"off", "setup", "init", "connect", "wakeup", "request", "create",
               "done", "serving"}
  /\ inited \in {0} \cup Protocols /\ link \in BOOLEAN
  /\ queue \in Seq(Events) /\ Len(queue) <= QueueSize
  /\ loop \in {"idle", "set", "persist", "write"} /\ todo \in Seq(Commands)
  /\ held \in Configs /\ torn \in BOOLEAN
  /\ meas \in {"none", "run", "done"}
  /\ used \in {0} \cup Protocols /\ button \in {"up", "down"}

\* Mutant of Post: the queue takes any number of events.
PostUnbounded(q, e) == Append(q, e)

\* esp_event_post_to gives up after a tick when the queue is full.
Post(q, e) == IF Len(q) < QueueSize THEN Append(q, e) ELSE q

-----------------------------------------------------------------------------
(* The configuration in RTC memory and in flash.                             *)

\* storage_read_config: keys that flash does not have keep their value.
ReadConfig == [k \in Keys |-> IF k \in DOMAIN nvs THEN nvs[k] ELSE cfg[k]]

\* The first n keys of storage_write_config are in flash.
Written(c, n) ==
  LET new == {KeyOrder[j] : j \in 1..n}
  IN  [k \in DOMAIN nvs \cup new |-> IF k \in new THEN c[k] ELSE nvs[k]]

\* storage_write_config stops at the first key it cannot write.
WriteConfig(c) ==
  \/ nvs' = Written(c, Len(KeyOrder))
  \/ NvsFaults /\ \E n \in 0..(Len(KeyOrder) - 1) : nvs' = Written(c, n)

\* What is being written to flash, if anything.
Source == IF loop = "write" THEN held ELSE cfg
Writing  == loop = "write" \/ main = "request"

-----------------------------------------------------------------------------
(* Power, the timer and the button.                                          *)

RamCleared ==
  /\ inited' = 0 /\ link' = FALSE
  /\ queue' = <<>> /\ loop' = "idle" /\ todo' = <<>>
  /\ held' = Defaults
  /\ meas' = "none" /\ used' = 0

Boot(why) ==
  /\ power' = "on" /\ cause' = why /\ main' = "setup"
  /\ RamCleared

\* RTC_DATA_ATTR variables survive deep sleep and nothing else.
Restart ==
  /\ Boot("undefined")
  /\ cfg' = Defaults /\ wake' = 0 /\ registered' = FALSE /\ torn' = FALSE

Init ==
  /\ nvs \in StoredConfigs
  /\ cfg = Defaults /\ wake = 0 /\ registered = FALSE
  /\ power = "on" /\ cause = "undefined" /\ main = "setup"
  /\ inited = 0 /\ link = FALSE /\ queue = <<>> /\ loop = "idle" /\ todo = <<>>
  /\ held = Defaults /\ torn = FALSE /\ meas = "none" /\ used = 0 /\ button = "up"

\* A power cut, a panic or a failed ESP_ERROR_CHECK, between any two keys of
\* a configuration being written.
Reset ==
  /\ Resets
  /\ Restart
  /\ \E n \in IF Writing THEN 0..Len(KeyOrder) ELSE {0} :
       nvs' = Written(Source, n)
  /\ UNCHANGED button

TimerWake ==
  /\ power = "asleep" /\ button = "up"
  /\ Boot("timer")
  /\ UNCHANGED <<rtc, nvs, torn, button>>

ButtonPress ==
  /\ Buttons /\ button = "up"
  /\ button' = "down"
  /\ UNCHANGED <<rtc, nvs, boot, net, queue, task, meas, used>>

\* The pin is the ext0 source with level 1: held down, it wakes the chip.
ButtonWake ==
  /\ power = "asleep" /\ button = "down"
  /\ Boot("ext0")
  /\ UNCHANGED <<rtc, nvs, torn, button>>

\* handleButtonInterrupt, on the falling edge: what it writes to RTC memory
\* does not survive its own esp_restart.
ButtonRelease ==
  /\ button = "down"
  /\ QuickRelease \/ power = "asleep" \/ main = "serving"
  /\ button' = "up"
  /\ IF power = "on"
     THEN Restart /\ UNCHANGED nvs
     ELSE UNCHANGED <<rtc, nvs, boot, net, queue, task, meas, used>>

-----------------------------------------------------------------------------
(* app_main.                                                                 *)

Wrap(n) == n % Word

\* Mutant of ProtocolsNeeded: the counter as it is before this wakeup.
ProtocolsNeededLate ==
  \/ On("t_wake_thresh") /\ wake >= cfg["wake_thresh"]
  \/ On("config_mode")

\* Mutant of ProtocolsNeeded: every boot needs the protocols.
ProtocolsAlwaysNeeded == TRUE

\* The wakeup after which values are to be sent is known before the counter
\* has counted it.
ProtocolsNeeded ==
  \/ On("t_wake_thresh") /\ Wrap(wake + 1) >= cfg["wake_thresh"]
  \/ On("config_mode")

\* init_protocols takes the configuration protocol in maintenance mode.
SelectedProtocol ==
  LET id == IF On("config_mode") THEN Config ELSE cfg["active_prot"]
  IN  IF id \in Protocols THEN id ELSE 0

LoadConfig ==
  /\ main = "setup"
  /\ main' = "init"
  /\ cfg' = ReadConfig
  /\ UNCHANGED <<wake, registered, nvs, power, cause, net, queue, task, meas, used, button>>

InitProtocols ==
  /\ main = "init"
  /\ IF ProtocolsNeeded
     THEN /\ registered' = TRUE
          /\ inited' = SelectedProtocol
          /\ main' = IF SelectedProtocol \in {Wifi, Config} THEN "connect" ELSE "wakeup"
     ELSE main' = "wakeup" /\ UNCHANGED <<registered, inited>>
  /\ UNCHANGED <<cfg, wake, nvs, power, cause, link, queue, task, meas, used, button>>

\* wifi_init and config_init block until the access point is joined ...
Connect ==
  /\ main = "connect"
  /\ main' = "wakeup" /\ link' = TRUE
  /\ UNCHANGED <<rtc, nvs, power, cause, inited, queue, task, meas, used, button>>

\* Mutant of ConnectFails: the WiFi protocol goes on as well.
ConnectFailsQuietly ==
  /\ Outages /\ main = "connect"
  /\ main' = "wakeup"
  /\ UNCHANGED <<rtc, nvs, power, cause, net, queue, task, meas, used, button>>

\* ... or the retries are used up: the WiFi protocol then restarts the chip,
\* the configuration protocol goes on without a connection.
ConnectFails ==
  /\ Outages /\ main = "connect"
  /\ IF inited = Wifi
     THEN Restart
     ELSE main' = "wakeup" /\ UNCHANGED <<rtc, power, cause, net, queue, task, meas, used>>
  /\ UNCHANGED <<nvs, button>>

\* Mutant of WakeupTimer: the transmission is due one wakeup later.
WakeupTimerLate ==
  /\ main = "wakeup" /\ cause = "timer"
  /\ main' = "create"
  /\ LET w   == Wrap(wake + 1)
         due == On("t_wake_thresh") /\ w > cfg["wake_thresh"]
     IN  /\ wake' = IF due THEN 0 ELSE w
         /\ queue' = IF due THEN Post(queue, Event("send")) ELSE queue
  /\ UNCHANGED <<cfg, registered, nvs, power, cause, net, task, meas, used, button>>

WakeupTimer ==
  /\ main = "wakeup" /\ cause = "timer"
  /\ main' = "create"
  /\ LET w   == Wrap(wake + 1)
         due == On("t_wake_thresh") /\ w >= cfg["wake_thresh"]
     IN  /\ wake' = IF due THEN 0 ELSE w
         /\ queue' = IF due THEN Post(queue, Event("send")) ELSE queue
  /\ UNCHANGED <<cfg, registered, nvs, power, cause, net, task, meas, used, button>>

WakeupUndefined ==
  /\ main = "wakeup" /\ cause = "undefined"
  /\ main' = "create"
  /\ UNCHANGED <<rtc, nvs, power, cause, net, queue, task, meas, used, button>>

WakeupExternal ==
  /\ main = "wakeup" /\ cause = "ext0"
  /\ main' = "request"
  /\ cfg' = [cfg EXCEPT !["config_mode"] = 1]
  /\ UNCHANGED <<wake, registered, nvs, power, cause, net, queue, task, meas,
                 used, button>>

\* Mutant of PersistRequest: the request stays in RTC memory.
PersistNoRequest ==
  /\ main = "request"
  /\ Restart
  /\ UNCHANGED <<nvs, button>>

\* Mutant of PersistRequest: the chip is not restarted.
PersistRequestOnly ==
  /\ main = "request"
  /\ WriteConfig(cfg)
  /\ main' = "create"
  /\ UNCHANGED <<rtc, power, cause, net, queue, task, meas, used, button>>

\* The result of storage_write_config is not looked at.
PersistRequest ==
  /\ main = "request"
  /\ WriteConfig(cfg)
  /\ Restart
  /\ UNCHANGED button

CreateTasks ==
  /\ main = "create"
  /\ meas' = "run"
  /\ main' = IF On("config_mode") THEN "serving" ELSE "done"
  /\ UNCHANGED <<rtc, nvs, power, cause, net, queue, task, used, button>>

Main ==
  \/ LoadConfig \/ InitProtocols \/ Connect \/ ConnectFails
  \/ WakeupTimer \/ WakeupUndefined \/ WakeupExternal \/ PersistRequest
  \/ CreateTasks

-----------------------------------------------------------------------------
(* The measurement task and the configuration server.                        *)

\* All of init_and_read_sensor_values.  The status poll in it (bmp280.c:187) has
\* no bound: nothing says that this step is ever taken.
Measure ==
  /\ meas = "run"
  /\ meas' = "done"
  /\ queue' = Post(queue, Event("sleep"))
  /\ UNCHANGED <<rtc, nvs, boot, net, task, used, button>>

PostCommands(b) ==
  /\ main = "serving" /\ link
  /\ queue' = Post(queue, [type |-> "command", batch |-> b])
  /\ UNCHANGED <<rtc, nvs, boot, net, task, meas, used, button>>

\* Request 0x0c reads the configuration from flash before it answers; what the
\* event loop task has just changed is taken back.
GetConfig ==
  /\ Queries /\ main = "serving" /\ link
  /\ cfg' = ReadConfig /\ torn' = (torn \/ loop = "write")
  /\ UNCHANGED <<wake, registered, nvs, boot, net, queue, loop, todo, held, meas,
                 used, button>>

-----------------------------------------------------------------------------
(* The event loop task.                                                      *)

Take(t) ==
  /\ loop = "idle" /\ queue # <<>> /\ Head(queue).type = t
  /\ queue' = Tail(queue)

IgnoreSleep ==
  /\ Take("sleep")
  /\ On("config_mode") \/ ~On("deep_sleep")
  /\ UNCHANGED <<rtc, nvs, boot, net, task, meas, used, button>>

EnterDeepSleep ==
  /\ loop = "idle" /\ queue # <<>> /\ Head(queue).type = "sleep"
  /\ ~On("config_mode") /\ On("deep_sleep")
  /\ power' = "asleep" /\ main' = "off"
  /\ RamCleared
  /\ UNCHANGED <<rtc, nvs, cause, torn, button>>

\* A protocol is found by its identifier once register_protocols has run.
SendData ==
  /\ Take("send")
  /\ used' = IF registered /\ cfg["active_prot"] \in Protocols
             THEN cfg["active_prot"] ELSE used
  /\ UNCHANGED <<rtc, nvs, boot, net, task, meas, button>>

BeginCommands ==
  /\ Take("command")
  /\ todo' = Head(queue).batch
  /\ loop' = IF todo' = <<>> THEN "idle" ELSE "set"
  /\ UNCHANGED <<rtc, nvs, boot, net, held, torn, meas, used, button>>

\* Mutant of SetField: the configuration is not written to flash.
SetFieldOnly ==
  /\ loop = "set" /\ Head(todo).op = "set"
  /\ cfg' = [cfg EXCEPT ![Head(todo).key] = Head(todo).value]
  /\ todo' = Tail(todo)
  /\ loop' = IF todo' = <<>> THEN "idle" ELSE "set"
  /\ UNCHANGED <<wake, registered, nvs, boot, net, queue, held, torn, meas, used, button>>

\* COMMAND_WRITE_CONFIG changes the field in RTC memory ...
SetField ==
  /\ loop = "set" /\ Head(todo).op = "set"
  /\ cfg' = [cfg EXCEPT ![Head(todo).key] = Head(todo).value]
  /\ loop' = "persist"
  /\ UNCHANGED <<wake, registered, nvs, boot, net, queue, todo, held, torn, meas,
                 used, button>>

\* ... takes the values to write from there ...
Collect ==
  /\ loop = "persist"
  /\ held' = cfg
  /\ loop' = "write"
  /\ UNCHANGED <<rtc, nvs, boot, net, queue, todo, torn, meas, used, button>>

\* ... and writes all of them; a failure is only logged.
Persist ==
  /\ loop = "write"
  /\ WriteConfig(held)
  /\ todo' = Tail(todo) /\ held' = Defaults
  /\ loop' = IF todo' = <<>> THEN "idle" ELSE "set"
  /\ UNCHANGED <<rtc, boot, net, queue, torn, meas, used, button>>

RestartCommand ==
  /\ loop = "set" /\ Head(todo).op = "restart"
  /\ Restart
  /\ UNCHANGED <<nvs, button>>

EventLoop ==
  \/ IgnoreSleep \/ EnterDeepSleep \/ SendData
  \/ BeginCommands \/ SetField \/ Collect \/ Persist \/ RestartCommand

-----------------------------------------------------------------------------
Next ==
  \/ Reset \/ TimerWake \/ ButtonPress \/ ButtonWake \/ ButtonRelease
  \/ Main \/ Measure \/ EventLoop \/ GetConfig
  \/ \E b \in Batches : PostCommands(b)

\* Tasks run, the timer fires, a held button wakes the chip and the WiFi driver
\* reports success or failure.  The sensor, users, clients and faults are not fair.
Fairness ==
  /\ WF_vars(Main) /\ WF_vars(EventLoop)
  /\ WF_vars(TimerWake \/ ButtonWake)

Spec == Init /\ [][Next]_vars /\ Fairness

-----------------------------------------------------------------------------
(* What must hold.                                                           *)

\* Unless flash cannot be written, the module goes to sleep only with the
\* configuration it will find in flash, maintenance mode switched off there: no
\* power cut in its sleep changes how it goes on (process_command_batch writes
\* RTC memory first, flash after, and may be cut in between).  The exception is a
\* client that asked for the configuration while a command was writing it: flash
\* then got values RTC memory had no longer, the maintenance flag included.
SleepsAsStored ==
  power = "asleep" /\ ~torn =>
    /\ "config_mode" \in DOMAIN nvs /\ nvs["config_mode"] = 0
    /\ \A k \in DOMAIN nvs : nvs[k] = cfg[k]

\* The protocol that transmits is the one this boot has initialised, and the
\* WiFi protocol transmits only once the access point is joined: app_main
\* foresees, before the counter is incremented, the wakeup in which
\* wakeup_reason transmits (ProtocolsNeeded against WakeupTimer, over whatever
\* the client makes of threshold, toggle and protocol).  The exception is that of
\* SleepsAsStored: a module that sleeps while flash has it in maintenance mode
\* initialises the configuration protocol and transmits all the same.
SendsReady == used # 0 /\ ~torn => used = inited /\ (used = Wifi => link)

\* The counter never reaches the threshold while the module sleeps, although
\* the client may change the threshold (wakeup_reason), with that exception again.
NotOverdue ==
  power = "asleep" /\ ~torn /\ On("t_wake_thresh") /\ cfg["wake_thresh"] > 0 =>
    wake < cfg["wake_thresh"]

\* The modes of the README's automaton: the mode a boot ends up in is the one
\* flash has for it, whatever was changed, overtaken or cut short before; a boot
\* by the button does nothing but restart; a transmission that wakeup_reason has
\* posted is over before the module sleeps, also when the client ends
\* maintenance mode meanwhile.  Writing the configuration must not fail: the
\* module goes on with what it could not write.
Deployment == "config_mode" \in DOMAIN nvs /\ nvs["config_mode"] = 0

Mode ==
  IF power = "asleep" THEN "asleep"
  ELSE IF main = "serving" THEN "maintenance"
  ELSE IF main = "done" THEN "deployed"
  ELSE "boot"

Why ==
  IF cause = "timer" THEN "timer" ELSE IF cause = "ext0" THEN "button" ELSE "power"

Queued(t) == \E j \in 1..Len(queue) : queue[j].type = t

M == INSTANCE Modes
       WITH mode <- Mode, why <- Why, due <- Queued("send"), configured <- Deployment

ModesSpec == M!Spec

\* Initialising a protocol comes out as Startup says, and what app_main is left
\* with, an address, a protocol without one or none, stays so until the boot ends:
\* what Protocols guarantees is all that is assumed of init_protocols here.
StartupState ==
  IF power = "asleep" \/ main \in {"setup", "init"} THEN "booting"
  ELSE IF main = "connect" THEN "starting"
  ELSE IF link \/ inited \in {Zigbee, Ble} THEN "up"
  ELSE "alone"

StartupKind ==
  IF inited = 0 THEN "none"
  ELSE IF inited = Wifi THEN "radio"
  ELSE IF inited = Config THEN "server"
  ELSE "plain"

SU == INSTANCE Startup WITH state <- StartupState, kind <- StartupKind

StartupSafety == SU!Safety

\* A command that changes the configuration has changed it when it is done, in
\* RTC memory, which the rest of the boot follows, and in flash, which the next
\* boot reads, whatever the client asks meanwhile (process_command_batch against
\* the re-read in do_retransmit).
\* README.md:181 "give the user the ability to directly communicate with the
\* sensor module in order to change configuration properties".
ChangeKept ==
  [][LET change == Head(todo)
     IN  Persist => /\ cfg'[change.key] = change.value
                    /\ change.key \in DOMAIN nvs'
                    /\ nvs'[change.key] = change.value]_vars

\* The sensor answers every measurement (a hypothesis of what follows).
SensorReturns == meas = "run" ~> meas # "run"

\* SensorReturns: a wakeup by the button ends in maintenance mode, unless its user
\* goes on pressing it for ever (wakeup_reason persists the request, the restarted
\* app_main finds it).
\* README.md:166 "the external wakeup source, which is utilized to transition
\* the sensor into maintenance mode".
MaintenanceReached ==
  SensorReturns /\ (<>[](button = "up") \/ <>[](button = "down")) =>
    (cause = "ext0" ~> main = "serving")

\* What a restart finds for key k in flash.
Stored(k) == IF k \in DOMAIN nvs THEN nvs[k] ELSE Defaults[k]

\* A boot that follows a restart does not need WiFi: wifi_init, which restarts the
\* chip when it cannot join, cannot keep the module from measuring.
MeasuresFirst ==
  \/ Stored("t_wake_thresh") = 0 \/ Stored("wake_thresh") > 1
  \/ Stored("active_prot") # Wifi

\* SensorReturns, MeasuresFirst: a wakeup by the button ends in maintenance mode,
\* also when app_main restarts over an access point out of reach before it has
\* looked at the cause of the wakeup, as long as the button is held: the restarted
\* module measures, sleeps, and is woken again (app_main, wifi_init).
ButtonObeyed ==
  SensorReturns /\ <>[]MeasuresFirst =>
    (cause = "ext0" ~>
       main = "serving" \/ (power = "asleep" /\ button = "up"))

\* SensorReturns, MeasuresFirst: a module whose stored configuration is out of
\* maintenance mode, lets it sleep, and that does not stay in the maintenance mode
\* it was booted in (its client ends that by a restart), completes measurements
\* again and again, whether WiFi, when a transmission needs it, can be joined or
\* not (wakeup_reason, wifi_init).
\* README.md:3 "The main purpose is to periodically collect and store
\* environmental data".
CollectsAgain ==
  /\ SensorReturns
  /\ []<>(main # "serving")
  /\ <>[](Deployment /\ MeasuresFirst /\ Stored("deep_sleep") # 0)
  => []<><<Measure>>_vars
=============================================================================
