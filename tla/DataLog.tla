------------------------------- MODULE DataLog -------------------------------
(***************************************************************************)
(* The data path of the sensor module: the measurement task of core 1      *)
(* (main/routines.c), the event loop task of core 0 with the sleep, send   *)
(* and erase handlers (components/event_handler/event_handler.c,           *)
(* components/command/command.c), the boot sequence of app_main that       *)
(* starts them (main/router_main.c), the data partition and the two        *)
(* counters in RTC memory they share without a lock, deep sleep and reset. *)
(*                                                                         *)
(* The configuration is that of one deployment (the CONSTANTS); how it     *)
(* changes and which protocol it selects is not this module's subject.     *)
(***************************************************************************)
EXTENDS Storage

CONSTANTS
  Readings,          \* what a measurement may store
  NoReading,         \* no measurement taken yet in this boot
  SendLastValues,    \* config_t.send_last_x_values; 0 sends everything
  Step,              \* 50, entries per block when everything is sent
  UseThreshold,      \* config_t.toggle_wakeup_threshold
  Threshold,         \* config_t.wakeup_counter_threshold
  DeepSleep,         \* config_t.toggle_deep_sleep
  ProtocolKnown,     \* config_t.activated_protocol names a registered one
  QueueSize,         \* 32, EVENT_RECEIVE_DATA_QUEUE_SIZE
  RtcErrorThreshold, \* 2^24
  Commands,          \* what a maintenance client may ask for
  LossyLink,         \* a transmission may fail
  Resets             \* power may be cut, the button pressed, a task abort

ASSUME DataLogAssumption ==
  /\ NoReading \notin Readings
  /\ SendLastValues \in Nat /\ SendLastValues < Word
  /\ Step \in Nat \ {0}
  /\ Threshold \in Nat
  /\ QueueSize \in Nat \ {0}
  /\ RtcErrorThreshold \in Nat
  /\ Commands \subseteq {"erase", "leave"}
  /\ {UseThreshold, DeepSleep, ProtocolKnown, LossyLink, Resets} \subseteq BOOLEAN

VARIABLES
  log, mounted,                \* data partition; NVS has it initialised
  count, wake,                 \* entry_batch_count, wake_up_counter (RTC)
  power, cause, maint, main,   \* on/asleep, wakeup cause, config mode, app_main
  queue,                       \* events posted and not yet taken
  loop, from, to,              \* event loop task: pc and locals of send_data
  meas, reading, key, tmp,     \* measurement task: pc, data[], out_buf, ++
  batch, delivered             \* history: last block handed to the protocol;
                               \* which of the stored readings left the device

flash == <<log, mounted>>
rtc   == <<count, wake>>
boot  == <<power, cause, maint, main>>
task  == <<loop, from, to>>
sense == <<meas, reading, key, tmp>>
air   == <<batch, delivered>>
vars  == <<flash, rtc, boot, queue, task, sense, air>>

Events == {"sleep", "send", "erase", "leave"}

TypeOK ==
  /\ IsLog(log, Readings) /\ mounted \in BOOLEAN
  /\ count \in 0..(Word - 1) /\ wake \in 0..(Word - 1)
  /\ power \in {"on", "asleep"}
  /\ cause \in {"timer", "ext0", "undefined"}
  /\ maint \in BOOLEAN
  /\ main \in {"off", "wakeup", "create", "done", "serving"}
  /\ queue \in Seq(Events) /\ Len(queue) <= QueueSize
  /\ loop \in {"idle", "count", "test", "read", "erase", "zero"}
  /\ from \in Nat /\ to \in Nat
  /\ meas \in {"none", "read", "key", "set", "commit", "load", "store",
               "post", "done"}
  /\ reading \in Readings \cup {NoReading}
  /\ key \in 0..(Word - 1) /\ tmp \in 0..(Word - 1)
  /\ batch \in Seq(Readings) /\ delivered \subseteq Readings

Stored == {log[i] : i \in DOMAIN log}

\* Mutant of Post: the queue takes any number of events.
PostUnbounded(q, e) == Append(q, e)

\* esp_event_post_to with a timeout of one tick, its result ignored: on a full
\* queue the event is lost.
Post(q, e) == IF Len(q) < QueueSize THEN Append(q, e) ELSE q

-----------------------------------------------------------------------------
(* Power: what a boot, a deep sleep and a reset do to the memories.          *)

RamCleared ==
  /\ queue' = <<>>
  /\ loop' = "idle" /\ from' = 0 /\ to' = 0
  /\ meas' = "none" /\ reading' = NoReading /\ key' = 0 /\ tmp' = 0

\* The chip starts: util_setup_nv_storage has initialised the partition and
\* app_main is about to call wakeup_reason.
Boot(why) ==
  /\ power' = "on" /\ cause' = why /\ main' = "wakeup" /\ mounted' = TRUE
  /\ RamCleared

\* Every start that is not a deep sleep wakeup reloads RTC_DATA_ATTR variables
\* from the image; the configuration read next decides on maintenance mode.
Restart ==
  /\ Boot("undefined")
  /\ count' = 0 /\ wake' = 0
  /\ maint' \in BOOLEAN
  /\ UNCHANGED <<log, air>>

Init ==
  /\ log = EmptyLog /\ mounted = TRUE /\ count = 0 /\ wake = 0
  /\ power = "on" /\ cause = "undefined" /\ maint \in BOOLEAN /\ main = "wakeup"
  /\ queue = <<>> /\ loop = "idle" /\ from = 0 /\ to = 0
  /\ meas = "none" /\ reading = NoReading /\ key = 0 /\ tmp = 0
  /\ batch = <<>> /\ delivered = {}

\* The button's ISR, the restart command, a failed ESP_ERROR_CHECK, a panic
\* or a power cut, at any point of any task.
Reset == Resets /\ Restart

TimerWake ==
  /\ power = "asleep"
  /\ Boot("timer")
  /\ UNCHANGED <<log, rtc, maint, air>>

ButtonWake ==
  /\ Resets /\ power = "asleep"
  /\ Boot("ext0")
  /\ UNCHANGED <<log, rtc, maint, air>>

-----------------------------------------------------------------------------
(* app_main on core 0.                                                       *)

\* The first lines of wakeup_reason: a counter no run can reach is replaced.
CheckedCount ==
  IF count >= RtcErrorThreshold THEN ComputeEntryBatchCount(log) ELSE count

\* Mutant of WakeupTimer: the transmission is due one wakeup later.
WakeupTimerLate ==
  /\ main = "wakeup" /\ cause = "timer"
  /\ main' = "create"
  /\ count' = CheckedCount
  /\ LET w   == Wrap(wake + 1)
         due == UseThreshold /\ w > Threshold
     IN  /\ wake' = IF due THEN 0 ELSE w
         /\ queue' = IF due THEN Post(queue, "send") ELSE queue
  /\ UNCHANGED <<flash, power, cause, maint, task, sense, air>>

\* Mutant of WakeupTimer: the wakeup counter is not incremented.
WakeupTimerUncounted ==
  /\ main = "wakeup" /\ cause = "timer"
  /\ main' = "create"
  /\ count' = CheckedCount
  /\ LET due == UseThreshold /\ wake >= Threshold
     IN  /\ wake' = IF due THEN 0 ELSE wake
         /\ queue' = IF due THEN Post(queue, "send") ELSE queue
  /\ UNCHANGED <<flash, power, cause, maint, task, sense, air>>

WakeupTimer ==
  /\ main = "wakeup" /\ cause = "timer"
  /\ main' = "create"
  /\ count' = CheckedCount
  /\ LET w   == Wrap(wake + 1)
         due == UseThreshold /\ w >= Threshold
     IN  /\ wake' = IF due THEN 0 ELSE w
         /\ queue' = IF due THEN Post(queue, "send") ELSE queue
  /\ UNCHANGED <<flash, power, cause, maint, task, sense, air>>

\* Mutant of WakeupUndefined: the entries are not counted after a reset.
WakeupUndefinedUncounted ==
  /\ main = "wakeup" /\ cause = "undefined"
  /\ main' = "create"
  /\ UNCHANGED <<flash, rtc, power, cause, maint, queue, task, sense, air>>

WakeupUndefined ==
  /\ main = "wakeup" /\ cause = "undefined"
  /\ main' = "create"
  /\ count' = ComputeEntryBatchCount(log)
  /\ UNCHANGED <<flash, wake, power, cause, maint, queue, task, sense, air>>

\* Maintenance is requested in the stored configuration, then esp_restart.
WakeupExternal ==
  /\ main = "wakeup" /\ cause = "ext0"
  /\ Restart

CreateTask ==
  /\ main = "create"
  /\ main' = IF maint THEN "serving" ELSE "done"
  /\ meas' = "read"
  /\ UNCHANGED <<flash, rtc, power, cause, maint, queue, task, reading, key,
                 tmp, air>>

Main == WakeupTimer \/ WakeupUndefined \/ WakeupExternal \/ CreateTask

\* The configuration server posts what a client sends in maintenance mode.
PostCommand(c) ==
  /\ main = "serving"
  /\ queue' = Post(queue, c)
  /\ UNCHANGED <<flash, rtc, boot, task, sense, air>>

-----------------------------------------------------------------------------
(* The measurement task on core 1: one measurement per boot.                 *)

\* init_and_read_sensor_values up to the value, step by step in Sensor.  The poll
\* for the end of the sensor's reset (bmp280.c:187) has no bound: nothing says
\* that this step is ever taken.  Entries carry the time they were taken: a new
\* one is unlike the stored ones.
ReadSensor ==
  /\ meas = "read"
  /\ meas' = "key"
  /\ reading' \in Readings \ Stored
  /\ delivered' = delivered \cap Stored
  /\ UNCHANGED <<flash, rtc, boot, queue, task, key, tmp, batch>>

\* Mutant of FormatKey: the key is taken after the increment.
FormatNextKey ==
  /\ meas = "key"
  /\ meas' = "set"
  /\ key' = Wrap(count + 1)
  /\ UNCHANGED <<flash, rtc, boot, queue, task, reading, tmp, air>>

FormatKey ==
  /\ meas = "key"
  /\ meas' = "set"
  /\ key' = count
  /\ UNCHANGED <<flash, rtc, boot, queue, task, reading, tmp, air>>

\* nvs_open_from_partition and nvs_set_str; the value is in flash from here on.
SetString ==
  /\ meas = "set"
  /\ IF mounted /\ HasRoom(log, key)
     THEN log' = SetEntry(log, key, reading) /\ meas' = "commit"
     ELSE UNCHANGED log /\ meas' = "post"
  /\ UNCHANGED <<mounted, rtc, boot, queue, task, reading, key, tmp, air>>

\* The handle is invalid once the partition was erased under it.
Commit ==
  /\ meas = "commit"
  /\ meas' = IF mounted THEN "load" ELSE "post"
  /\ UNCHANGED <<flash, rtc, boot, queue, task, reading, key, tmp, air>>

\* ++entry_batch_count is a load and a store; core 0 writes the same variable.
LoadCount ==
  /\ meas = "load"
  /\ meas' = "store"
  /\ tmp' = count
  /\ UNCHANGED <<flash, rtc, boot, queue, task, reading, key, air>>

\* Mutant of StoreCount: the counter keeps its value.
StoreSameCount ==
  /\ meas = "store"
  /\ meas' = "post"
  /\ count' = tmp
  /\ UNCHANGED <<flash, wake, boot, queue, task, reading, key, tmp, air>>

StoreCount ==
  /\ meas = "store"
  /\ meas' = "post"
  /\ count' = Wrap(tmp + 1)
  /\ UNCHANGED <<flash, wake, boot, queue, task, reading, key, tmp, air>>

PostCompleted ==
  /\ meas = "post"
  /\ meas' = "done"
  /\ queue' = Post(queue, "sleep")
  /\ UNCHANGED <<flash, rtc, boot, task, reading, key, tmp, air>>

\* What follows once the sensor has answered.
Storing ==
  \/ FormatKey \/ SetString \/ Commit \/ LoadCount \/ StoreCount
  \/ PostCompleted

Measurement == ReadSensor \/ Storing

-----------------------------------------------------------------------------
(* The event loop task on core 0.                                            *)

Take(e) ==
  /\ loop = "idle" /\ queue # <<>> /\ Head(queue) = e
  /\ queue' = Tail(queue)

IgnoreSleep ==
  /\ Take("sleep")
  /\ maint \/ ~DeepSleep
  /\ UNCHANGED <<flash, rtc, boot, task, sense, air>>

EnterDeepSleep ==
  /\ loop = "idle" /\ queue # <<>> /\ Head(queue) = "sleep"
  /\ ~maint /\ DeepSleep
  /\ power' = "asleep" /\ main' = "off" /\ mounted' = FALSE
  /\ RamCleared
  /\ UNCHANGED <<log, rtc, cause, maint, air>>

BeginSend ==
  /\ Take("send")
  /\ loop' = IF ~ProtocolKnown THEN "idle"
             ELSE IF SendLastValues = 0 THEN "test" ELSE "count"
  /\ from' = 0 /\ to' = 0
  /\ UNCHANGED <<flash, rtc, boot, sense, air>>

\* Mutant of SelectLast: a window that starts before the first entry is not
\* wrapped around.
SelectLastSigned ==
  /\ loop = "count"
  /\ loop' = "read"
  /\ from' = count - SendLastValues /\ to' = count
  /\ UNCHANGED <<flash, rtc, boot, queue, sense, air>>

\* Mutant of SelectLast: the window ends one entry early.
SelectAllButLast ==
  /\ loop = "count"
  /\ loop' = "read"
  /\ from' = Wrap(count - SendLastValues) /\ to' = Wrap(count - 2)
  /\ UNCHANGED <<flash, rtc, boot, queue, sense, air>>

\* The window ends at the counter's value, one above the last stored index.
SelectLast ==
  /\ loop = "count"
  /\ loop' = "read"
  /\ from' = Wrap(count - SendLastValues) /\ to' = count
  /\ UNCHANGED <<flash, rtc, boot, queue, sense, air>>

\* Mutant of SelectBlock: the loop ends before a block of one entry.
SelectAllButOne ==
  /\ loop = "test"
  /\ IF from + 1 < count
     THEN loop' = "read" /\ to' = from + Step
     ELSE loop' = "erase" /\ UNCHANGED to
  /\ UNCHANGED <<flash, rtc, boot, queue, from, sense, air>>

\* The loop condition reads the counter again for every block.
SelectBlock ==
  /\ loop = "test"
  /\ IF from < count
     THEN loop' = "read" /\ to' = from + Step
     ELSE loop' = "erase" /\ UNCHANGED to
  /\ UNCHANGED <<flash, rtc, boot, queue, from, sense, air>>

\* Mutant of SendBatch: the same block is sent again.
SendBatchAgain ==
  /\ loop = "read"
  /\ batch' = IF mounted THEN ReadEntryBatch(log, from, to) ELSE <<>>
  /\ delivered' = delivered \cup {batch'[j] : j \in DOMAIN batch'}
  /\ loop' = IF SendLastValues = 0 THEN "test" ELSE "idle"
  /\ UNCHANGED <<flash, rtc, boot, queue, from, to, sense>>

\* storage_read_entry_batch and prot->send; the result of send is not looked at.
SendBatch ==
  /\ loop = "read"
  /\ batch' = IF mounted THEN ReadEntryBatch(log, from, to) ELSE <<>>
  /\ \/ delivered' = delivered \cup {batch'[j] : j \in DOMAIN batch'}
     \/ LossyLink /\ UNCHANGED delivered
  /\ IF SendLastValues = 0
     THEN loop' = "test" /\ from' = from + Step
     ELSE loop' = "idle" /\ UNCHANGED from
  /\ UNCHANGED <<flash, rtc, boot, queue, to, sense>>

\* nvs_flash_erase_partition also de-initialises the partition.
EraseSent ==
  /\ loop = "erase"
  /\ loop' = "zero"
  /\ log' = EmptyLog /\ mounted' = FALSE
  /\ UNCHANGED <<rtc, boot, queue, from, to, sense, air>>

ResetCount ==
  /\ loop = "zero"
  /\ loop' = "idle"
  /\ count' = 0
  /\ UNCHANGED <<flash, wake, boot, queue, from, to, sense, air>>

\* The erase command leaves the counter alone.
EraseCommand ==
  /\ Take("erase")
  /\ log' = EmptyLog /\ mounted' = FALSE
  /\ UNCHANGED <<rtc, boot, task, sense, air>>

\* The write-config command that clears toggle_config_mode.
LeaveCommand ==
  /\ Take("leave")
  /\ maint' = FALSE
  /\ UNCHANGED <<flash, rtc, power, cause, main, task, sense, air>>

EventLoop ==
  \/ IgnoreSleep \/ EnterDeepSleep \/ BeginSend \/ SelectLast \/ SelectBlock
  \/ SendBatch \/ EraseSent \/ ResetCount \/ EraseCommand \/ LeaveCommand

-----------------------------------------------------------------------------
Next ==
  \/ Reset \/ TimerWake \/ ButtonWake
  \/ Main \/ Measurement \/ EventLoop
  \/ \E c \in Commands : PostCommand(c)

\* The scheduler runs every ready task and the timer armed before deep sleep
\* fires.  The sensor's answer, resets, the button and the clients of maintenance
\* mode may stay away for ever.
Fairness ==
  /\ WF_vars(Main) /\ WF_vars(Storing) /\ WF_vars(EventLoop)
  /\ WF_vars(TimerWake)

Spec == Init /\ [][Next]_vars /\ Fairness

-----------------------------------------------------------------------------
(* What must hold.                                                           *)

\* Nothing ever removes a stored value: a deployment that transmits a window
\* of the latest values and whose client does not erase.
KeepMode == SendLastValues # 0 /\ "erase" \notin Commands

\* The number of entries in the partition.
Size == Cardinality(DOMAIN log)

\* Between LoadCount and StoreCount, and before, the counter lags by the entry
\* the measurement task has just written.
Counting == meas \in {"commit", "load", "store"}

\* KeepMode: whatever the two tasks, resets and wakeups do, stored entries have
\* no gap, so the scans of storage.c that stop at the first missing key see all
\* of them (storage_write_data_batch, storage_read_entry_batch).
LogContiguous == Contiguous(log)

\* KeepMode: the counter in RTC memory that names the next key is the number of
\* stored entries, except while the measurement task is between its write and
\* its increment and while a restarted app_main has not yet recounted
\* (util_increment_entry_batch_count, wakeup_reason).
CountAgrees ==
  (main # "wakeup" \/ cause = "timer") =>
    count = IF Counting THEN Size - 1 ELSE Size

\* KeepMode: a value once stored is neither overwritten nor removed, not even
\* by a key formatted from a counter that a reset has meanwhile cleared
\* (storage_write_data_batch).
StoredStays ==
  [][\A i \in DOMAIN log : i \in DOMAIN log' /\ log'[i] = log[i]]_vars

\* The wakeup counter never reaches the threshold while the module sleeps: a
\* transmission that became due was posted during the wakeup (wakeup_reason).
NotOverdue == power = "asleep" /\ UseThreshold /\ Threshold > 0 => wake < Threshold

\* Nothing is missing from the block of entry i up to the entry itself.
ReachedInBlock(i) == (i - (i % Step))..i \subseteq DOMAIN log

\* When everything has been sent and is about to be erased, every entry the
\* counter counts and that its block's read reaches has left the device, save
\* the one the measurement task is storing: the seams of send_data's blocks lose
\* nothing although the counter moves under the loop, entries are stored, erased
\* and recounted meanwhile, and an earlier transmission may have left a gap in
\* another block.  What lies behind a gap of its own block is not read and is
\* erased all the same: AllOffered, below, asks for it.
BlocksOffered ==
  loop = "erase" =>
    \A i \in 0..(count - 1) :
      ReachedInBlock(i) => log[i] \in delivered \/ log[i] = reading

\* The sensor answers every measurement (the hypothesis of what follows: the
\* status poll of bmp280_init may otherwise go on for ever).
SensorReturns == meas = "read" ~> meas # "read"

\* SensorReturns: outside maintenance mode every boot ends in deep sleep, unless
\* a reset starts another: the sleep event is posted also when storing fails, is
\* not lost on the bounded queue, and the handler that sends before it ends
\* (init_and_read_sensor_values, run_on_receive_data_event).
EveryBootSleeps ==
  SensorReturns => (main = "done" ~> power = "asleep" \/ main = "wakeup")

\* SensorReturns: a module that is woken by nothing but its timer from some point
\* on transmits again and again, the deployment's purpose (wakeup_reason counts
\* to the threshold, posts the send event, the event loop sends).
TransmitsAgain ==
  SensorReturns /\ <>[](cause = "timer") => []<>(loop = "read")

\* Everything the module stores it stores and transmits as Recorder says.
StoredSeq == [j \in 1..Size |-> log[j - 1]]

Promise == INSTANCE Recorder
             WITH stored <- StoredSeq, out <- batch, Window <- SendLastValues

RecorderSpec == Promise!Spec

-----------------------------------------------------------------------------
(* What the documentation says and the code does not do.                     *)

\* README.md:174 "either a set of the last measured values with a preconfigured
\* size is transmitted or all measured values at once": when everything has been
\* sent and is about to be erased, every entry the counter counts has left the
\* device, save the one the measurement task is storing (send_data).
AllOffered ==
  loop = "erase" =>
    \A i \in (0..(count - 1)) \cap DOMAIN log :
      log[i] \in delivered \/ log[i] = reading

\* README.md:174, the same sentence: a value leaves the partition only
\* after it left the device (send_data).
ErasedOnlyAfterSent ==
  [][\A i \in DOMAIN log : i \notin DOMAIN log' => log[i] \in delivered]_vars
=============================================================================
