-------------------------------- MODULE Sensor --------------------------------
(***************************************************************************)
(* Taking one measurement: the first half of init_and_read_sensor_values   *)
(* (main/routines.c) with the BME280 driver (components/sensor/bmp280.c)   *)
(* and the I2C layer below it (components/sensor/i2cdev.c), on a bus that  *)
(* may fail, against a sensor that copies its calibration after a reset    *)
(* and needs time for its first conversion.  What happens to the value in  *)
(* flash is DataLog's.                                                     *)
(***************************************************************************)
EXTENDS Integers

CONSTANTS
  TickMs,     \* 10, a tick of FreeRTOS (CONFIG_FREERTOS_HZ is 100)
  DelayMs,    \* 45, what the task asks vTaskDelay for
  ConvMs,     \* 41, the longest first conversion (routines.c:30)
  Chips       \* what may answer at the sensor's address

ASSUME SensorAssumption ==
  /\ TickMs \in Nat \ {0} /\ DelayMs \in Nat /\ ConvMs \in Nat \ {0}
  /\ Chips \subseteq {"bme280", "bmp280", "other"}

VARIABLES
  pc,         \* the measurement task
  chip,       \* what answers at the sensor's address
  bus,        \* whether a transaction on the bus succeeds
  port,       \* the I2C driver is installed with the sensor's pins
  mutex,      \* the device mutex is taken
  calib,      \* the calibration in bmp280_t
  values,     \* temp, pressure, humidity: locals of the task
  mode, regs, \* the sensor: its mode, what its data registers hold
  phase,      \* milliseconds into the current tick
  ticks,      \* ticks the task has still to sleep
  age,        \* milliseconds since the sensor was started
  faulted     \* history: the bus failed in this boot

driver == <<port, mutex, calib, values>>
device == <<mode, regs>>
time   == <<phase, ticks, age>>
vars   == <<pc, chip, bus, driver, device, time, faulted>>

\* The accesses of bmp280_init in their order; a BMP280 has no humidity.
NextAccess(a) ==
  [id |-> "reset", reset |-> "status", status |-> "calib",
   calib |-> IF chip = "bme280" THEN "calib_hum" ELSE "config", calib_hum |-> "config",
   config |-> IF chip = "bme280" THEN "ctrl_hum" ELSE "ctrl", ctrl_hum |-> "ctrl",
   ctrl |-> "give"][a]

Accesses == {"id", "reset", "status", "calib", "calib_hum", "config", "ctrl_hum", "ctrl"}

\* "first": the content after a reset; "old": converted in an earlier boot;
\* "undefined": an uninitialised local; "wrong": computed without calibration.
Values == {"undefined", "first", "old", "new", "wrong"}

TypeOK ==
  /\ pc \in Accesses \cup {"start", "give", "delay", "read", "store", "stored", "panic"}
  /\ chip \in Chips /\ bus \in {"up", "down"}
  /\ port \in BOOLEAN /\ mutex \in BOOLEAN /\ calib \in {"none", "early", "valid"}
  /\ values \in Values /\ mode \in {"sleep", "copy", "normal"}
  /\ regs \in {"first", "old", "new"}
  /\ phase \in 0..(TickMs - 1) /\ ticks \in 0..(DelayMs \div TickMs)
  /\ age \in 0..ConvMs /\ faulted \in BOOLEAN

\* The sensor has been powered for a while, and used by an earlier firmware run.
Init ==
  /\ pc = "start" /\ chip \in Chips /\ bus = "up"
  /\ port = FALSE /\ mutex = FALSE /\ calib = "none" /\ values = "undefined"
  /\ mode \in {"sleep", "normal"} /\ regs \in {"first", "old"}
  /\ phase = 0 /\ ticks = 0 /\ age = 0 /\ faulted = FALSE

-----------------------------------------------------------------------------
(* The bus, the sensor and time.                                             *)

BusFails ==
  /\ bus = "up"
  /\ bus' = "down" /\ faulted' = TRUE
  /\ UNCHANGED <<pc, chip, driver, device, time>>

BusRecovers ==
  /\ bus = "down"
  /\ bus' = "up"
  /\ UNCHANGED <<pc, chip, driver, device, time, faulted>>

\* After a reset the sensor copies its calibration out of its own memory.
CopyDone ==
  /\ mode = "copy"
  /\ mode' = "sleep"
  /\ UNCHANGED <<pc, chip, bus, driver, regs, time, faulted>>

\* The first conversion after the sensor was started in this boot.
Converting == mode = "normal" /\ pc \in {"give", "delay", "read", "store"}

Convert ==
  /\ Converting /\ regs # "new"
  /\ regs' = "new"
  /\ UNCHANGED <<pc, chip, bus, driver, mode, time, faulted>>

\* Time passes while the task sleeps; a conversion does not outlast ConvMs.
Pass ==
  /\ pc = "delay" /\ ticks > 0
  /\ age < ConvMs \/ regs = "new"
  /\ phase' = (phase + 1) % TickMs
  /\ ticks' = IF phase' = 0 THEN ticks - 1 ELSE ticks
  /\ age' = IF age < ConvMs THEN age + 1 ELSE age
  /\ UNCHANGED <<pc, chip, bus, driver, device, faulted>>

-----------------------------------------------------------------------------
(* The task.                                                                 *)

\* i2cdev_init, init_sensor up to bmp280_init: everything is zeroed, the mutex
\* is created, and taken.
Start ==
  /\ pc = "start"
  /\ pc' = "id"
  /\ port' = FALSE /\ mutex' = TRUE /\ calib' = "none" /\ values' = "undefined"
  /\ UNCHANGED <<chip, bus, device, time, faulted>>

\* i2c_dev_read and i2c_dev_write install the driver when they first run.
Transfer == bus = "up" /\ port' = TRUE

\* What an access of bmp280_init does besides moving on to the next one.
Effect(a) ==
  /\ IF a = "reset" THEN mode' = "copy" /\ regs' = "first"
     ELSE IF a = "ctrl" THEN mode' = "normal" /\ UNCHANGED regs
     ELSE UNCHANGED device
  /\ calib' = IF a = "calib"
              THEN IF mode = "copy" THEN "early" ELSE "valid"
              ELSE calib

\* Mutant of Access: the end of the copying is not waited for.
AccessEarly(a) ==
  /\ pc = a /\ Transfer
  /\ a = "id" => chip # "other"
  /\ pc' = NextAccess(a)
  /\ Effect(a)
  /\ age' = IF a = "ctrl" THEN 0 ELSE age
  /\ UNCHANGED <<chip, bus, mutex, values, phase, ticks, faulted>>

Access(a) ==
  /\ pc = a /\ Transfer
  /\ a = "id" => chip # "other"
  /\ a = "status" => mode # "copy"
  /\ pc' = NextAccess(a)
  /\ Effect(a)
  /\ age' = IF a = "ctrl" THEN 0 ELSE age
  /\ UNCHANGED <<chip, bus, mutex, values, phase, ticks, faulted>>

\* The status is polled for ever, while the sensor copies or the bus fails.
PollAgain ==
  /\ pc = "status"
  /\ IF bus = "up" THEN mode = "copy" /\ port' = TRUE ELSE UNCHANGED port
  /\ UNCHANGED <<pc, chip, bus, mutex, calib, values, device, time, faulted>>

\* Every other access that fails, and a wrong chip, end bmp280_init with an
\* error, and ESP_ERROR_CHECK in init_sensor ends the program.
InitFails ==
  /\ \/ pc \in Accesses \ {"status"} /\ bus = "down"
     \/ pc = "id" /\ bus = "up" /\ chip = "other"
  /\ pc' = "panic" /\ mutex' = FALSE
  /\ UNCHANGED <<chip, bus, port, calib, values, device, time, faulted>>

\* Mutant of Sleep: a tick less, as if the first were a whole one.
SleepShort ==
  /\ pc = "give"
  /\ pc' = "delay" /\ mutex' = FALSE
  /\ ticks' = (DelayMs \div TickMs) - 1
  /\ \E p \in 0..(TickMs - 1) : phase' = p
  /\ UNCHANGED <<chip, bus, port, calib, values, device, age, faulted>>

\* Mutant of Sleep: milliseconds are passed for ticks.
SleepTicks ==
  /\ pc = "give"
  /\ pc' = "delay" /\ mutex' = FALSE
  /\ ticks' = DelayMs
  /\ \E p \in 0..(TickMs - 1) : phase' = p
  /\ UNCHANGED <<chip, bus, port, calib, values, device, age, faulted>>

\* vTaskDelay counts ticks, the first of which may come at once.
Sleep ==
  /\ pc = "give"
  /\ pc' = "delay" /\ mutex' = FALSE
  /\ ticks' = DelayMs \div TickMs
  /\ \E p \in 0..(TickMs - 1) : phase' = p
  /\ UNCHANGED <<chip, bus, port, calib, values, device, age, faulted>>

Wake ==
  /\ pc = "delay" /\ ticks = 0
  /\ pc' = "read"
  /\ UNCHANGED <<chip, bus, driver, device, time, faulted>>

\* bmp280_read_float: one burst over all data registers.
Read ==
  /\ pc = "read" /\ ~mutex /\ Transfer
  /\ pc' = "store"
  /\ values' = IF calib = "valid" THEN regs ELSE "wrong"
  /\ UNCHANGED <<chip, bus, mutex, calib, device, time, faulted>>

\* The mutex times out or the transfer fails: read_all_values does not look at
\* the result and the locals stay as they are.
ReadFails ==
  /\ pc = "read" /\ (mutex \/ bus = "down")
  /\ pc' = "store"
  /\ UNCHANGED <<chip, bus, driver, device, time, faulted>>

Store ==
  /\ pc = "store"
  /\ pc' = "stored"
  /\ UNCHANGED <<chip, bus, driver, device, time, faulted>>

\* Mutant of Boot: a panic halts the chip.
BootHalted ==
  /\ pc = "stored"
  /\ pc' = "start"
  /\ regs' = IF regs = "new" THEN "old" ELSE regs
  /\ faulted' = (bus = "down")
  /\ UNCHANGED <<chip, bus, driver, mode, time>>

\* The next boot, after sleep or after a panic.  The sensor keeps its power.
Boot ==
  /\ pc \in {"stored", "panic"}
  /\ pc' = "start"
  /\ regs' = IF regs = "new" THEN "old" ELSE regs
  /\ faulted' = (bus = "down")
  /\ UNCHANGED <<chip, bus, driver, mode, time>>

Task ==
  \/ Start \/ (\E a \in Accesses : Access(a)) \/ PollAgain \/ InitFails
  \/ Sleep \/ Wake \/ Read \/ ReadFails \/ Store \/ Boot

Next == BusFails \/ BusRecovers \/ CopyDone \/ Convert \/ Pass \/ Task

\* The task runs, time passes, the sensor finishes what it does.  The bus need
\* neither fail nor recover.
Fairness ==
  /\ WF_vars(Task) /\ WF_vars(CopyDone) /\ WF_vars(Convert) /\ WF_vars(Pass)

Spec == Init /\ [][Next]_vars /\ Fairness

-----------------------------------------------------------------------------
(* What must hold.                                                           *)

\* What vTaskDelay is sure to wait, and more: all its ticks but the first.
Guaranteed == (DelayMs \div TickMs - 1) * TickMs

\* What is stored as a measurement was converted in this boot and compensated with
\* the sensor's calibration, never the value of an earlier boot, with two
\* exceptions, both in the code: the content of the registers after the reset,
\* when the conversion takes longer than the ticks the task waits, which is never
\* less than 31 ms, though less than the 41 ms the comment at routines.c:30 asks
\* for; and the uninitialised locals when the bus failed
\* (init_and_read_sensor_values, read_all_values, bmp280_init,
\* bmp280_read_fixed).
StoresMeasured ==
  pc = "stored" =>
    \/ values = "new"
    \/ values = "first" /\ age > Guaranteed
    \/ values = "undefined" /\ faulted

\* A bus that works again and a sensor that is one are enough for measurements
\* to go on: neither the poll for the end of the reset nor the series of panics
\* and restarts outlasts the fault (bmp280_init, init_sensor).
MeasuresAgain == <>[](bus = "up") /\ chip # "other" => []<>(pc = "stored")
=============================================================================
