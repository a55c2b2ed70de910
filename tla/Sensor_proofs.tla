---------------------------- MODULE Sensor_proofs -----------------------------
(***************************************************************************)
(* Theorems about Sensor, for every tick, delay and conversion time: types *)
(* and that what is stored was measured, unless the conversion takes       *)
(* longer than the delay is sure to last or the bus failed.                *)
(***************************************************************************)
EXTENDS Sensor, TLAPS

-----------------------------------------------------------------------------
(* Ticks and milliseconds.                                                   *)

\* The ticks the task asks for.
Whole == DelayMs \div TickMs

LEMMA WholeNat == Whole \in Nat
BY SensorAssumption DEF SensorAssumption, Whole

LEMMA GuaranteedIs ==
  /\ Guaranteed \in Int /\ Whole * TickMs \in Nat
  /\ Guaranteed = Whole * TickMs - TickMs
<1>1. TickMs \in Nat \ {0}
  BY SensorAssumption DEF SensorAssumption
<1>2. \A w \in Nat : /\ (w - 1) * TickMs \in Int /\ w * TickMs \in Nat
                      /\ (w - 1) * TickMs = w * TickMs - TickMs
  BY <1>1
<1>3. Guaranteed = (Whole - 1) * TickMs
  BY DEF Guaranteed, Whole
<1> HIDE DEF Whole
<1>4. QED BY <1>2, <1>3, WholeNat

LEMMA PhaseStays ==
  ASSUME NEW p \in 0..(TickMs - 1)
  PROVE  /\ (p + 1) % TickMs \in 0..(TickMs - 1)
         /\ (p + 1) % TickMs = IF p = TickMs - 1 THEN 0 ELSE p + 1
BY SensorAssumption DEF SensorAssumption

\* A tick less is TickMs less to wait.
LEMMA OneTick ==
  ASSUME NEW n \in Nat \ {0}
  PROVE  /\ n * TickMs \in Nat /\ (n - 1) * TickMs \in Nat
         /\ (n - 1) * TickMs = n * TickMs - TickMs
BY SensorAssumption DEF SensorAssumption

-----------------------------------------------------------------------------
(* Type correctness.                                                         *)

LEMMA TypeInit == Init => TypeOK
<1> SUFFICES ASSUME Init PROVE TypeOK
  OBVIOUS
<1>1. 0 \in 0..(TickMs - 1) /\ 0 \in 0..Whole /\ 0 \in 0..ConvMs
  BY WholeNat, SensorAssumption DEF SensorAssumption
<1>2. QED BY <1>1 DEF Init, TypeOK, Whole, Values

LEMMA TypeNext == TypeOK /\ [Next]_vars => TypeOK'
<1> SUFFICES ASSUME TypeOK, [Next]_vars PROVE TypeOK'
  OBVIOUS
<1> USE DEF TypeOK, driver, device, time, Values, Accesses
<1>1. CASE BusFails
  BY <1>1 DEF BusFails
<1>2. CASE BusRecovers
  BY <1>2 DEF BusRecovers
<1>3. CASE CopyDone
  BY <1>3 DEF CopyDone
<1>4. CASE Convert
  BY <1>4 DEF Convert
<1>5. CASE Pass
  <2>1. phase' \in 0..(TickMs - 1)
    BY <1>5, PhaseStays DEF Pass
  <2>2. ticks' \in 0..(DelayMs \div TickMs)
    BY <1>5, WholeNat DEF Pass, Whole
  <2>3. age' \in 0..ConvMs
    BY <1>5, SensorAssumption DEF Pass, SensorAssumption
  <2>4. QED BY <1>5, <2>1, <2>2, <2>3 DEF Pass
<1>6. CASE Start
  BY <1>6 DEF Start
<1>7. ASSUME NEW a \in Accesses, Access(a) PROVE TypeOK'
  <2>1. pc' \in Accesses \cup {"give"}
    BY <1>7 DEF Access, NextAccess
  <2>2. mode' \in {"sleep", "copy", "normal"} /\ regs' \in {"first", "old", "new"}
    BY <1>7 DEF Access, Effect
  <2>3. calib' \in {"none", "early", "valid"}
    BY <1>7 DEF Access, Effect
  <2>4. age' \in 0..ConvMs
    BY <1>7, SensorAssumption DEF Access, SensorAssumption
  <2>5. QED BY <1>7, <2>1, <2>2, <2>3, <2>4 DEF Access, Transfer
<1>8. CASE PollAgain
  BY <1>8 DEF PollAgain
<1>9. CASE InitFails
  BY <1>9 DEF InitFails
<1>10. CASE Sleep
  <2>1. Whole \in 0..Whole
    BY WholeNat
  <2>2. ticks' \in 0..(DelayMs \div TickMs)
    BY <1>10, <2>1 DEF Sleep, Whole
  <2>3. QED BY <1>10, <2>2 DEF Sleep
<1>11. CASE Wake
  BY <1>11 DEF Wake
<1>12. CASE Read
  BY <1>12 DEF Read, Transfer
<1>13. CASE ReadFails
  BY <1>13 DEF ReadFails
<1>14. CASE Store
  BY <1>14 DEF Store
<1>15. CASE Boot
  BY <1>15 DEF Boot
<1>16. CASE UNCHANGED vars
  BY <1>16 DEF vars
<1>17. QED
  BY <1>1, <1>2, <1>3, <1>4, <1>5, <1>6, <1>7, <1>8, <1>9, <1>10, <1>11, <1>12,
     <1>13, <1>14, <1>15, <1>16 DEF Next, Task

\* Every variable of the measurement has its type, for every tick, delay,
\* conversion time and kind of chip (init_and_read_sensor_values, bmp280_init).
THEOREM TypeCorrect == Spec => []TypeOK
<1>1. QED BY TypeInit, TypeNext, PTL DEF Spec

-----------------------------------------------------------------------------
(* What is stored was measured.                                              *)

\* Once the end of the reset has been seen, the sensor copies no more.
Started == {"calib", "calib_hum", "config", "ctrl_hum", "ctrl"}

\* Where the calibration has been read, and the sensor started.
Calibrated == {"calib_hum", "config", "ctrl_hum", "ctrl", "give", "delay", "read"}
Running    == {"give", "delay", "read"}

\* From the reset to the start of the conversion.
Cleared == {"status", "calib", "calib_hum", "config", "ctrl_hum", "ctrl"}

\* While nothing has been converted the time since the start is short, and what
\* the task has still to sleep fills it up to the whole delay but for a tick.
Remaining ==
  pc = "delay" /\ regs # "new" =>
    Whole * TickMs + phase <= age + ticks * TickMs + TickMs - 1

MeasInv ==
  /\ bus = "down" => faulted
  /\ pc = "status" => mode # "normal"
  /\ pc \in Started => mode = "sleep"
  /\ pc \in Calibrated => calib = "valid"
  /\ pc \in Running => mode = "normal"
  /\ pc \in {"delay", "read"} => ~mutex
  /\ pc \in Accesses \cup Running => values = "undefined"
  /\ pc \in Cleared => regs = "first"
  /\ pc \in Running => regs \in {"first", "new"}
  /\ pc = "read" => regs = "new" \/ age > Guaranteed
  /\ pc \in {"store", "stored"} =>
       \/ values = "new"
       \/ values = "first" /\ age > Guaranteed
       \/ values = "undefined" /\ faulted
  /\ Remaining

LEMMA MeasInit == Init => MeasInv
BY DEF Init, MeasInv, Started, Calibrated, Running, Cleared, Remaining, Accesses

\* Only Pass and Sleep have to do with time.
LEMMA RemainingNext ==
  ASSUME TypeOK, MeasInv, [Next]_vars
  PROVE  Remaining'
<1> DEFINE whole == Whole * TickMs
<1>0. whole \in Nat /\ TickMs \in Nat \ {0} /\ ticks \in Nat /\ age \in Nat /\ phase \in Nat
  <2>1. \A w \in Nat : w * TickMs \in Nat
    BY SensorAssumption DEF SensorAssumption
  <2>2. QED BY <2>1, WholeNat, SensorAssumption DEF TypeOK, SensorAssumption, Whole
<1> HIDE DEF whole
<1>1. CASE Pass
  <2> SUFFICES ASSUME pc' = "delay", regs' # "new"
               PROVE  whole + phase' <= age' + ticks' * TickMs + TickMs - 1
    BY DEF Remaining, whole
  <2>1. whole + phase <= age + ticks * TickMs + TickMs - 1
    BY <1>1 DEF Pass, MeasInv, Remaining, device, whole
  <2>2. age' = age + 1
    BY <1>1 DEF Pass, device
  <2>3. phase' = (IF phase = TickMs - 1 THEN 0 ELSE phase + 1)
    BY <1>1, PhaseStays DEF Pass, TypeOK
  <2>4. ticks # 0 /\ ticks' = (IF phase' = 0 THEN ticks - 1 ELSE ticks)
    BY <1>1, <1>0 DEF Pass
  <2>5. ticks * TickMs \in Nat /\ (ticks - 1) * TickMs = ticks * TickMs - TickMs
    BY <1>0, <2>4, OneTick
  <2>6. CASE phase = TickMs - 1
    BY <1>0, <2>1, <2>2, <2>3, <2>4, <2>5, <2>6
  <2>7. CASE phase # TickMs - 1
    BY <1>0, <2>1, <2>2, <2>3, <2>4, <2>5, <2>7
  <2>8. QED BY <2>6, <2>7
<1>2. CASE Sleep
  <2>1. phase' \in 0..(TickMs - 1) /\ ticks' = Whole /\ age' = age
    BY <1>2 DEF Sleep, Whole
  <2>2. phase' \in Nat /\ phase' <= TickMs - 1 /\ age' \in Nat
    BY <1>0, <2>1
  <2>3. whole + phase' <= age' + whole + TickMs - 1
    <3>1. \A w, p, b, t \in Nat : p <= t - 1 => w + p <= b + w + t - 1
      OBVIOUS
    <3>2. QED BY ONLY <3>1, <1>0, <2>2, Zenon
  <2>4. QED BY <2>1, <2>3 DEF Remaining, whole
<1>3. CASE Convert
  BY <1>3 DEF Convert, Remaining
<1>4. CASE pc' = "delay" /\ ~Pass /\ ~Sleep /\ ~Convert
  <2>1. pc = "delay" /\ UNCHANGED <<regs, phase, ticks, age>>
    BY <1>4 DEF Next, Task, BusFails, BusRecovers, CopyDone, Start, Access, NextAccess,
       PollAgain, InitFails, Wake, Read, ReadFails, Store, Boot, vars, device, time, Accesses
  <2>2. QED BY <2>1 DEF MeasInv, Remaining
<1>5. QED BY <1>1, <1>2, <1>3, <1>4 DEF Remaining

\* When the task wakes up, the first conversion is over or takes longer than the
\* ticks but the first.
LEMMA WakeMeasured ==
  ASSUME TypeOK, MeasInv, Wake
  PROVE  regs = "new" \/ age > Guaranteed
<1> SUFFICES ASSUME regs # "new" PROVE age > Guaranteed
  OBVIOUS
<1>1. Whole * TickMs + phase <= age + ticks * TickMs + TickMs - 1 /\ ticks = 0
  BY DEF MeasInv, Remaining, Wake
<1>2. age \in Nat /\ TickMs \in Nat \ {0} /\ phase \in Nat
  BY SensorAssumption DEF TypeOK, SensorAssumption
<1>3. ticks * TickMs = 0
  BY <1>1, <1>2
<1>4. QED BY <1>1, <1>2, <1>3, GuaranteedIs

LEMMA MeasNext == TypeOK /\ MeasInv /\ [Next]_vars => MeasInv'
<1> SUFFICES ASSUME TypeOK, MeasInv, [Next]_vars PROVE MeasInv'
  OBVIOUS
<1>0. Remaining'
  BY RemainingNext
<1> USE <1>0 DEF TypeOK, MeasInv, driver, device, time, Accesses, Started, Calibrated, Running,
       Cleared, Converting
<1>1. CASE BusFails
  BY <1>1 DEF BusFails
<1>2. CASE BusRecovers
  BY <1>2 DEF BusRecovers
<1>3. CASE CopyDone
  BY <1>3 DEF CopyDone
<1>4. CASE Convert
  BY <1>4 DEF Convert
<1>5. CASE Pass
  BY <1>5 DEF Pass
<1>6. CASE Start
  BY <1>6 DEF Start
<1>7. ASSUME NEW a \in Accesses, Access(a) PROVE MeasInv'
  BY <1>7 DEF Access, NextAccess, Effect
<1>8. CASE PollAgain
  BY <1>8 DEF PollAgain
<1>9. CASE InitFails
  BY <1>9 DEF InitFails
<1>10. CASE Sleep
  BY <1>10 DEF Sleep
<1>11. CASE Wake
  BY <1>11, WakeMeasured DEF Wake
<1>12. CASE Read
  BY <1>12 DEF Read
<1>13. CASE ReadFails
  BY <1>13 DEF ReadFails
<1>14. CASE Store
  BY <1>14 DEF Store
<1>15. CASE Boot
  BY <1>15 DEF Boot
<1>16. CASE UNCHANGED vars
  BY <1>16 DEF vars
<1>17. QED
  BY <1>1, <1>2, <1>3, <1>4, <1>5, <1>6, <1>7, <1>8, <1>9, <1>10, <1>11, <1>12,
     <1>13, <1>14, <1>15, <1>16 DEF Next, Task

\* What is stored was converted in this boot and compensated with the sensor's
\* calibration, unless the bus failed or the conversion took longer than all the
\* ticks the task waits but the first, for every tick, delay and conversion time
\* (init_and_read_sensor_values, bmp280_init).
THEOREM StoredMeasured == Spec => []StoresMeasured
<1>1. Init => TypeOK /\ MeasInv
  BY TypeInit, MeasInit
<1>2. TypeOK /\ MeasInv /\ [Next]_vars => (TypeOK /\ MeasInv)'
  BY TypeNext, MeasNext
<1>3. TypeOK /\ MeasInv => StoresMeasured
  BY DEF MeasInv, StoresMeasured
<1>4. QED BY <1>1, <1>2, <1>3, PTL DEF Spec

\* The first of the ticks does not count: the conversion is over when the others
\* are (with the firmware's 45 ms and ticks of 10 ms, within 30 ms).
Covers == ConvMs <= Guaranteed

\* What is stored is a value of this boot, or the bus failed.
Measured == pc = "stored" => values = "new" \/ (values = "undefined" /\ faulted)

\* A sensor that converts within the ticks but the first has its value stored
\* whenever the bus works: the delay to write into the firmware for a sensor is one
\* that Covers (init_and_read_sensor_values).
THEOREM CoveredMeasured == Covers => (Spec => []Measured)
<1> SUFFICES ASSUME Covers PROVE Spec => []Measured
  OBVIOUS
<1>1. TypeOK /\ StoresMeasured => Measured
  <2> SUFFICES ASSUME TypeOK, StoresMeasured PROVE ~(age > Guaranteed)
    BY DEF Measured, StoresMeasured
  <2>1. age <= ConvMs /\ age \in Int /\ ConvMs \in Int
    BY SensorAssumption DEF TypeOK, SensorAssumption
  <2>2. QED BY <2>1, GuaranteedIs DEF Covers
<1>2. QED BY <1>1, TypeCorrect, StoredMeasured, PTL
=============================================================================
