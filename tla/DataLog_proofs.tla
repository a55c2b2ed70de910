---------------------------- MODULE DataLog_proofs ----------------------------
(***************************************************************************)
(* Proofs about DataLog, for every size of word, partition, queue, block   *)
(* and window and whatever the environment does.                           *)
(***************************************************************************)
EXTENDS DataLog, Storage_proofs

USE StorageAssumption, DataLogAssumption

-----------------------------------------------------------------------------
(* Type correctness.  The recounted index is a uint32_t only because the     *)
(* partition cannot hold 2^32 entries, so the invariant that is inductive    *)
(* also bounds the number of entries.                                        *)

TypeInv ==
  /\ TypeOK
  /\ meas \notin {"none", "read"} => reading \in Readings
  /\ IsFiniteSet(DOMAIN log)
  /\ Size <= Capacity

LEMMA PostProperties ==
  ASSUME NEW q \in Seq(Events), NEW e \in Events, Len(q) <= QueueSize
  PROVE  Post(q, e) \in Seq(Events) /\ Len(Post(q, e)) <= QueueSize
BY AppendProperties, LenProperties DEF Post, DataLogAssumption

LEMMA TailProperties ==
  ASSUME NEW q \in Seq(Events), q # <<>>, Len(q) <= QueueSize
  PROVE  Tail(q) \in Seq(Events) /\ Len(Tail(q)) <= QueueSize
BY HeadTailProperties, LenProperties DEF DataLogAssumption

LEMMA EmptyLogProperties ==
  /\ DOMAIN EmptyLog = {}
  /\ IsLog(EmptyLog, Readings)
  /\ IsFiniteSet(DOMAIN EmptyLog)
  /\ Cardinality(DOMAIN EmptyLog) = 0
BY FS_EmptySet DEF EmptyLog, IsLog

\* Where nvs_set_str succeeds, the partition stays a partition.
LEMMA SetEntryProperties ==
  ASSUME NEW k \in 0..(Word - 1), NEW r \in Readings,
         IsLog(log, Readings), IsFiniteSet(DOMAIN log), Size <= Capacity,
         HasRoom(log, k)
  PROVE  LET new == SetEntry(log, k, r)
         IN  /\ IsLog(new, Readings)
             /\ DOMAIN new = DOMAIN log \cup {k}
             /\ \A i \in DOMAIN new : new[i] = IF i = k THEN r ELSE log[i]
             /\ IsFiniteSet(DOMAIN new)
             /\ Cardinality(DOMAIN new) <= Capacity
             /\ k \notin DOMAIN log => Cardinality(DOMAIN new) = Size + 1
<1> DEFINE new == SetEntry(log, k, r)
<1>1. DOMAIN new = DOMAIN log \cup {k}
  BY DEF SetEntry
<1>2. /\ IsFiniteSet(DOMAIN new)
      /\ Cardinality(DOMAIN new) = IF k \in DOMAIN log THEN Size ELSE Size + 1
  BY <1>1, FS_AddElement DEF Size
<1>3. Cardinality(DOMAIN new) <= Capacity
  BY <1>2, FS_CardinalityType DEF HasRoom, Size, StorageAssumption
<1>4. IsLog(new, Readings)
  BY <1>1 DEF SetEntry, IsLog
<1>5. QED BY <1>1, <1>2, <1>3, <1>4 DEF SetEntry

LEMMA TypeInit == Init => TypeInv
<1> SUFFICES ASSUME Init PROVE TypeInv
  OBVIOUS
<1>1. Word \in Nat /\ 1 < Word /\ 0 \in 0..(Word - 1)
  BY DEF StorageAssumption
<1>2. <<>> \in Seq(Events) /\ Len(<<>>) = 0 /\ <<>> \in Seq(Readings)
  BY EmptySeq
<1>3. QED
  BY <1>1, <1>2, EmptyLogProperties
  DEF Init, TypeInv, TypeOK, Size, DataLogAssumption, StorageAssumption

LEMMA TypeStep == TypeInv /\ [Next]_vars => TypeInv'
<1> SUFFICES ASSUME TypeInv, [Next]_vars PROVE TypeInv'
  OBVIOUS
<1> USE DEF TypeInv, TypeOK, Size
<1>a. Word \in Nat /\ 1 < Word /\ 0 \in 0..(Word - 1) /\ (\A n \in Int : Wrap(n) \in 0..(Word - 1))
  BY DEF StorageAssumption, Wrap
<1>b. <<>> \in Seq(Events) /\ Len(<<>>) = 0 /\ <<>> \in Seq(Readings)
  BY EmptySeq
<1>c. QueueSize \in Nat /\ Step \in Nat /\ SendLastValues \in Nat
  BY DEF DataLogAssumption
<1>d. ComputeEntryBatchCount(log) \in 0..(Word - 1) /\ CheckedCount \in 0..(Word - 1)
  BY ComputeEntryBatchCountProperties DEF CheckedCount
<1>r. ASSUME Restart PROVE TypeInv'
  BY <1>r, <1>a, <1>b, <1>c DEF Restart, Boot, RamCleared, air
<1>1. CASE Reset
  BY <1>1, <1>r DEF Reset
<1>2. CASE TimerWake
  BY <1>2, <1>a, <1>b, <1>c DEF TimerWake, Boot, RamCleared, air, rtc
<1>3. CASE ButtonWake
  BY <1>3, <1>a, <1>b, <1>c DEF ButtonWake, Boot, RamCleared, air, rtc
<1>4. CASE WakeupTimer
  <2>1. Post(queue, "send") \in Seq(Events) /\ Len(Post(queue, "send")) <= QueueSize
    BY PostProperties DEF Events
  <2>2. queue' \in Seq(Events) /\ Len(queue') <= QueueSize
    BY <1>4, <2>1 DEF WakeupTimer
  <2>a. wake' = 0 \/ wake' = Wrap(wake + 1)
    BY <1>4 DEF WakeupTimer
  <2>b. Wrap(wake + 1) \in 0..(Word - 1)
    <3>1. wake + 1 \in Int
      BY <1>a
    <3>2. QED BY <1>a, <3>1
  <2>c. count' = CheckedCount
    BY <1>4 DEF WakeupTimer
  <2>3. wake' \in 0..(Word - 1) /\ count' \in 0..(Word - 1)
    BY <1>a, <1>d, <2>a, <2>b, <2>c
  <2>4. QED
    BY <1>4, <2>2, <2>3 DEF WakeupTimer, flash, task, sense, air
<1>5. CASE WakeupUndefined
  BY <1>5, <1>d DEF WakeupUndefined, flash, task, sense, air
<1>6. CASE WakeupExternal
  BY <1>6, <1>r DEF WakeupExternal
<1>7. CASE CreateTask
  BY <1>7 DEF CreateTask, flash, rtc, task, air
<1>8. CASE ReadSensor
  BY <1>8 DEF ReadSensor, flash, rtc, boot, task
<1>9. CASE FormatKey
  BY <1>9 DEF FormatKey, flash, rtc, boot, task, air
<1>10. CASE SetString
  <2>1. CASE mounted /\ HasRoom(log, key)
    <3>1. reading \in Readings
      BY <1>10 DEF SetString
    <3>2. log' = SetEntry(log, key, reading)
      BY <1>10, <2>1 DEF SetString
    <3>3. IsLog(log', Readings) /\ IsFiniteSet(DOMAIN log') /\ Size' <= Capacity
      BY <2>1, <3>1, <3>2, SetEntryProperties
    <3>4. QED BY <1>10, <3>1, <3>3 DEF SetString, rtc, boot, task, air
  <2>2. CASE ~(mounted /\ HasRoom(log, key))
    BY <1>10, <2>2 DEF SetString, rtc, boot, task, air
  <2>3. QED BY <2>1, <2>2
<1>11. CASE Commit
  BY <1>11 DEF Commit, flash, rtc, boot, task, air
<1>12. CASE LoadCount
  BY <1>12 DEF LoadCount, flash, rtc, boot, task, air
<1>13. CASE StoreCount
  BY <1>13, <1>a DEF StoreCount, flash, boot, task, air
<1>14. CASE PostCompleted
  <2>1. Post(queue, "sleep") \in Seq(Events) /\ Len(Post(queue, "sleep")) <= QueueSize
    BY PostProperties DEF Events
  <2>2. QED
    BY <1>14, <2>1 DEF PostCompleted, flash, rtc, boot, task, air
<1>q. ASSUME NEW e \in Events, Take(e)
      PROVE  queue' \in Seq(Events) /\ Len(queue') <= QueueSize
  BY <1>q, TailProperties DEF Take
<1>15. CASE IgnoreSleep
  BY <1>15, <1>q DEF IgnoreSleep, Events, flash, rtc, boot, task, sense, air
<1>16. CASE EnterDeepSleep
  <2>1. mounted' \in BOOLEAN
    BY <1>16 DEF EnterDeepSleep
  <2>2. QED BY <1>16, <1>a, <1>b, <1>c, <2>1 DEF EnterDeepSleep, RamCleared, rtc, air
<1>17. CASE BeginSend
  <2>1. queue' \in Seq(Events) /\ Len(queue') <= QueueSize
    BY <1>17, <1>q DEF BeginSend, Events
  <2>2. QED BY <1>17, <2>1 DEF BeginSend, flash, rtc, boot, sense, air
<1>18. CASE SelectLast
  <2>1. from' \in Nat /\ to' \in Nat
    BY <1>18, <1>a, <1>c DEF SelectLast
  <2>2. QED BY <1>18, <2>1 DEF SelectLast, flash, rtc, boot, sense, air
<1>19. CASE SelectBlock
  BY <1>19, <1>c DEF SelectBlock, flash, rtc, boot, sense, air
<1>20. CASE SendBatch
  <2>1. ReadEntryBatch(log, from, to) \in Seq(Readings)
    <3>1. from \in Int /\ to \in Int /\ \A i \in DOMAIN log : log[i] \in Readings
      BY DEF IsLog
    <3>2. QED BY ONLY <3>1, ReadEntryBatchType
  <2>2. batch' \in Seq(Readings)
    BY <1>20, <1>b, <2>1 DEF SendBatch
  <2>3. \A j \in DOMAIN batch' : batch'[j] \in Readings
    BY <2>2, LenProperties, ElementOfSeq
  <2>4. delivered' \subseteq Readings
    BY <1>20, <2>3 DEF SendBatch
  <2>5. QED BY <1>20, <1>c, <2>2, <2>4 DEF SendBatch, flash, rtc, boot, sense
<1>21. CASE EraseSent
  <2>1. mounted' \in BOOLEAN
    BY <1>21 DEF EraseSent
  <2>2. IsLog(log', Readings) /\ IsFiniteSet(DOMAIN log') /\ Size' <= Capacity
    BY <1>21, EmptyLogProperties DEF EraseSent, StorageAssumption
  <2>3. QED BY <1>21, <2>1, <2>2 DEF EraseSent, rtc, boot, sense, air
<1>22. CASE ResetCount
  BY <1>22, <1>a DEF ResetCount, flash, boot, sense, air
<1>23. CASE EraseCommand
  <2>1. queue' \in Seq(Events) /\ Len(queue') <= QueueSize
    BY <1>23, <1>q DEF EraseCommand, Events
  <2>2. mounted' \in BOOLEAN
    BY <1>23 DEF EraseCommand
  <2>3. IsLog(log', Readings) /\ IsFiniteSet(DOMAIN log') /\ Size' <= Capacity
    BY <1>23, EmptyLogProperties DEF EraseCommand, StorageAssumption
  <2>4. QED
    BY <1>23, <2>1, <2>2, <2>3 DEF EraseCommand, rtc, boot, task, sense, air
<1>24. CASE LeaveCommand
  <2>1. queue' \in Seq(Events) /\ Len(queue') <= QueueSize
    BY <1>24, <1>q DEF LeaveCommand, Events
  <2>2. maint' \in BOOLEAN
    BY <1>24 DEF LeaveCommand
  <2>3. QED
    BY <1>24, <2>1, <2>2 DEF LeaveCommand, flash, rtc, task, sense, air
<1>25. CASE \E c \in Commands : PostCommand(c)
  <2>1. PICK c \in Commands : PostCommand(c)
    BY <1>25
  <2>2. Post(queue, c) \in Seq(Events) /\ Len(Post(queue, c)) <= QueueSize
    BY PostProperties DEF Events, DataLogAssumption
  <2>3. QED BY <2>1, <2>2 DEF PostCommand, flash, rtc, boot, task, sense, air
<1>26. CASE UNCHANGED vars
  BY <1>26 DEF vars, flash, rtc, boot, task, sense, air
<1>27. QED
  BY <1>1, <1>2, <1>3, <1>4, <1>5, <1>6, <1>7, <1>8, <1>9, <1>10, <1>11, <1>12,
     <1>13, <1>14, <1>15, <1>16, <1>17, <1>18, <1>19, <1>20, <1>21, <1>22,
     <1>23, <1>24, <1>25, <1>26
  DEF Next, Main, Measurement, Storing, EventLoop

\* Every variable keeps its type, the counters stay within a uint32_t and the
\* event queue within its length, and the partition within its capacity.
THEOREM TypeCorrect == Spec => []TypeOK
<1>1. TypeInv => TypeOK
  BY DEF TypeInv
<1>2. QED BY <1>1, TypeInit, TypeStep, PTL DEF Spec

-----------------------------------------------------------------------------
(* The wakeup counter, in every deployment.                                  *)

\* The counter is below a threshold in use in every state, not only asleep.
WakeInv == UseThreshold /\ Threshold > 0 => wake < Threshold

LEMMA WakeInit == Init => WakeInv
BY DEF Init, WakeInv, DataLogAssumption

LEMMA WakeStep == WakeInv /\ TypeOK /\ [Next]_vars => WakeInv'
<1> SUFFICES ASSUME WakeInv, TypeOK, [Next]_vars PROVE WakeInv'
  OBVIOUS
<1>t. /\ Threshold \in Nat /\ wake \in Nat
      /\ Wrap(wake + 1) \in Nat
  BY DEF TypeOK, StorageAssumption, DataLogAssumption, Wrap
<1>1. CASE UNCHANGED wake
  BY <1>1 DEF WakeInv
<1>2. CASE wake' = 0
  BY <1>t, <1>2 DEF WakeInv
<1>3. CASE WakeupTimer
  <2>1. CASE UseThreshold /\ Wrap(wake + 1) >= Threshold
    <3>1. wake' = 0
      BY <1>3, <2>1 DEF WakeupTimer
    <3>2. QED BY <1>2, <3>1
  <2>2. CASE ~(UseThreshold /\ Wrap(wake + 1) >= Threshold)
    <3>1. wake' = Wrap(wake + 1)
      BY <1>3, <2>2 DEF WakeupTimer
    <3>2. QED BY <1>t, <2>2, <3>1 DEF WakeInv
  <2>3. QED BY <2>1, <2>2
<1>4. QED
  BY <1>1, <1>2, <1>3
  DEF Next, Main, Measurement, Storing, EventLoop, vars, rtc,
      Reset, Restart, TimerWake, ButtonWake,
      WakeupUndefined, WakeupExternal, CreateTask, PostCommand, ReadSensor,
      FormatKey, SetString, Commit, LoadCount, StoreCount, PostCompleted,
      IgnoreSleep, EnterDeepSleep, BeginSend, SelectLast, SelectBlock, SendBatch,
      EraseSent, ResetCount, EraseCommand, LeaveCommand

\* The module never sleeps with a transmission overdue: the wakeup that makes
\* the counter reach the threshold clears it (wakeup_reason).
THEOREM NeverOverdue == Spec => []NotOverdue
<1>1. WakeInv => NotOverdue
  BY DEF WakeInv, NotOverdue
<1>2. QED BY <1>1, WakeInit, WakeStep, TypeCorrect, PTL DEF Spec

-----------------------------------------------------------------------------
(* A deployment that keeps what it stores.                                   *)

\* What a step of either task relies on: the counter equals the number of
\* entries whenever a key or a window is taken from it, and a boot does at most
\* one measurement, whose sleep event ends it.
KeepInv ==
  /\ TypeInv
  /\ DOMAIN log = 0..(Size - 1)
  /\ power = "on" => mounted
  /\ power = "asleep" => main = "off"
  /\ main \in {"off", "wakeup", "create"} => meas = "none"
  /\ main \in {"off", "wakeup"} => queue = <<>> /\ loop = "idle"
  /\ CountAgrees
  /\ meas = "set" => key = count
  /\ meas = "store" => tmp = count
  /\ loop \in {"idle", "count", "read"}
  /\ \A i \in 1..Len(queue) :
       queue[i] # "erase" /\ (queue[i] = "sleep" => meas = "done")
  /\ loop = "read" =>
       /\ from = Wrap(to - SendLastValues)
       /\ \/ to = Size
          \/ to = Size - 1 /\ meas \notin {"none", "read", "key", "set"}

LEMMA PostElements ==
  ASSUME NEW q \in Seq(Events), NEW e \in Events
  PROVE  \A i \in 1..Len(Post(q, e)) :
           \/ Post(q, e)[i] = e
           \/ i \in 1..Len(q) /\ Post(q, e)[i] = q[i]
BY AppendProperties, LenProperties DEF Post

LEMMA TailElements ==
  ASSUME NEW q \in Seq(Events), q # <<>>
  PROVE  \A i \in 1..Len(Tail(q)) : i + 1 \in 1..Len(q) /\ Tail(q)[i] = q[i + 1]
BY HeadTailProperties, LenProperties

LEMMA HeadElement ==
  ASSUME NEW q \in Seq(Events), q # <<>>
  PROVE  1 \in 1..Len(q) /\ Head(q) = q[1]
BY LenProperties, EmptySeq

\* A recount of a partition without gaps gives its size.
LEMMA RecountIsSize ==
  ASSUME KeepInv
  PROVE  ComputeEntryBatchCount(log) = Size /\ Size \in Nat /\ Size + 1 < Word
<1>1. Size \in Nat /\ Size <= Capacity
  BY FS_CardinalityType DEF KeepInv, TypeInv, Size
<1> DEFINE n == ComputeEntryBatchCount(log)
<1>2. n \in 0..(Word - 1) /\ n \notin DOMAIN log /\ 0..(n - 1) \subseteq DOMAIN log
  BY ComputeEntryBatchCountProperties DEF KeepInv, TypeInv, Size
<1>3. DOMAIN log = 0..(Size - 1)
  BY DEF KeepInv
<1>4. Size + 1 < Word
  BY <1>1 DEF StorageAssumption
<1> HIDE DEF n
<1>5. n = Size
  <2>1. n \in Nat /\ n \notin 0..(Size - 1) /\ 0..(n - 1) \subseteq 0..(Size - 1)
    BY <1>2, <1>3
  <2>2. ~ (n < Size)
    BY <1>1, <2>1
  <2>3. ~ (Size < n)
    <3> SUFFICES ASSUME Size < n PROVE FALSE
      OBVIOUS
    <3>1. Size \in 0..(n - 1)
      BY <1>1, <2>1
    <3>2. QED BY <1>1, <2>1, <3>1
  <2>4. QED BY <1>1, <2>1, <2>2, <2>3
<1>6. QED
  BY <1>1, <1>4, <1>5 DEF n

LEMMA KeepInit == ASSUME KeepMode PROVE Init => KeepInv
<1> SUFFICES ASSUME Init PROVE KeepInv
  OBVIOUS
<1>1. TypeInv
  BY TypeInit
<1>2. Size = 0 /\ DOMAIN log = 0..(Size - 1)
  BY EmptyLogProperties DEF Init, Size
<1>3. QED
  BY <1>1, <1>2, EmptySeq DEF Init, KeepInv, CountAgrees, Counting

LEMMA KeepStep == ASSUME KeepMode PROVE KeepInv /\ [Next]_vars => KeepInv'
<1> SUFFICES ASSUME KeepInv, [Next]_vars PROVE KeepInv'
  OBVIOUS
<1>t. TypeInv'
  BY TypeStep DEF KeepInv
<1>s. /\ Size \in Nat /\ Size + 1 < Word /\ Word \in Nat
      /\ ComputeEntryBatchCount(log) = Size
      /\ queue \in Seq(Events)
      /\ SendLastValues # 0
  BY RecountIsSize DEF KeepInv, TypeInv, TypeOK, StorageAssumption, KeepMode
<1>w. \A n \in 0..(Word - 1) : Wrap(n) = n
  BY <1>s DEF Wrap
<1>e. Len(<<>>) = 0
  BY EmptySeq
<1> USE DEF CountAgrees, Counting
<1>l. ASSUME UNCHANGED log PROVE Size' = Size
  BY <1>l DEF Size
<1>r. ASSUME Restart PROVE KeepInv'
  BY <1>r, <1>t, <1>s, <1>e, <1>l DEF Restart, Boot, RamCleared, KeepInv
<1>1. CASE Reset
  BY <1>1, <1>r DEF Reset
<1>2. CASE TimerWake
  BY <1>2, <1>t, <1>s, <1>e, <1>l DEF TimerWake, Boot, RamCleared, rtc, KeepInv
<1>3. CASE ButtonWake
  BY <1>3, <1>t, <1>s, <1>e, <1>l DEF ButtonWake, Boot, RamCleared, rtc, KeepInv
<1>4. CASE WakeupTimer
  <2>1. queue' \in {queue, Post(queue, "send")} /\ queue = <<>>
    BY <1>4 DEF WakeupTimer, KeepInv
  <2>2. \A i \in 1..Len(queue') : queue'[i] = "send"
    <3>1. 1..Len(queue) = {}
      BY <2>1, <1>e
    <3>2. \A i \in 1..Len(Post(queue, "send")) : Post(queue, "send")[i] = "send"
      BY <1>s, <3>1, PostElements DEF Events
    <3>3. QED BY <2>1, <3>1, <3>2
  <2>3. count' = Size
    BY <1>4, <1>s DEF WakeupTimer, CheckedCount, KeepInv
  <2>4. QED
    BY <1>4, <1>t, <1>s, <1>l, <2>2, <2>3
    DEF WakeupTimer, flash, task, sense, KeepInv
<1>5. CASE WakeupUndefined
  BY <1>5, <1>t, <1>s, <1>l DEF WakeupUndefined, flash, task, sense, KeepInv
<1>6. CASE WakeupExternal
  BY <1>6, <1>r DEF WakeupExternal
<1>7. CASE CreateTask
  BY <1>7, <1>t, <1>s, <1>l DEF CreateTask, flash, rtc, task, KeepInv
<1>8. CASE ReadSensor
  BY <1>8, <1>t, <1>s, <1>l DEF ReadSensor, flash, rtc, boot, task, KeepInv
<1>9. CASE FormatKey
  BY <1>9, <1>t, <1>s, <1>l DEF FormatKey, flash, rtc, boot, task, KeepInv
<1>10. CASE SetString
  <2>1. key = Size /\ main \notin {"off", "wakeup", "create"} /\ mounted
    BY <1>10, <1>s DEF SetString, KeepInv, TypeInv, TypeOK
  <2>2. CASE HasRoom(log, key)
    <3>1. log' = SetEntry(log, key, reading) /\ meas' = "commit"
      BY <1>10, <2>1, <2>2 DEF SetString
    <3>2. reading \in Readings /\ key \in 0..(Word - 1)
      BY <1>10 DEF SetString, KeepInv, TypeInv, TypeOK
    <3>3. key \notin DOMAIN log
      BY <2>1, <1>s DEF KeepInv
    <3>4. DOMAIN log' = DOMAIN log \cup {key} /\ Size' = Size + 1
      BY <2>2, <3>1, <3>2, <3>3, SetEntryProperties DEF KeepInv, TypeInv, TypeOK, Size
    <3>5. DOMAIN log' = 0..(Size' - 1)
      BY <1>s, <2>1, <3>4 DEF KeepInv
    <3>6. QED
      BY <1>10, <1>t, <1>s, <2>1, <3>1, <3>4, <3>5
      DEF SetString, rtc, boot, task, KeepInv
  <2>3. CASE ~HasRoom(log, key)
    BY <1>10, <2>1, <2>3, <1>t, <1>s, <1>l DEF SetString, rtc, boot, task, KeepInv
  <2>4. QED BY <2>2, <2>3
<1>11. CASE Commit
  BY <1>11, <1>t, <1>s, <1>l DEF Commit, flash, rtc, boot, task, KeepInv, TypeInv, TypeOK
<1>12. CASE LoadCount
  BY <1>12, <1>t, <1>s, <1>l DEF LoadCount, flash, rtc, boot, task, KeepInv
<1>13. CASE StoreCount
  <2>1. tmp = Size - 1 /\ tmp \in 0..(Word - 1)
    BY <1>13 DEF StoreCount, KeepInv, TypeInv, TypeOK
  <2>2. count' = Size
    BY <1>13, <1>s, <1>w, <2>1 DEF StoreCount
  <2>3. QED
    BY <1>13, <1>t, <1>s, <1>l, <2>2 DEF StoreCount, flash, boot, task, KeepInv
<1>14. CASE PostCompleted
  <2>1. \A i \in 1..Len(queue') : queue'[i] # "erase"
    BY <1>14, <1>s, PostElements DEF PostCompleted, KeepInv, Events
  <2>2. QED
    BY <1>14, <1>t, <1>s, <1>l, <2>1 DEF PostCompleted, flash, rtc, boot, task, KeepInv
<1>q. ASSUME NEW e \in Events, Take(e)
      PROVE  /\ e # "erase" /\ (e = "sleep" => meas = "done")
             /\ main \notin {"off", "wakeup"}
             /\ \A i \in 1..Len(queue') :
                  queue'[i] # "erase" /\ (queue'[i] = "sleep" => meas = "done")
  BY <1>q, <1>s, TailElements, HeadElement DEF Take, KeepInv
<1>15. CASE IgnoreSleep
  BY <1>15, <1>q, <1>t, <1>s, <1>l DEF IgnoreSleep, Events, Take, flash, rtc, boot,
     task, sense, KeepInv
<1>16. CASE EnterDeepSleep
  <2>1. meas = "done"
    BY <1>16, <1>s, HeadElement DEF EnterDeepSleep, KeepInv
  <2>2. count = Size
    BY <2>1 DEF KeepInv
  <2>3. QED
    BY <1>16, <1>t, <1>s, <1>e, <1>l, <2>2 DEF EnterDeepSleep, RamCleared, rtc, KeepInv
<1>17. CASE BeginSend
  <2>1. Take("send") /\ loop' \in {"idle", "count"}
    BY <1>17, <1>s DEF BeginSend
  <2>2. QED
    BY <1>17, <2>1, <1>q, <1>t, <1>s, <1>l DEF BeginSend, Events, flash, rtc, boot,
       sense, KeepInv
<1>18. CASE SelectLast
  <2>1. from' = Wrap(to' - SendLastValues) /\ to' = count
    BY <1>18 DEF SelectLast
  <2>2. main \notin {"off", "wakeup"}
    BY <1>18 DEF SelectLast, KeepInv
  <2>3. QED
    BY <1>18, <2>1, <2>2, <1>t, <1>s, <1>l
    DEF SelectLast, flash, rtc, boot, sense, KeepInv
<1>19. CASE SelectBlock
  BY <1>19 DEF SelectBlock, KeepInv
<1>20. CASE SendBatch
  BY <1>20, <1>t, <1>s, <1>l DEF SendBatch, flash, rtc, boot, sense, KeepInv
<1>21. CASE EraseSent
  BY <1>21 DEF EraseSent, KeepInv
<1>22. CASE ResetCount
  BY <1>22 DEF ResetCount, KeepInv
<1>23. CASE EraseCommand
  BY <1>23, <1>q DEF EraseCommand, Events
<1>24. CASE LeaveCommand
  BY <1>24, <1>q, <1>t, <1>s, <1>l DEF LeaveCommand, Events, Take, flash, rtc, task,
     sense, KeepInv
<1>25. CASE \E c \in Commands : PostCommand(c)
  <2>1. PICK c \in Commands : PostCommand(c)
    BY <1>25
  <2>2. c = "leave"
    BY DEF KeepMode, DataLogAssumption
  <2>3. \A i \in 1..Len(queue') : queue'[i] = "leave" \/ (i \in 1..Len(queue) /\ queue'[i] = queue[i])
    <3>1. queue' = Post(queue, "leave") /\ "leave" \in Events
      BY <2>1, <2>2 DEF PostCommand, Events
    <3>2. \A i \in 1..Len(Post(queue, "leave")) :
            \/ Post(queue, "leave")[i] = "leave"
            \/ i \in 1..Len(queue) /\ Post(queue, "leave")[i] = queue[i]
      BY <1>s, <3>1, PostElements
    <3> SUFFICES ASSUME NEW i \in 1..Len(queue')
                 PROVE  queue'[i] = "leave" \/ (i \in 1..Len(queue) /\ queue'[i] = queue[i])
      OBVIOUS
    <3>3. i \in 1..Len(Post(queue, "leave")) /\ queue'[i] = Post(queue, "leave")[i]
      BY <3>1
    <3>4. QED BY <3>2, <3>3
  <2>4. QED
    BY <2>1, <2>3, <1>t, <1>s, <1>l DEF PostCommand, flash, rtc, boot, task, sense, KeepInv
<1>26. CASE UNCHANGED vars
  BY <1>26, <1>t, <1>s, <1>l DEF vars, flash, rtc, boot, task, sense, air, KeepInv
<1>27. QED
  BY <1>1, <1>2, <1>3, <1>4, <1>5, <1>6, <1>7, <1>8, <1>9, <1>10, <1>11, <1>12,
     <1>13, <1>14, <1>15, <1>16, <1>17, <1>18, <1>19, <1>20, <1>21, <1>22,
     <1>23, <1>24, <1>25, <1>26
  DEF Next, Main, Measurement, Storing, EventLoop

\* KeepMode, for every number of values, size of partition and window, and
\* however resets, wakeups and the two tasks interleave: stored entries have no
\* gap, so every scan that stops at the first missing key sees all of them.
THEOREM KeepsContiguous == ASSUME KeepMode PROVE Spec => []LogContiguous
<1>1. KeepInv => LogContiguous
  <2> SUFFICES ASSUME KeepInv PROVE LogContiguous
    OBVIOUS
  <2>1. Size \in 0..(Word - 1) /\ DOMAIN log = 0..(Size - 1)
    BY RecountIsSize DEF KeepInv, StorageAssumption
  <2>2. QED BY <2>1 DEF LogContiguous, Contiguous
<1>2. QED BY <1>1, KeepInit, KeepStep, PTL DEF Spec

\* KeepMode: the counter in RTC memory never disagrees with the partition when
\* a key or a window is taken from it.
THEOREM CounterAgrees == ASSUME KeepMode PROVE Spec => []CountAgrees
<1>1. KeepInv => CountAgrees
  BY DEF KeepInv
<1>2. QED BY <1>1, KeepInit, KeepStep, PTL DEF Spec

-----------------------------------------------------------------------------
(* What a step does to the partition and to the history of batches.          *)

LEMMA OnlySetStringStores ==
  ASSUME KeepMode, KeepInv, [Next]_vars, log' # log
  PROVE  SetString /\ HasRoom(log, key)
<1>1. queue # <<>> => Head(queue) # "erase"
  BY HeadElement DEF KeepInv, TypeInv, TypeOK
<1>2. QED
  BY <1>1 DEF Next, Main, Measurement, Storing, EventLoop, vars, flash, KeepInv, Take,
     Reset, Restart, TimerWake, ButtonWake, WakeupTimer, WakeupUndefined,
     WakeupExternal, CreateTask, PostCommand, ReadSensor, FormatKey, SetString,
     Commit, LoadCount, StoreCount, PostCompleted, IgnoreSleep, EnterDeepSleep,
     BeginSend, SelectLast, SelectBlock, SendBatch, EraseSent, ResetCount,
     EraseCommand, LeaveCommand

LEMMA OnlySendBatchSends ==
  ASSUME [Next]_vars, batch' # batch
  PROVE  SendBatch
BY DEF Next, Main, Measurement, Storing, EventLoop, vars, air,
   Reset, Restart, TimerWake, ButtonWake, WakeupTimer, WakeupUndefined,
   WakeupExternal, CreateTask, PostCommand, ReadSensor, FormatKey, SetString,
   Commit, LoadCount, StoreCount, PostCompleted, IgnoreSleep, EnterDeepSleep,
   BeginSend, SelectLast, SelectBlock, SendBatch, EraseSent, ResetCount,
   EraseCommand, LeaveCommand

\* A value that is written gets the first free index.
LEMMA StoreAppends ==
  ASSUME KeepInv, SetString, HasRoom(log, key)
  PROVE  /\ reading \in Readings
         /\ Size \in Nat
         /\ Size' = Size + 1
         /\ DOMAIN log = 0..(Size - 1) /\ DOMAIN log' = 0..Size
         /\ \A i \in 0..(Size - 1) : log'[i] = log[i]
         /\ log'[Size] = reading
<1>1. Size \in Nat /\ Size + 1 < Word
  BY RecountIsSize
<1>2. /\ reading \in Readings /\ key \in 0..(Word - 1)
      /\ IsLog(log, Readings) /\ IsFiniteSet(DOMAIN log) /\ Size <= Capacity
  BY DEF SetString, KeepInv, TypeInv, TypeOK
<1>3. key = Size /\ mounted
  BY DEF SetString, KeepInv, TypeInv, TypeOK, CountAgrees, Counting
<1>4. log' = SetEntry(log, key, reading)
  BY <1>3 DEF SetString
<1>5. DOMAIN log = 0..(Size - 1) /\ key \notin DOMAIN log
  BY <1>1, <1>3 DEF KeepInv
<1>6. /\ DOMAIN log' = DOMAIN log \cup {key}
      /\ \A i \in DOMAIN log' : log'[i] = IF i = key THEN reading ELSE log[i]
      /\ Size' = Size + 1
  <2> DEFINE new == SetEntry(log, key, reading)
  <2>1. /\ DOMAIN new = DOMAIN log \cup {key}
        /\ \A i \in DOMAIN new : new[i] = IF i = key THEN reading ELSE log[i]
        /\ Cardinality(DOMAIN new) = Size + 1
    BY <1>2, <1>5, SetEntryProperties
  <2> HIDE DEF new
  <2>2. log' = new
    BY <1>4 DEF new
  <2>3. QED BY <2>1, <2>2 DEF Size
<1>7. DOMAIN log' = 0..Size
  BY <1>1, <1>3, <1>5, <1>6
<1>8. QED
  BY <1>1, <1>2, <1>3, <1>5, <1>6, <1>7

\* KeepMode: no step of any task overwrites or removes a stored value.
THEOREM NeverOverwritten == ASSUME KeepMode PROVE Spec => StoredStays
<1>1. KeepInv /\ [Next]_vars =>
        [\A i \in DOMAIN log : i \in DOMAIN log' /\ log'[i] = log[i]]_vars
  <2> SUFFICES ASSUME KeepInv, [Next]_vars, NEW i \in DOMAIN log
               PROVE  i \in DOMAIN log' /\ log'[i] = log[i]
    OBVIOUS
  <2>1. CASE log' = log
    BY <2>1
  <2>2. CASE log' # log
    BY <2>2, OnlySetStringStores, StoreAppends
  <2>3. QED BY <2>1, <2>2
<1>2. QED BY <1>1, KeepInit, KeepStep, PTL DEF Spec, StoredStays

-----------------------------------------------------------------------------
(* The data path implements Recorder.                                        *)

\* The stored entries as the sequence Recorder speaks of.
LEMMA StoredSeqProperties ==
  ASSUME KeepInv
  PROVE  /\ Size \in Nat
         /\ StoredSeq \in Seq(Readings) /\ Len(StoredSeq) = Size
         /\ \A j \in 1..Size : StoredSeq[j] = log[j - 1]
<1>1. Size \in Nat
  BY RecountIsSize
<1>2. \A j \in 1..Size : j - 1 \in DOMAIN log
  BY <1>1 DEF KeepInv
<1>3. StoredSeq \in [1..Size -> Readings]
  BY <1>2 DEF StoredSeq, KeepInv, TypeInv, TypeOK, IsLog
<1>4. StoredSeq \in Seq(Readings)
  BY <1>1, <1>3, SeqDef
<1>5. Len(StoredSeq) = Size
  BY <1>1, <1>3, <1>4, LenProperties
<1>6. QED BY <1>1, <1>4, <1>5 DEF StoredSeq

LEMMA StoreRefines ==
  ASSUME KeepMode, KeepInv, KeepInv', SetString, HasRoom(log, key)
  PROVE  Promise!Store
<1>1. /\ reading \in Readings /\ Size \in Nat /\ Size' = Size + 1
      /\ \A i \in 0..(Size - 1) : log'[i] = log[i]
      /\ log'[Size] = reading
  BY StoreAppends
<1>2. /\ StoredSeq \in Seq(Readings) /\ Len(StoredSeq) = Size
      /\ \A j \in 1..Size : StoredSeq[j] = log[j - 1]
  BY StoredSeqProperties
<1>3. /\ StoredSeq' \in Seq(Readings) /\ Len(StoredSeq') = Size + 1
      /\ \A j \in 1..(Size + 1) : StoredSeq'[j] = log'[j - 1]
  <2>1. /\ StoredSeq' \in Seq(Readings) /\ Len(StoredSeq') = Size'
        /\ \A j \in 1..Size' : StoredSeq'[j] = log'[j - 1]
    <3>1. StoredSeq' = [j \in 1..Size' |-> log'[j - 1]]
      BY DEF StoredSeq
    <3>2. DOMAIN log' = 0..Size /\ \A i \in DOMAIN log' : log'[i] \in Readings
      BY StoreAppends DEF KeepInv, TypeInv, TypeOK, IsLog
    <3>3. StoredSeq' \in [1..Size' -> Readings] /\ Size' \in Nat
      BY <1>1, <3>1, <3>2
    <3>4. StoredSeq' \in Seq(Readings) /\ Len(StoredSeq') = Size'
      BY <3>3, SeqDef, LenProperties
    <3>5. QED BY <3>1, <3>4
  <2>2. QED BY <1>1, <2>1
<1> DEFINE new == Append(StoredSeq, reading)
<1>4. /\ new \in Seq(Readings) /\ Len(new) = Size + 1
      /\ \A j \in 1..Size : new[j] = log[j - 1]
      /\ new[Size + 1] = reading
  BY <1>1, <1>2, AppendProperties
<1>5. \A j \in 1..(Size + 1) : StoredSeq'[j] = new[j]
  <2> SUFFICES ASSUME NEW j \in 1..(Size + 1) PROVE StoredSeq'[j] = new[j]
    OBVIOUS
  <2>1. CASE j = Size + 1
    BY <1>1, <1>3, <1>4, <2>1
  <2>2. CASE j # Size + 1
    <3>1. j \in 1..Size /\ j - 1 \in 0..(Size - 1)
      BY <1>1, <2>2
    <3>2. QED BY <1>1, <1>3, <1>4, <3>1
  <2>3. QED BY <2>1, <2>2
<1>6. StoredSeq' = new
  <2> HIDE DEF new
  <2>1. QED BY <1>3, <1>4, <1>5, SeqEqual
<1>7. UNCHANGED batch
  BY DEF SetString, air
<1>8. QED BY <1>1, <1>6, <1>7 DEF Promise!Store

\* A window that starts at an index of the partition and ends at its last one
\* is the end of the sequence.
LEMMA WindowIsLast ==
  ASSUME KeepInv, NEW n \in 1..Size, NEW t \in {Size - 1, Size}, Size - n <= t
  PROVE  ReadEntryBatch(log, Size - n, t) = Promise!Last(n)
<1>1. /\ Size \in Nat /\ StoredSeq \in Seq(Readings) /\ Len(StoredSeq) = Size
      /\ \A j \in 1..Size : StoredSeq[j] = log[j - 1]
  BY StoredSeqProperties
<1> DEFINE f == Size - n
           b == ReadEntryBatch(log, f, t)
           l == Promise!Last(n)
<1>2. /\ b \in Seq(Readings)
      /\ Len(b) <= t - f + 1
      /\ \A j \in 1..Len(b) : f + j - 1 \in DOMAIN log
      /\ \A j \in 1..Len(b) : b[j] = log[f + j - 1]
      /\ f + Len(b) <= t => f + Len(b) \notin DOMAIN log
  <2>1. f \in Int /\ t \in Int /\ f <= t
    BY <1>1
  <2> HIDE DEF f
  <2>2. b \in Seq(Readings)
    BY <2>1, ReadEntryBatchType DEF KeepInv, TypeInv, TypeOK, IsLog
  <2>3. b = ReadEntryBatch(log, f, t)
    OBVIOUS
  <2> HIDE DEF b
  <2> HIDE DEF l
  <2> HIDE DEF l
  <2>4. /\ Len(b) \in Nat
        /\ b = [j \in 1..Len(b) |-> log[f + j - 1]]
        /\ f > t => b = <<>>
        /\ f <= t => Len(b) <= t - f + 1
        /\ \A j \in 1..Len(b) : f + j - 1 \in DOMAIN log
        /\ f + Len(b) <= t => f + Len(b) \notin DOMAIN log
    <3>1. f \in Int /\ t \in Int
      BY <2>1
    <3>2. \A g, u \in Int : \A c :
            c = ReadEntryBatch(log, g, u) =>
              /\ Len(c) \in Nat
              /\ c = [j \in 1..Len(c) |-> log[g + j - 1]]
              /\ g > u => c = <<>>
              /\ g <= u => Len(c) <= u - g + 1
              /\ \A j \in 1..Len(c) : g + j - 1 \in DOMAIN log
              /\ g + Len(c) <= u => g + Len(c) \notin DOMAIN log
      BY ONLY ReadEntryBatchProperties, Zenon
    <3>3. QED BY ONLY <3>1, <3>2, <2>3, Zenon
  <2>5. \A j \in 1..Len(b) : b[j] = log[f + j - 1]
    BY <2>4
  <2>6. QED BY <2>1, <2>2, <2>4, <2>5
<1>3. DOMAIN log = 0..(Size - 1)
  BY DEF KeepInv
<1> HIDE DEF b
<1>4. Len(b) = n
  <2>1. Len(b) \in Nat
    BY <1>2, LenProperties
  <2>2. Len(b) <= n
    <3> SUFFICES ASSUME Len(b) > n PROVE FALSE
      BY <2>1
    <3>1. n + 1 \in 1..Len(b) /\ Size - n + (n + 1) - 1 = Size
      BY <1>1, <2>1
    <3>2. Size \in 0..(Size - 1)
      BY <1>2, <1>3, <3>1
    <3>3. QED BY <1>1, <3>2
  <2>3. ~ (Len(b) < n)
    <3> SUFFICES ASSUME Len(b) < n PROVE FALSE
      OBVIOUS
    <3>1. Size - n + Len(b) \in 0..(Size - 1) /\ Size - n + Len(b) <= t
      BY <1>1, <2>1
    <3>2. QED BY <1>2, <1>3, <3>1
  <2>4. QED BY <1>1, <2>1, <2>2, <2>3
<1>5. /\ l \in Seq(Readings) /\ Len(l) = n
      /\ \A j \in 1..n : l[j] = StoredSeq[Size - n + j]
  <2>1. l = SubSeq(StoredSeq, Size - n + 1, Size)
    BY <1>1 DEF Promise!Last
  <2>2. \A i \in (Size - n + 1)..Size : StoredSeq[i] \in Readings
    BY <1>1, ElementOfSeq
  <2> HIDE DEF l
  <2> DEFINE m == Size - n + 1
  <2>3. m \in Int /\ Size \in Int /\ m <= Size /\ Size - m + 1 = n
    BY <1>1
  <2>4. /\ SubSeq(StoredSeq, m, Size) \in Seq(Readings)
        /\ Len(SubSeq(StoredSeq, m, Size)) = n
        /\ \A j \in 1..n : SubSeq(StoredSeq, m, Size)[j] = StoredSeq[m + j - 1]
    BY <1>1, <2>2, <2>3, SubSeqProperties
  <2>5. \A j \in 1..n : m + j - 1 = Size - n + j
    BY <1>1
  <2>6. QED BY <2>1, <2>4, <2>5
<1> HIDE DEF l
<1>6. \A j \in 1..n : b[j] = l[j]
  <2> SUFFICES ASSUME NEW j \in 1..n PROVE b[j] = l[j]
    OBVIOUS
  <2>1. b[j] = log[Size - n + j - 1]
    BY <1>2, <1>4
  <2>2. l[j] = StoredSeq[Size - n + j] /\ Size - n + j \in 1..Size
    BY <1>1, <1>5
  <2>3. QED BY <1>1, <2>1, <2>2
<1>7. b = l
  BY <1>2, <1>4, <1>5, <1>6, SeqEqual
<1>8. QED BY <1>7 DEF b, l

LEMMA SendRefines ==
  ASSUME KeepMode, KeepInv, SendBatch
  PROVE  Promise!Transmit
<1>1. /\ Size \in Nat /\ Size + 1 < Word /\ Word \in Nat
      /\ StoredSeq \in Seq(Readings) /\ Len(StoredSeq) = Size
  BY RecountIsSize, StoredSeqProperties DEF StorageAssumption
<1>2. SendLastValues \in Nat \ {0} /\ SendLastValues < Word
  BY DEF KeepMode, DataLogAssumption
<1>3. /\ from = Wrap(to - SendLastValues) /\ from \in Nat /\ to \in Nat
      /\ to = Size \/ to = Size - 1
      /\ mounted
  BY DEF SendBatch, KeepInv, TypeInv, TypeOK
<1>4. UNCHANGED StoredSeq /\ batch' = ReadEntryBatch(log, from, to)
  BY <1>3 DEF SendBatch, flash, StoredSeq, Size
<1>5. CASE to < SendLastValues
  <2>1. from = to - SendLastValues + Word
    BY <1>1, <1>2, <1>3, <1>5 DEF Wrap
  <2>2. from > to
    BY <1>1, <1>2, <1>3, <2>1
  <2>3. batch' = <<>>
    BY <1>4, <2>2 DEF ReadEntryBatch
  <2>4. Len(StoredSeq) <= SendLastValues
    BY <1>1, <1>2, <1>3, <1>5
  <2>5. QED BY <1>4, <2>3, <2>4 DEF Promise!Transmit
<1>6. CASE to >= SendLastValues
  <2> DEFINE n == Size - from
  <2>1. from = to - SendLastValues
    BY <1>1, <1>2, <1>3, <1>6 DEF Wrap
  <2>2. /\ n \in {SendLastValues, SendLastValues + 1} /\ n \in 1..Size
        /\ Size - n <= to /\ Size - n = from /\ to \in {Size - 1, Size}
    <3>1. Size - n = from
      BY <1>1, <1>3
    <3>2. n = Size - to + SendLastValues
      BY <1>1, <1>2, <1>3, <2>1
    <3>3. to \in {Size - 1, Size}
      BY <1>1, <1>3
    <3>4. n \in {SendLastValues, SendLastValues + 1}
      BY <1>1, <1>2, <3>2, <3>3
    <3>5. from <= to /\ 0 <= from
      BY <1>2, <1>3, <2>1
    <3>6. n \in 1..Size
      BY <1>1, <1>2, <1>3, <3>1, <3>4, <3>5
    <3>7. QED BY <3>1, <3>3, <3>4, <3>5, <3>6
  <2> HIDE DEF n
  <2>3. batch' = Promise!Last(n)
    BY <1>4, <2>2, WindowIsLast
  <2>4. n <= Len(StoredSeq)
    BY <1>1, <2>2
  <2>5. QED BY <1>4, <2>2, <2>3, <2>4 DEF Promise!Transmit
<1>7. QED BY <1>2, <1>3, <1>5, <1>6

\* KeepMode: whatever resets, wakeups and interleavings of the two tasks, what
\* the module stores is an append-only sequence, and every batch it hands to a
\* protocol is the end of that sequence, one window or one value more long, or
\* empty while no more than a window is stored.
THEOREM ImplementsRecorder == ASSUME KeepMode PROVE Spec => RecorderSpec
<1>1. Init => Promise!Init
  <2> SUFFICES ASSUME Init PROVE StoredSeq = <<>> /\ batch = <<>>
    BY DEF Promise!Init
  <2>1. KeepInv /\ Size = 0
    BY KeepInit, EmptyLogProperties DEF Init, Size
  <2>2. StoredSeq \in Seq(Readings) /\ Len(StoredSeq) = 0
    BY <2>1, StoredSeqProperties
  <2>3. QED BY <2>2, EmptySeq DEF Init
<1>2. KeepInv /\ KeepInv' /\ [Next]_vars => [Promise!Next]_<<StoredSeq, batch>>
  <2> SUFFICES ASSUME KeepInv, KeepInv', [Next]_vars
               PROVE  [Promise!Next]_<<StoredSeq, batch>>
    OBVIOUS
  <2>1. CASE log' # log
    BY <2>1, OnlySetStringStores, StoreRefines DEF Promise!Next
  <2>2. CASE batch' # batch
    BY <2>2, OnlySendBatchSends, SendRefines DEF Promise!Next
  <2>3. CASE log' = log /\ batch' = batch
    BY <2>3 DEF StoredSeq, Size
  <2>4. QED BY <2>1, <2>2, <2>3
<1>3. QED
  BY <1>1, <1>2, KeepInit, KeepStep, PTL DEF Spec, RecorderSpec, Promise!Spec

-----------------------------------------------------------------------------
(* A deployment that sends everything.                                       *)

\* The block after a block starts at a multiple of the block size, too.
LEMMA NextBlock ==
  ASSUME NEW s \in Nat \ {0}, NEW f \in Nat, f % s = 0
  PROVE  (f + s) % s = 0
<1> DEFINE k == f \div s
<1>1. k \in Nat /\ f = s * k
  BY SMT
<1>2. f + s = s * (k + 1) /\ k + 1 \in Nat
  BY <1>1, SMT
<1> HIDE DEF k
<1>3. \A n \in Nat : (s * n) % s = 0
  BY SMT
<1>4. QED BY <1>2, <1>3

\* An entry within a block belongs to the block that starts there.
LEMMA StartOfBlock ==
  ASSUME NEW s \in Nat \ {0}, NEW f \in Nat, f % s = 0,
         NEW i \in Nat, f <= i, i < f + s
  PROVE  i - (i % s) = f
BY SMT

\* What a transmission of everything relies on: as long as the partition has not
\* been erased in this boot, the counter is where the measurement task took its
\* key from, and the key it wrote has its value, so that a gap below the counter
\* stays one; once it has been erased it stays empty till the next boot.
Sent(i) == log[i] \in delivered \/ log[i] = reading

OfferTasks ==
  /\ power = "asleep" <=> main = "off"
  /\ main \in {"off", "wakeup", "create"} => meas = "none"
  /\ main \in {"off", "wakeup"} => queue = <<>> /\ loop = "idle"
  /\ main # "off" /\ ~mounted => DOMAIN log = {}
  /\ loop = "zero" => ~mounted
  /\ mounted /\ meas \in {"set", "commit", "load", "store"} => key = count
  /\ mounted /\ meas \in {"commit", "load", "store"} => key \in DOMAIN log /\ log[key] = reading
  /\ mounted /\ meas = "store" => tmp = count
  /\ meas \in {"none", "read"} => reading = NoReading
  /\ SendLastValues # 0 => loop \in {"idle", "count", "read"}
  /\ SendLastValues = 0 => loop # "count"
  /\ loop = "read" /\ SendLastValues = 0 => to = from + Step

OfferBlocks ==
  loop \in {"test", "read", "erase"} /\ SendLastValues = 0 =>
    /\ from % Step = 0
    /\ \A i \in 0..(count - 1) :
         ReachedInBlock(i) /\ (i < from \/ loop = "erase") => Sent(i)

OfferInv == OfferTasks /\ OfferBlocks

\* No transmission gets lost.
Lossless == ~LossyLink

LEMMA OfferInit == Init => OfferInv
<1> SUFFICES ASSUME Init PROVE OfferInv
  OBVIOUS
<1>1. DOMAIN EmptyLog = {}
  BY EmptyLogProperties
<1>2. QED BY <1>1 DEF Init, OfferInv, OfferTasks, OfferBlocks

\* The values of a block that was read and sent left the device.
LEMMA BlockSent ==
  ASSUME Lossless, TypeInv, OfferInv, SendBatch, SendLastValues = 0, mounted,
         NEW i \in 0..(count - 1), ReachedInBlock(i), from <= i, i < from + Step
  PROVE  log[i] \in delivered'
<1> DEFINE b == ReadEntryBatch(log, from, to)
<1>0. /\ from \in Nat /\ to = from + Step /\ Step \in Nat \ {0} /\ count \in Nat /\ i \in Nat
  BY DEF TypeInv, TypeOK, OfferInv, OfferTasks, SendBatch, DataLogAssumption, StorageAssumption
<1>r. from..i \subseteq DOMAIN log
  <2>1. from % Step = 0
    BY DEF OfferInv, OfferBlocks, SendBatch
  <2>2. i - (i % Step) = from
    BY <1>0, <2>1, StartOfBlock
  <2>3. QED BY <2>2 DEF ReachedInBlock
<1>1. \A f, t \in Int : \A c :
        c = ReadEntryBatch(log, f, t) =>
          /\ Len(c) \in Nat
          /\ c = [j \in 1..Len(c) |-> log[f + j - 1]]
          /\ f > t => c = <<>>
          /\ f <= t => Len(c) <= t - f + 1
          /\ \A j \in 1..Len(c) : f + j - 1 \in DOMAIN log
          /\ f + Len(c) <= t => f + Len(c) \notin DOMAIN log
  BY ONLY ReadEntryBatchProperties, Zenon
<1>2. from \in Int /\ to \in Int /\ b = ReadEntryBatch(log, from, to)
  BY <1>0
<1> HIDE DEF b
<1>3. /\ Len(b) \in Nat /\ b = [j \in 1..Len(b) |-> log[from + j - 1]]
      /\ from + Len(b) <= to => from + Len(b) \notin DOMAIN log
  BY ONLY <1>1, <1>2, Zenon
<1>4. i - from + 1 \in 1..Len(b)
  <2>1. CASE from + Len(b) <= to
    <3>1. from + Len(b) \notin from..i
      BY <1>3, <1>r, <2>1
    <3>2. QED BY <1>0, <1>3, <3>1
  <2>2. CASE from + Len(b) > to
    BY <1>0, <1>3, <2>2
  <2>3. QED BY <1>0, <1>3, <2>1, <2>2
<1>5. b[i - from + 1] = log[i] /\ i - from + 1 \in DOMAIN b
  <2>1. from + (i - from + 1) - 1 = i
    BY <1>0
  <2>2. QED BY <1>3, <1>4, <2>1
<1>6. delivered' = delivered \cup {b[j] : j \in DOMAIN b}
  BY <1>2 DEF SendBatch, Lossless
<1>7. QED BY <1>5, <1>6

\* The blocks keep starting at multiples of the block size.
LEMMA BlockStartStep ==
  ASSUME TypeInv, OfferInv, [Next]_vars,
         loop' \in {"test", "read", "erase"}, SendLastValues = 0
  PROVE  from' % Step = 0
<1>0. from \in Nat /\ Step \in Nat \ {0}
  BY DEF TypeInv, TypeOK, DataLogAssumption
<1>1. CASE SendBatch
  <2>1. from % Step = 0 /\ from' = from + Step
    BY <1>1 DEF SendBatch, OfferInv, OfferBlocks
  <2>2. QED BY <1>0, <2>1, NextBlock
<1>2. CASE from' = 0
  <2>1. 0 % Step = 0
    BY <1>0
  <2>2. QED BY <1>2, <2>1
<1>3. CASE UNCHANGED <<from, loop>>
  BY <1>3 DEF OfferInv, OfferBlocks
<1>4. CASE SelectBlock
  BY <1>4 DEF SelectBlock, OfferInv, OfferBlocks
<1>5. CASE SelectLast
  BY <1>5 DEF SelectLast, OfferInv, OfferTasks
<1>6. CASE EraseSent
  BY <1>6 DEF EraseSent
<1>7. QED
  BY <1>1, <1>2, <1>3, <1>4, <1>5, <1>6
  DEF Next, Main, Measurement, Storing, EventLoop, vars, task,
      Reset, Restart, Boot, RamCleared, TimerWake, ButtonWake, WakeupTimer,
      WakeupUndefined, WakeupExternal, CreateTask, PostCommand, ReadSensor,
      FormatKey, SetString, Commit, LoadCount, StoreCount, PostCompleted,
      IgnoreSleep, EnterDeepSleep, BeginSend, ResetCount, EraseCommand,
      LeaveCommand

\* The last conjunct of the invariant, which is about the loop of send_data.
LEMMA OfferedStep ==
  ASSUME Lossless, TypeInv, OfferInv, [Next]_vars,
         loop' \in {"test", "read", "erase"}, SendLastValues = 0,
         NEW i \in 0..(count' - 1), (i - (i % Step))..i \subseteq DOMAIN log',
         i < from' \/ loop' = "erase"
  PROVE  Sent(i)'
<1>0. /\ count \in Nat /\ count' \in Nat /\ i \in Nat /\ from \in Nat /\ Step \in Nat \ {0}
      /\ tmp \in Nat /\ key \in Nat
      /\ \A j \in DOMAIN log : log[j] \in Readings
      /\ NoReading \notin Readings
  <2>1. TypeOK /\ TypeOK'
    BY TypeStep DEF TypeInv
  <2>2. count' \in Nat /\ i \in Nat
    BY <2>1 DEF TypeOK
  <2>3. QED BY <2>1, <2>2 DEF TypeOK, IsLog, DataLogAssumption
<1>i. i % Step \in Nat /\ i - (i % Step) \in Nat /\ i \in (i - (i % Step))..i
  BY <1>0
<1>r. (i - (i % Step))..i \subseteq DOMAIN log' /\ i \in DOMAIN log'
  BY <1>i
<1>1. ASSUME i \in 0..(count - 1), (i - (i % Step))..i \subseteq DOMAIN log,
             loop \in {"test", "read", "erase"}, i < from \/ loop = "erase"
      PROVE  Sent(i) /\ i \in DOMAIN log
  BY <1>1, <1>i DEF OfferInv, OfferBlocks, ReachedInBlock
<1>2. CASE SelectBlock
  <2>1. UNCHANGED <<log, count, from, delivered, reading>> /\ loop = "test"
    BY <1>2 DEF SelectBlock, flash, rtc, air, sense
  <2>2. i < from
    BY <1>0, <1>2, <2>1 DEF SelectBlock
  <2>3. QED BY <1>1, <1>r, <2>1, <2>2 DEF Sent
<1>3. CASE SendBatch
  <2>1. /\ UNCHANGED <<log, count, reading, mounted, power, main>> /\ loop = "read"
        /\ from' = from + Step /\ i < from + Step /\ delivered \subseteq delivered'
    BY <1>3 DEF SendBatch, flash, rtc, sense, boot, Lossless
  <2>2. CASE i < from
    BY <1>1, <1>r, <2>1, <2>2 DEF Sent
  <2>3. CASE from <= i /\ mounted
    <3>1. ReachedInBlock(i)
      BY <1>r, <2>1 DEF ReachedInBlock
    <3>2. QED BY <1>0, <1>3, <2>1, <2>3, <3>1, BlockSent DEF Sent
  <2>4. CASE ~mounted
    <3>1. main # "off" /\ DOMAIN log = {}
      BY <2>1, <2>4 DEF OfferInv, OfferTasks
    <3>2. QED BY <1>r, <2>1, <3>1
  <2>5. QED BY <1>0, <2>2, <2>3, <2>4
<1>4. CASE SetString
  <2>1. UNCHANGED <<count, from, delivered, reading, loop, mounted, key>> /\ meas = "set"
    BY <1>4 DEF SetString, rtc, task, air
  <2>2. CASE log' = log
    BY <1>1, <1>r, <2>1, <2>2 DEF Sent
  <2>3. CASE log' # log
    <3>1. mounted /\ log' = SetEntry(log, key, reading) /\ key = count
      BY <1>4, <2>1, <2>3 DEF SetString, OfferInv, OfferTasks
    <3>2. DOMAIN log' = DOMAIN log \cup {key} /\ \A j \in DOMAIN log : j # key => log'[j] = log[j]
      BY <3>1 DEF SetEntry
    <3>3. (i - (i % Step))..i \subseteq DOMAIN log /\ i # key
      BY <1>0, <1>i, <1>r, <2>1, <3>1, <3>2
    <3>4. Sent(i) /\ i \in DOMAIN log
      BY <1>1, <2>1, <3>3
    <3>5. QED BY <2>1, <3>2, <3>3, <3>4 DEF Sent
  <2>4. QED BY <2>2, <2>3
<1>5. CASE StoreCount
  <2>1. UNCHANGED <<log, mounted, from, delivered, reading, loop, main, key>> /\ meas = "store"
    BY <1>5 DEF StoreCount, flash, task, air, boot
  <2>2. CASE ~mounted
    <3>1. main # "off" /\ DOMAIN log = {}
      BY <2>1, <2>2 DEF OfferInv, OfferTasks
    <3>2. QED BY <1>r, <2>1, <3>1
  <2>3. CASE mounted
    <3>1. tmp = count /\ key = count /\ log[key] = reading
      BY <2>1, <2>3 DEF OfferInv, OfferTasks
    <3>2. count' \in {0, count + 1}
      <4>1. Wrap(tmp + 1) \in {0, tmp + 1}
        BY DEF Wrap, TypeInv, TypeOK, StorageAssumption
      <4>2. QED BY <1>5, <3>1, <4>1 DEF StoreCount
    <3>3. CASE i = count
      BY <2>1, <3>1, <3>3 DEF Sent
    <3>4. CASE i # count
      <4>1. count' = count + 1
        BY <1>0, <3>2
      <4>2. i \in 0..(count - 1)
        BY <1>0, <3>4, <4>1
      <4>3. QED BY <1>1, <1>r, <2>1, <4>2 DEF Sent
    <3>5. QED BY <3>3, <3>4
  <2>4. QED BY <2>2, <2>3
<1>6. CASE ReadSensor
  <2>1. UNCHANGED <<log, count, from, loop>> /\ reading = NoReading
    BY <1>6 DEF ReadSensor, flash, rtc, task, OfferInv, OfferTasks
  <2>2. Sent(i) /\ i \in DOMAIN log
    BY <1>1, <1>r, <2>1
  <2>3. log[i] \in delivered /\ log[i] \in Stored
    BY <1>0, <2>1, <2>2 DEF Sent, Stored
  <2>4. delivered' = delivered \cap Stored
    BY <1>6 DEF ReadSensor
  <2>5. QED BY <2>1, <2>3, <2>4 DEF Sent
<1>7. CASE UNCHANGED <<log, count, from, delivered, reading, loop>>
  BY <1>1, <1>7, <1>r DEF Sent
<1>8. CASE BeginSend
  BY <1>0, <1>8 DEF BeginSend
<1>9. CASE Main
  <2>1. CASE CreateTask
    BY <1>7, <2>1 DEF CreateTask, flash, rtc, task, air
  <2>2. CASE main = "wakeup"
    <3>1. loop' = "idle"
      BY <1>9, <2>1, <2>2 DEF Main, WakeupTimer, WakeupUndefined, WakeupExternal, CreateTask,
         Restart, Boot, RamCleared, OfferInv, OfferTasks, task
    <3>2. QED BY <3>1
  <2>3. QED BY <1>9, <2>1, <2>2 DEF Main, WakeupTimer, WakeupUndefined, WakeupExternal
<1>10. CASE loop' = "idle" \/ loop' = "zero" \/ loop' = "count"
  BY <1>10
<1>11. CASE Reset \/ TimerWake \/ ButtonWake \/ EnterDeepSleep \/ EraseSent \/ ResetCount
  BY <1>10, <1>11 DEF Reset, Restart, TimerWake, ButtonWake, Boot, RamCleared, EnterDeepSleep,
     EraseSent, ResetCount
<1>12. CASE SelectLast
  BY <1>12 DEF SelectLast, OfferInv, OfferTasks
<1>13. CASE IgnoreSleep \/ EraseCommand \/ LeaveCommand
  BY <1>10, <1>13 DEF IgnoreSleep, EraseCommand, LeaveCommand, Take, task
<1>14. CASE FormatKey \/ Commit \/ LoadCount \/ PostCompleted
  BY <1>7, <1>14 DEF FormatKey, Commit, LoadCount, PostCompleted, flash, rtc, task, air
<1>15. CASE (\E c \in Commands : PostCommand(c)) \/ UNCHANGED vars
  BY <1>7, <1>15 DEF PostCommand, vars, flash, rtc, task, sense, air
<1>16. QED
  BY <1>2, <1>3, <1>4, <1>5, <1>6, <1>8, <1>9, <1>11, <1>12, <1>13, <1>14, <1>15
  DEF Next, Measurement, Storing, EventLoop

LEMMA OfferStep ==
  ASSUME Lossless PROVE TypeInv /\ OfferInv /\ [Next]_vars => OfferInv'
<1> SUFFICES ASSUME TypeInv, OfferInv, [Next]_vars PROVE OfferInv'
  OBVIOUS
<1>1. OfferBlocks'
  <2>1. ASSUME loop' \in {"test", "read", "erase"}, SendLastValues = 0,
               NEW i \in 0..(count' - 1), (i - (i % Step))..i \subseteq DOMAIN log',
               i < from' \/ loop' = "erase"
        PROVE  Sent(i)'
    BY <2>1, OfferedStep
  <2>2. ASSUME loop' \in {"test", "read", "erase"}, SendLastValues = 0
        PROVE  from' % Step = 0
    BY <2>2, BlockStartStep
  <2>3. QED BY <2>1, <2>2 DEF OfferBlocks, ReachedInBlock
<1>2. OfferTasks
  BY DEF OfferInv
<1>3. SUFFICES OfferTasks'
  BY <1>1 DEF OfferInv
<1> USE DEF OfferTasks
<1> USE DEF flash, rtc, boot, task, sense, air
<1>4. CASE Reset \/ TimerWake \/ ButtonWake
  BY <1>2, <1>4 DEF Reset, Restart, TimerWake, ButtonWake, Boot, RamCleared
<1>5. CASE WakeupTimer \/ WakeupUndefined
  BY <1>2, <1>5 DEF WakeupTimer, WakeupUndefined
<1>6. CASE WakeupExternal
  BY <1>2, <1>6 DEF WakeupExternal, Restart, Boot, RamCleared
<1>7. CASE CreateTask
  BY <1>2, <1>7 DEF CreateTask
<1>8. CASE \E c \in Commands : PostCommand(c)
  BY <1>2, <1>8 DEF PostCommand
<1>9. CASE ReadSensor
  BY <1>2, <1>9 DEF ReadSensor
<1>10. CASE FormatKey
  BY <1>2, <1>10 DEF FormatKey
<1>11. CASE SetString
  <2>1. CASE log' = log /\ meas' = "post"
    BY <1>2, <1>11, <2>1 DEF SetString
  <2>2. CASE mounted /\ log' = SetEntry(log, key, reading) /\ meas' = "commit"
    <3>1. key \in DOMAIN log' /\ log'[key] = reading
      BY <2>2 DEF SetEntry
    <3>2. QED BY <1>2, <1>11, <2>2, <3>1 DEF SetString
  <2>3. QED BY <1>11, <2>1, <2>2 DEF SetString
<1>12. CASE Commit
  BY <1>2, <1>12 DEF Commit
<1>13. CASE LoadCount
  BY <1>2, <1>13 DEF LoadCount
<1>14. CASE StoreCount
  BY <1>2, <1>14 DEF StoreCount
<1>15. CASE PostCompleted
  BY <1>2, <1>15 DEF PostCompleted
<1>16. CASE IgnoreSleep \/ LeaveCommand
  BY <1>2, <1>16 DEF IgnoreSleep, LeaveCommand, Take
<1>17. CASE EnterDeepSleep
  BY <1>2, <1>17 DEF EnterDeepSleep, RamCleared
<1>18. CASE BeginSend
  BY <1>2, <1>18 DEF BeginSend, Take
<1>19. CASE SelectLast
  BY <1>2, <1>19 DEF SelectLast
<1>20. CASE SelectBlock
  BY <1>2, <1>20 DEF SelectBlock
<1>21. CASE SendBatch
  BY <1>2, <1>21 DEF SendBatch
<1>22. CASE EraseSent \/ EraseCommand
  BY <1>2, <1>22, EmptyLogProperties DEF EraseSent, EraseCommand, Take
<1>23. CASE ResetCount
  BY <1>2, <1>23 DEF ResetCount
<1>24. CASE UNCHANGED vars
  BY <1>2, <1>24 DEF vars
<1>25. QED
  BY <1>4, <1>5, <1>6, <1>7, <1>8, <1>9, <1>10, <1>11, <1>12, <1>13, <1>14, <1>15, <1>16,
     <1>17, <1>18, <1>19, <1>20, <1>21, <1>22, <1>23, <1>24
  DEF Next, Main, Measurement, Storing, EventLoop

\* Where no transmission gets lost, every entry that the counter counts and that
\* its block's read reaches has left the device when the partition is about to be
\* erased, save the value of the running measurement: for every block size,
\* partition, queue and threshold, whatever is erased, stored and restarted
\* meanwhile and whatever gaps are in the partition (send_data).
THEOREM EverythingOffered == ASSUME Lossless PROVE Spec => []BlocksOffered
<1>1. OfferInv => BlocksOffered
  BY DEF OfferInv, OfferBlocks, OfferTasks, BlocksOffered, Sent
<1>2. Init => TypeInv /\ OfferInv
  BY TypeInit, OfferInit
<1>3. TypeInv /\ OfferInv /\ [Next]_vars => (TypeInv /\ OfferInv)'
  BY TypeStep, OfferStep
<1>4. QED BY <1>1, <1>2, <1>3, PTL DEF Spec
=============================================================================
