---------------------------- MODULE Lifecycle_proofs ----------------------------
(***************************************************************************)
(* Proofs about Lifecycle, for every configuration, client, queue size and *)
(* environment.                                                            *)
(***************************************************************************)
EXTENDS Lifecycle, SequenceTheorems, TLAPS

-----------------------------------------------------------------------------
(* The data of the model.                                                    *)

LEMMA KeysAre ==
  Keys = {"sleep_dur", "wake_thresh", "send_x", "active_prot", "deep_sleep",
          "config_mode", "t_wake_thresh"}
BY DEF Keys, KeyOrder

LEMMA ConfigProperties ==
  ASSUME NEW c \in Configs
  PROVE  \A k \in Keys : c[k] \in Nat
BY DEF Configs

LEMMA ReadConfigProperties ==
  ASSUME cfg \in Configs, DOMAIN nvs \subseteq Keys, nvs \in [DOMAIN nvs -> Nat]
  PROVE  ReadConfig \in Configs
BY DEF ReadConfig, Configs

\* However far the write came, flash is a partial configuration; where it has
\* come to its end, flash is the configuration.
LEMMA WrittenProperties ==
  ASSUME NEW c \in Configs, NEW n \in 0..Len(KeyOrder),
         DOMAIN nvs \subseteq Keys, nvs \in [DOMAIN nvs -> Nat]
  PROVE  /\ DOMAIN Written(c, n) \subseteq Keys
         /\ Written(c, n) \in [DOMAIN Written(c, n) -> Nat]
<1> DEFINE new == {KeyOrder[j] : j \in 1..n}
           w   == [k \in DOMAIN nvs \cup new |-> IF k \in new THEN c[k] ELSE nvs[k]]
<1>1. new \subseteq Keys
  BY DEF Keys, KeyOrder
<1>2. Written(c, n) = w
  BY DEF Written
<1>3. \A k \in DOMAIN nvs \cup new : w[k] \in Nat
  BY <1>1 DEF Configs
<1> HIDE DEF new
<1>4. QED BY <1>1, <1>2, <1>3

LEMMA WrittenWhole ==
  ASSUME NEW c \in Configs, DOMAIN nvs \subseteq Keys
  PROVE  /\ DOMAIN Written(c, Len(KeyOrder)) = Keys
         /\ \A k \in Keys : Written(c, Len(KeyOrder))[k] = c[k]
BY DEF Written, Keys

LEMMA WriteConfigProperties ==
  ASSUME NEW c \in Configs, DOMAIN nvs \subseteq Keys, nvs \in [DOMAIN nvs -> Nat],
         WriteConfig(c)
  PROVE  /\ DOMAIN nvs' \subseteq Keys /\ nvs' \in [DOMAIN nvs' -> Nat]
         /\ ~NvsFaults => DOMAIN nvs' = Keys /\ \A k \in Keys : nvs'[k] = c[k]
<1>1. Len(KeyOrder) = 7
  BY DEF KeyOrder
<1>2. QED BY <1>1, WrittenProperties, WrittenWhole DEF WriteConfig

LEMMA PostProperties ==
  ASSUME NEW q \in Seq(Events), NEW e \in Events, Len(q) <= QueueSize
  PROVE  /\ Post(q, e) \in Seq(Events) /\ Len(Post(q, e)) <= QueueSize
         /\ \A j \in 1..Len(Post(q, e)) : Post(q, e)[j] = e
              \/ \E i \in 1..Len(q) : Post(q, e)[j] = q[i]
BY AppendProperties, LenProperties, LifecycleAssumption DEF Post, LifecycleAssumption

LEMMA TailProperties ==
  ASSUME NEW q \in Seq(Events), q # <<>>, Len(q) <= QueueSize
  PROVE  /\ Tail(q) \in Seq(Events) /\ Len(Tail(q)) <= QueueSize
         /\ Head(q) \in Events /\ 1 \in 1..Len(q) /\ Head(q) = q[1]
         /\ \A j \in 1..Len(Tail(q)) : j + 1 \in 1..Len(q) /\ Tail(q)[j] = q[j + 1]
BY HeadTailProperties, LenProperties, EmptySeq, LifecycleAssumption DEF LifecycleAssumption

-----------------------------------------------------------------------------
(* Type correctness.                                                         *)

\* A batch that is being executed has a command left.
TypeInv == TypeOK /\ (loop # "idle" => todo # <<>>)

LEMMA TypeInit == Init => TypeInv
<1> SUFFICES ASSUME Init PROVE TypeInv
  OBVIOUS
<1>1. <<>> \in Seq(Events) /\ Len(<<>>) = 0 /\ <<>> \in Seq(Commands)
  BY EmptySeq
<1>2. nvs \in StoredConfigs
  BY DEF Init
<1>3. DOMAIN nvs \subseteq Keys /\ nvs \in [DOMAIN nvs -> Nat]
  BY <1>2, LifecycleAssumption DEF LifecycleAssumption
<1>4. Defaults \in Configs /\ QueueSize \in Nat /\ 0 \in 0..(Word - 1)
  BY LifecycleAssumption DEF LifecycleAssumption
<1>5. queue \in Seq(Events) /\ todo \in Seq(Commands) /\ Len(queue) <= QueueSize
  BY <1>1, <1>4 DEF Init
<1>6. cfg \in Configs /\ held \in Configs /\ wake \in 0..(Word - 1)
  BY <1>4 DEF Init
<1>7. QED BY <1>3, <1>5, <1>6 DEF Init, TypeInv, TypeOK

\* What every start of the firmware and every sleep leaves in RAM.
LEMMA RamClearedTypes ==
  ASSUME RamCleared
  PROVE  /\ inited' = 0 /\ link' = FALSE /\ queue' \in Seq(Events) /\ Len(queue') <= QueueSize
         /\ loop' = "idle" /\ todo' \in Seq(Commands) /\ held' \in Configs
         /\ meas' = "none" /\ used' = 0
<1>1. <<>> \in Seq(Events) /\ Len(<<>>) = 0 /\ <<>> \in Seq(Commands)
  BY EmptySeq
<1>2. Defaults \in Configs /\ QueueSize \in Nat
  BY LifecycleAssumption DEF LifecycleAssumption
<1>3. QED BY <1>1, <1>2 DEF RamCleared

LEMMA BootTypes ==
  ASSUME NEW why \in {"timer", "ext0", "undefined"}, Boot(why)
  PROVE  /\ power' = "on" /\ cause' = why /\ main' = "setup"
         /\ inited' = 0 /\ link' = FALSE /\ queue' \in Seq(Events) /\ Len(queue') <= QueueSize
         /\ loop' = "idle" /\ todo' \in Seq(Commands) /\ held' \in Configs
         /\ meas' = "none" /\ used' = 0
BY RamClearedTypes DEF Boot

LEMMA RestartTypes ==
  ASSUME Restart, DOMAIN nvs' \subseteq Keys, nvs' \in [DOMAIN nvs' -> Nat],
         button' \in {"up", "down"}
  PROVE  TypeInv'
<1>1. Boot("undefined")
  BY DEF Restart
<1>2. cfg' \in Configs /\ wake' \in 0..(Word - 1) /\ registered' \in BOOLEAN /\ torn' \in BOOLEAN
  <2>1. Defaults \in Configs /\ 0 \in 0..(Word - 1)
    BY LifecycleAssumption DEF LifecycleAssumption
  <2>2. QED BY <2>1 DEF Restart
<1>3. /\ power' = "on" /\ cause' = "undefined" /\ main' = "setup"
      /\ inited' = 0 /\ link' = FALSE /\ queue' \in Seq(Events) /\ Len(queue') <= QueueSize
      /\ loop' = "idle" /\ todo' \in Seq(Commands) /\ held' \in Configs
      /\ meas' = "none" /\ used' = 0
  BY <1>1, BootTypes
<1>4. inited' \in {0} \cup Protocols /\ used' \in {0} \cup Protocols
  BY <1>3
<1>5. TypeOK'
  BY <1>2, <1>3, <1>4 DEF TypeOK
<1>6. QED BY <1>3, <1>5 DEF TypeInv

LEMMA TypeStep == TypeInv /\ [Next]_vars => TypeInv'
<1> SUFFICES ASSUME TypeInv, [Next]_vars PROVE TypeInv'
  OBVIOUS
<1> USE DEF TypeInv, TypeOK
<1>a. Word \in Nat /\ 1 < Word /\ QueueSize \in Nat
  BY LifecycleAssumption DEF LifecycleAssumption
<1>b. \A n \in Nat : Wrap(n) \in 0..(Word - 1)
  BY <1>a DEF Wrap
<1>c. DOMAIN nvs \subseteq Keys /\ nvs \in [DOMAIN nvs -> Nat]
  OBVIOUS
<1>d. ASSUME Restart, UNCHANGED nvs, button' \in {"up", "down"} PROVE TypeInv'
  BY <1>d, <1>c, RestartTypes
<1>e. ASSUME NEW c \in Configs, NEW x \in Nat, NEW k \in Keys
      PROVE  [c EXCEPT ![k] = x] \in Configs
  BY DEF Configs
<1>1. CASE Reset
  <2>1. Source \in Configs
    BY DEF Source
  <2>2. \E n \in 0..Len(KeyOrder) : nvs' = Written(Source, n)
    BY <1>1 DEF Reset, KeyOrder
  <2>3. DOMAIN nvs' \subseteq Keys /\ nvs' \in [DOMAIN nvs' -> Nat]
    BY <1>c, <2>1, <2>2, WrittenProperties
  <2>4. QED BY <1>1, <2>3, RestartTypes DEF Reset
<1>2. CASE TimerWake
  BY <1>2, BootTypes DEF TimerWake, rtc
<1>3. CASE ButtonPress
  BY <1>3 DEF ButtonPress, rtc, boot, net, task
<1>4. CASE ButtonWake
  BY <1>4, BootTypes DEF ButtonWake, rtc
<1>5. CASE ButtonRelease
  BY <1>5, <1>d DEF ButtonRelease, rtc, boot, net, task
<1>6. CASE LoadConfig
  BY <1>6, ReadConfigProperties DEF LoadConfig, net, task
<1>7. CASE InitProtocols
  BY <1>7 DEF InitProtocols, SelectedProtocol, net, task
<1>8. CASE Connect
  BY <1>8 DEF Connect, rtc, task
<1>9. CASE ConnectFails
  BY <1>9, <1>d DEF ConnectFails, rtc, net, task
<1>10. CASE WakeupTimer
  <2>1. Event("send") \in Events
    BY EmptySeq DEF Event, Events
  <2>2. queue' \in Seq(Events) /\ Len(queue') <= QueueSize
    BY <1>10, <2>1, PostProperties DEF WakeupTimer
  <2>3. wake' \in 0..(Word - 1)
    <3>1. wake + 1 \in Nat
      BY <1>a
    <3>2. Wrap(wake + 1) \in 0..(Word - 1)
      BY <1>b, <3>1
    <3>3. QED BY <1>10, <1>a, <3>2 DEF WakeupTimer
  <2>4. QED BY <1>10, <2>2, <2>3 DEF WakeupTimer, net, task
<1>11. CASE WakeupUndefined
  BY <1>11 DEF WakeupUndefined, rtc, net, task
<1>12. CASE WakeupExternal
  <2>1. cfg' \in Configs
    BY <1>12, <1>e, KeysAre DEF WakeupExternal
  <2>2. QED BY <1>12, <2>1 DEF WakeupExternal, net, task
<1>13. CASE PersistRequest
  BY <1>13, <1>c, WriteConfigProperties, RestartTypes DEF PersistRequest
<1>14. CASE CreateTasks
  BY <1>14 DEF CreateTasks, rtc, net, task
<1>15. CASE Measure
  <2>1. Event("sleep") \in Events
    BY EmptySeq DEF Event, Events
  <2>2. queue' \in Seq(Events) /\ Len(queue') <= QueueSize
    BY <1>15, <2>1, PostProperties DEF Measure
  <2>3. QED BY <1>15, <2>2 DEF Measure, rtc, boot, net, task
<1>16. ASSUME NEW b \in Batches, PostCommands(b) PROVE TypeInv'
  <2>1. [type |-> "command", batch |-> b] \in Events
    BY LifecycleAssumption DEF Events, LifecycleAssumption
  <2>2. queue' \in Seq(Events) /\ Len(queue') <= QueueSize
    BY <1>16, <2>1, PostProperties DEF PostCommands
  <2>3. QED BY <1>16, <2>2 DEF PostCommands, rtc, boot, net, task
<1>17. CASE GetConfig
  BY <1>17, ReadConfigProperties DEF GetConfig, boot, net
<1>18. ASSUME NEW t \in {"sleep", "send", "command"}, Take(t)
       PROVE  queue' \in Seq(Events) /\ Len(queue') <= QueueSize /\ Head(queue) \in Events
  BY <1>18, TailProperties DEF Take
<1>19. CASE IgnoreSleep
  BY <1>18, <1>19 DEF IgnoreSleep, rtc, boot, net, task
<1>20. CASE EnterDeepSleep
  <2>1. /\ inited' = 0 /\ link' = FALSE /\ queue' \in Seq(Events) /\ Len(queue') <= QueueSize
        /\ loop' = "idle" /\ todo' \in Seq(Commands) /\ held' \in Configs
        /\ meas' = "none" /\ used' = 0
    BY <1>20, RamClearedTypes DEF EnterDeepSleep
  <2>2. QED BY <1>20, <2>1 DEF EnterDeepSleep, rtc
<1>21. CASE SendData
  BY <1>18, <1>21 DEF SendData, rtc, boot, net, task
<1>22. CASE BeginCommands
  <2>1. Head(queue) \in Events /\ todo' = Head(queue).batch
    BY <1>18, <1>22 DEF BeginCommands
  <2>2. todo' \in Seq(Commands)
    BY <2>1 DEF Events
  <2>3. QED BY <1>18, <1>22, <2>2 DEF BeginCommands, rtc, boot, net
<1>23. CASE SetField
  <2>1. Head(todo) \in Commands
    BY <1>23, HeadTailProperties DEF SetField
  <2>2. Head(todo).key \in Keys /\ Head(todo).value \in Nat
    BY <2>1 DEF Commands
  <2>3. cfg' \in Configs
    BY <1>23, <1>e, <2>2 DEF SetField
  <2>4. QED BY <1>23, <2>3 DEF SetField, boot, net
<1>24. CASE Collect
  BY <1>24 DEF Collect, rtc, boot, net
<1>25. CASE Persist
  <2>1. DOMAIN nvs' \subseteq Keys /\ nvs' \in [DOMAIN nvs' -> Nat]
    BY <1>25, <1>c, WriteConfigProperties DEF Persist
  <2>2. todo' \in Seq(Commands)
    BY <1>25, HeadTailProperties DEF Persist
  <2>3. Defaults \in Configs
    BY LifecycleAssumption DEF LifecycleAssumption
  <2>4. QED BY <1>25, <2>1, <2>2, <2>3 DEF Persist, rtc, boot, net
<1>26. CASE RestartCommand
  BY <1>26, <1>d DEF RestartCommand
<1>27. CASE UNCHANGED vars
  BY <1>27 DEF vars, rtc, boot, net, task
<1>28. QED
  BY <1>1, <1>2, <1>3, <1>4, <1>5, <1>6, <1>7, <1>8, <1>9, <1>10, <1>11, <1>12,
     <1>13, <1>14, <1>15, <1>16, <1>17, <1>19, <1>20, <1>21, <1>22, <1>23, <1>24,
     <1>25, <1>26, <1>27
  DEF Next, Main, EventLoop

\* Every variable has its type, whatever clients, users, access points, resets
\* and flash errors do (Lifecycle as a whole).
THEOREM TypeCorrect == Spec => []TypeOK
<1>1. TypeInv => TypeOK
  BY DEF TypeInv
<1>2. QED BY <1>1, TypeInit, TypeStep, PTL DEF Spec

-----------------------------------------------------------------------------
(* The queue and the tasks of a boot.                                        *)

\* app_main has not created the tasks yet, or the module sleeps.
Early == {"off", "setup", "init", "connect", "wakeup", "request"}

BootInv ==
  /\ power = "asleep" <=> main = "off"
  /\ main \in Early => queue = <<>> /\ loop = "idle" /\ meas = "none" /\ used = 0
  /\ main # "serving" => loop = "idle" /\ ~Queued("command")
  /\ Queued("send") => cause = "timer"


LEMMA QueuedEmpty == ASSUME queue' = <<>>, NEW t PROVE ~Queued(t)'
BY EmptySeq DEF Queued

LEMMA QueuedPost ==
  ASSUME TypeInv, NEW e \in Events, queue' = Post(queue, e), NEW t, Queued(t)'
  PROVE  Queued(t) \/ e.type = t
BY PostProperties DEF Queued, TypeInv, TypeOK

LEMMA QueuedTake ==
  ASSUME TypeInv, NEW s \in {"sleep", "send", "command"}, Take(s)
  PROVE  /\ Queued(s)
         /\ \A t : Queued(t)' => Queued(t)
<1>1. /\ Head(queue) = queue[1] /\ 1 \in 1..Len(queue) /\ queue' = Tail(queue)
      /\ \A j \in 1..Len(Tail(queue)) : j + 1 \in 1..Len(queue) /\ Tail(queue)[j] = queue[j + 1]
  BY TailProperties DEF Take, TypeInv, TypeOK
<1>2. queue[1].type = s
  BY <1>1 DEF Take
<1>3. QED BY <1>1, <1>2 DEF Queued

LEMMA BootInit == Init => BootInv
BY EmptySeq DEF Init, BootInv, Queued, Early

LEMMA RestartBoot == Restart => BootInv'
<1> SUFFICES ASSUME Restart PROVE BootInv'
  OBVIOUS
<1>1. queue' = <<>>
  BY DEF Restart, Boot, RamCleared
<1>2. QED BY <1>1, QueuedEmpty DEF Restart, Boot, RamCleared, BootInv

LEMMA BootStep == TypeInv /\ BootInv /\ [Next]_vars => BootInv'
<1> SUFFICES ASSUME TypeInv, BootInv, [Next]_vars PROVE BootInv'
  OBVIOUS
<1> USE DEF BootInv, Early
<1>a. ASSUME UNCHANGED <<boot, queue, loop, meas, used>> PROVE BootInv'
  BY <1>a DEF Queued, boot
<1>b. ASSUME NEW why \in {"timer", "ext0", "undefined"}, Boot(why) PROVE BootInv'
  <2>1. queue' = <<>>
    BY <1>b DEF Boot, RamCleared
  <2>2. QED BY <1>b, <2>1, QueuedEmpty DEF Boot, RamCleared
<1>c. ASSUME queue' = queue PROVE \A t : Queued(t)' <=> Queued(t)
  BY <1>c DEF Queued
<1>d. \A t : Event(t) = [type |-> t, batch |-> <<>>]
  BY DEF Event
<1>e. Event("send") \in Events /\ Event("sleep") \in Events
  BY EmptySeq DEF Event, Events
<1>1. CASE Reset
  BY <1>1, RestartBoot DEF Reset
<1>2. CASE TimerWake
  BY <1>2, <1>b DEF TimerWake
<1>3. CASE ButtonPress
  BY <1>3, <1>a DEF ButtonPress, task
<1>4. CASE ButtonWake
  BY <1>4, <1>b DEF ButtonWake
<1>5. CASE ButtonRelease
  BY <1>5, <1>a, RestartBoot DEF ButtonRelease, task
<1>6. CASE LoadConfig
  BY <1>6, <1>c DEF LoadConfig, task
<1>7. CASE InitProtocols
  BY <1>7, <1>c DEF InitProtocols, task
<1>8. CASE Connect
  BY <1>8, <1>c DEF Connect, task
<1>9. CASE ConnectFails
  <2>1. CASE inited = Wifi
    BY <1>9, <2>1, RestartBoot DEF ConnectFails
  <2>2. CASE inited # Wifi
    BY <1>9, <2>2, <1>c DEF ConnectFails, task
  <2>3. QED BY <2>1, <2>2
<1>10. CASE WakeupTimer
  <2>1. ~Queued("command") /\ ~Queued("sleep") /\ cause' = cause /\ cause = "timer"
    BY <1>10, EmptySeq DEF WakeupTimer, Queued
  <2>2. queue' = queue \/ queue' = Post(queue, Event("send"))
    BY <1>10 DEF WakeupTimer
  <2>3. ~Queued("command")'
    BY <2>1, <2>2, <1>c, <1>d, <1>e, QueuedPost
  <2>4. QED BY <1>10, <2>1, <2>3 DEF WakeupTimer, task
<1>11. CASE WakeupUndefined
  BY <1>11, <1>c DEF WakeupUndefined, task
<1>12. CASE WakeupExternal
  BY <1>12, <1>c DEF WakeupExternal, task
<1>13. CASE PersistRequest
  BY <1>13, RestartBoot DEF PersistRequest
<1>14. CASE CreateTasks
  BY <1>14, <1>c DEF CreateTasks, task
<1>15. CASE Measure
  <2>1. queue' = Post(queue, Event("sleep"))
    BY <1>15 DEF Measure
  <2>2. /\ Queued("command")' => Queued("command")
        /\ Queued("send")' => Queued("send")
    BY <2>1, <1>d, <1>e, QueuedPost
  <2>3. QED BY <1>15, <2>2 DEF Measure, boot, task
<1>16. ASSUME NEW b \in Batches, PostCommands(b) PROVE BootInv'
  <2>1. [type |-> "command", batch |-> b] \in Events
    BY LifecycleAssumption DEF Events, LifecycleAssumption
  <2>2. queue' = Post(queue, [type |-> "command", batch |-> b])
    BY <1>16 DEF PostCommands
  <2>3. Queued("send")' => Queued("send")
    BY <2>1, <2>2, QueuedPost
  <2>4. QED BY <1>16, <2>3 DEF PostCommands, boot, task
<1>17. CASE GetConfig
  BY <1>17, <1>a DEF GetConfig
<1>19. CASE IgnoreSleep
  BY <1>19, QueuedTake DEF IgnoreSleep, Take, boot, task
<1>20. CASE EnterDeepSleep
  <2>1. queue' = <<>>
    BY <1>20 DEF EnterDeepSleep, RamCleared
  <2>2. QED BY <1>20, <2>1, QueuedEmpty DEF EnterDeepSleep, RamCleared
<1>21. CASE SendData
  BY <1>21, QueuedTake DEF SendData, Take, boot, task
<1>22. CASE BeginCommands
  <2>1. main = "serving"
    BY <1>22, QueuedTake DEF BeginCommands
  <2>2. QED BY <1>22, <2>1, QueuedTake DEF BeginCommands, Take, boot
<1>23. CASE SetField
  BY <1>23, <1>c DEF SetField, boot
<1>24. CASE Collect
  BY <1>24, <1>c DEF Collect, boot
<1>25. CASE Persist
  BY <1>25, <1>c DEF Persist, boot
<1>26. CASE RestartCommand
  BY <1>26, RestartBoot DEF RestartCommand
<1>27. CASE UNCHANGED vars
  BY <1>27, <1>a DEF vars, task
<1>28. QED
  BY <1>1, <1>2, <1>3, <1>4, <1>5, <1>6, <1>7, <1>8, <1>9, <1>10, <1>11, <1>12,
     <1>13, <1>14, <1>15, <1>16, <1>17, <1>19, <1>20, <1>21, <1>22, <1>23, <1>24,
     <1>25, <1>26, <1>27
  DEF Next, Main, EventLoop

-----------------------------------------------------------------------------
(* Modes: what the configuration in RTC memory, the one in flash, the counter *)
(* and the protocol have to do with each other.                              *)

\* RTC memory has what flash has.
Agree == \A k \in DOMAIN nvs : nvs[k] = cfg[k]

FlashInv ==
  /\ loop = "write" => held = cfg
  /\ loop \in {"idle", "set"} /\ main \notin {"setup", "request"} => Agree
  /\ main = "setup" /\ cause # "undefined" => Agree
  /\ loop \in {"idle", "set"} /\ "config_mode" \notin DOMAIN nvs => On("config_mode")
  /\ main = "off" => ~On("config_mode")

\* A boot the timer began, and a counter that has counted, belong to a module
\* that is out of maintenance mode.
CountInv ==
  /\ cause = "timer" => main \notin {"serving", "request"} /\ ~On("config_mode")
  /\ wake # 0 =>
       /\ cause # "undefined" /\ main # "serving"
       /\ main # "request" => ~On("config_mode")
       /\ On("t_wake_thresh") /\ cfg["wake_thresh"] > 0 => wake < cfg["wake_thresh"]

\* What a transmission now would need has been done.
Ready ==
  cfg["active_prot"] \in Protocols =>
    inited = cfg["active_prot"] /\ (inited = Wifi => link)

SendInv ==
  /\ used # 0 => used = inited /\ (inited = Wifi => link)
  /\ Queued("send") => Ready
  /\ main = "connect" /\ cause = "timer" => inited = cfg["active_prot"]
  /\ main = "wakeup" /\ cause = "timer" /\ ProtocolsNeeded => Ready

ModeInv == torn \/ (FlashInv /\ CountInv /\ SendInv)

LEMMA ModeInit == Init => ModeInv
<1> SUFFICES ASSUME Init PROVE FlashInv /\ CountInv /\ SendInv
  BY DEF ModeInv
<1>1. Defaults["config_mode"] = 1
  BY LifecycleAssumption DEF LifecycleAssumption
<1>2. ~Queued("send")
  BY EmptySeq DEF Init, Queued
<1>3. QED BY <1>1, <1>2 DEF Init, FlashInv, CountInv, SendInv, On

\* A restart forgets everything but flash.
LEMMA RestartMode == Restart => ModeInv'
<1> SUFFICES ASSUME Restart PROVE FlashInv' /\ CountInv' /\ SendInv'
  BY DEF ModeInv
<1>1. Defaults["config_mode"] = 1 /\ cfg' = Defaults
  BY LifecycleAssumption DEF LifecycleAssumption, Restart
<1>2. queue' = <<>>
  BY DEF Restart, Boot, RamCleared
<1>3. ~Queued("send")'
  BY <1>2, QueuedEmpty
<1>4. QED
  BY <1>1, <1>3 DEF Restart, Boot, RamCleared, FlashInv, CountInv, SendInv, On

\* Re-reading the configuration brings RTC memory in line with flash, and
\* changes nothing where it was.
LEMMA ReadConfigAgrees ==
  ASSUME TypeInv, cfg' = ReadConfig, nvs' = nvs
  PROVE  /\ Agree'
         /\ Agree => cfg' = cfg
         /\ "config_mode" \notin DOMAIN nvs => cfg'["config_mode"] = cfg["config_mode"]
<1>1. cfg \in [Keys -> Nat] /\ DOMAIN nvs \subseteq Keys
  BY DEF TypeInv, TypeOK, Configs
<1>2. cfg' = [k \in Keys |-> IF k \in DOMAIN nvs THEN nvs[k] ELSE cfg[k]]
  BY DEF ReadConfig
<1>3. Agree'
  BY <1>1, <1>2 DEF Agree
<1>4. Agree => cfg' = cfg
  BY <1>1, <1>2 DEF Agree
<1>5. "config_mode" \in Keys
  BY KeysAre
<1>6. QED BY <1>1, <1>2, <1>3, <1>4, <1>5

\* A boot of a module that slept: RTC memory and flash as they were.
LEMMA WakeMode ==
  ASSUME TypeInv, BootInv, FlashInv, CountInv, power = "asleep",
         NEW why \in {"timer", "ext0"}, Boot(why), UNCHANGED <<rtc, nvs>>
  PROVE  FlashInv' /\ CountInv' /\ SendInv'
<1>1. main = "off" /\ loop = "idle"
  BY DEF BootInv, Early
<1>2. queue' = <<>>
  BY DEF Boot, RamCleared
<1>3. ~Queued("send")'
  BY <1>2, QueuedEmpty
<1>4. Agree /\ ~On("config_mode") /\ UNCHANGED <<cfg, nvs, wake>>
  BY <1>1 DEF FlashInv, rtc
<1>5. Agree' /\ ~On("config_mode")'
  BY <1>4 DEF Agree, On
<1>6. FlashInv'
  BY <1>1, <1>4, <1>5 DEF Boot, RamCleared, FlashInv, On
<1>7. CountInv'
  BY <1>1, <1>4, <1>5 DEF Boot, RamCleared, CountInv, On
<1>8. SendInv'
  BY <1>3 DEF Boot, RamCleared, SendInv
<1>9. QED BY <1>6, <1>7, <1>8

LEMMA ModeStep ==
  ASSUME ~NvsFaults, TypeInv, BootInv, ModeInv, [Next]_vars
  PROVE  ModeInv'
<1> DEFINE Sound == FlashInv /\ CountInv /\ SendInv
<1> SUFFICES ASSUME ~torn' PROVE Sound'
  BY DEF ModeInv
<1>t. ASSUME ~torn PROVE FlashInv /\ CountInv /\ SendInv
  BY <1>t DEF ModeInv
<1>r. ASSUME Restart PROVE Sound'
  BY <1>r, RestartMode DEF ModeInv
<1>c. cfg \in [Keys -> Nat] /\ wake \in Nat
  BY DEF TypeInv, TypeOK, Configs
<1>k. /\ "config_mode" \in Keys /\ "wake_thresh" \in Keys /\ "t_wake_thresh" \in Keys
      /\ "active_prot" \in Keys
  BY KeysAre
<1>q. ASSUME queue' = queue PROVE \A t : Queued(t)' <=> Queued(t)
  BY <1>q DEF Queued
<1>p. Event("send") \in Events /\ Event("sleep") \in Events
      /\ Event("sleep").type = "sleep"
  BY EmptySeq DEF Event, Events
\* What a step leaves as it was when it touches neither configuration nor protocol.
<1>u. ASSUME ~torn, UNCHANGED <<cfg, nvs, wake, main, cause, inited, link, used, loop, held>>,
             Queued("send")' => Queued("send")
      PROVE  Sound'
  BY <1>t, <1>u
  DEF FlashInv, CountInv, SendInv, Agree, On, Ready, ProtocolsNeeded, Wrap
<1>1. CASE Reset
  BY <1>1, <1>r DEF Reset
<1>2. CASE TimerWake
  BY <1>2, <1>t, WakeMode DEF TimerWake
<1>3. CASE ButtonPress
  BY <1>3, <1>q, <1>u DEF ButtonPress, rtc, boot, net, task
<1>4. CASE ButtonWake
  BY <1>4, <1>t, WakeMode DEF ButtonWake
<1>5. CASE ButtonRelease
  BY <1>5, <1>r, <1>q, <1>u DEF ButtonRelease, rtc, boot, net, task
<1>6. CASE LoadConfig
  <2>1. ~torn /\ main = "setup" /\ main' = "init" /\ loop = "idle" /\ loop' = "idle" /\ used' = 0
    BY <1>6 DEF LoadConfig, task, BootInv, Early
  <2>2. Agree' /\ (Agree => cfg' = cfg)
        /\ ("config_mode" \notin DOMAIN nvs => cfg'["config_mode"] = cfg["config_mode"])
    BY <1>6, ReadConfigAgrees DEF LoadConfig
  <2>3. cause # "undefined" => cfg' = cfg
    BY <2>1, <2>2, <1>t DEF FlashInv
  <2>4. FlashInv'
    BY <1>6, <2>1, <2>2, <1>t DEF LoadConfig, FlashInv, On
  <2>5. CountInv'
    BY <1>6, <2>1, <2>3, <1>t DEF LoadConfig, CountInv, On
  <2>6. ~Queued("send")'
    BY <1>6, <1>q, <2>1, EmptySeq DEF LoadConfig, BootInv, Early, Queued
  <2>7. SendInv'
    BY <2>1, <2>6 DEF SendInv
  <2>8. QED BY <2>4, <2>5, <2>7
<1>7. CASE InitProtocols
  <2>1. ~torn /\ main = "init" /\ used' = 0 /\ UNCHANGED <<cfg, nvs, wake, cause, loop, held>>
        /\ main' \in {"connect", "wakeup"}
    BY <1>7 DEF InitProtocols, task, BootInv, Early
  <2>2. FlashInv'
    BY <2>1, <1>t DEF FlashInv, Agree, On
  <2>3. CountInv'
    BY <2>1, <1>t DEF CountInv, On
  <2>4. ~Queued("send")'
    BY <1>7, <2>1, EmptySeq DEF InitProtocols, BootInv, Early, Queued
  <2>5. ASSUME cause = "timer", ProtocolsNeeded
        PROVE  /\ main' = "connect" => inited' = cfg["active_prot"]
               /\ main' = "wakeup" => Ready'
    <3>1. ~On("config_mode")
      BY <2>1, <2>5, <1>t DEF CountInv
    <3>2. SelectedProtocol = IF cfg["active_prot"] \in Protocols THEN cfg["active_prot"] ELSE 0
      BY <3>1 DEF SelectedProtocol
    <3>3. /\ inited' = SelectedProtocol
          /\ main' = IF SelectedProtocol \in {Wifi, Config} THEN "connect" ELSE "wakeup"
      BY <1>7, <2>5 DEF InitProtocols
    <3>4. QED BY <2>1, <3>2, <3>3 DEF Ready, Protocols, Wifi, Config, Zigbee, Ble
  <2>6. ~ProtocolsNeeded => main' = "wakeup"
    BY <1>7 DEF InitProtocols
  <2>7. ProtocolsNeeded' <=> ProtocolsNeeded
    BY <2>1 DEF ProtocolsNeeded, On, Wrap
  <2>8. SendInv'
    BY <2>1, <2>4, <2>5, <2>6, <2>7 DEF SendInv
  <2>9. QED BY <2>2, <2>3, <2>8
<1>8. CASE Connect
  <2>1. ~torn /\ main = "connect" /\ main' = "wakeup" /\ used' = 0 /\ link'
        /\ UNCHANGED <<cfg, nvs, wake, cause, loop, held, inited>>
    BY <1>8 DEF Connect, rtc, task, BootInv, Early
  <2>2. FlashInv' /\ CountInv'
    BY <2>1, <1>t DEF FlashInv, CountInv, Agree, On
  <2>3. ~Queued("send")'
    BY <1>8, <2>1, EmptySeq DEF Connect, BootInv, Early, Queued
  <2>4. cause = "timer" => Ready'
    BY <2>1, <1>t DEF SendInv, Ready
  <2>5. SendInv'
    BY <2>1, <2>3, <2>4 DEF SendInv
  <2>6. QED BY <2>2, <2>5
<1>9. CASE ConnectFails
  <2>1. CASE inited = Wifi
    BY <1>9, <2>1, <1>r DEF ConnectFails
  <2>2. CASE inited # Wifi
    <3>1. ~torn /\ main = "connect" /\ main' = "wakeup" /\ used' = 0
          /\ UNCHANGED <<cfg, nvs, wake, cause, loop, held, inited, link>>
      BY <1>9, <2>2 DEF ConnectFails, rtc, net, task, BootInv, Early
    <3>2. FlashInv' /\ CountInv'
      BY <3>1, <1>t DEF FlashInv, CountInv, Agree, On
    <3>3. ~Queued("send")'
      BY <1>9, <2>2, <3>1, EmptySeq DEF ConnectFails, BootInv, Early, Queued
    <3>4. cause = "timer" => Ready'
      BY <2>2, <3>1, <1>t DEF SendInv, Ready
    <3>5. SendInv'
      BY <3>1, <3>3, <3>4 DEF SendInv
    <3>6. QED BY <3>2, <3>5
  <2>3. QED BY <2>1, <2>2
<1>10. CASE WakeupTimer
  <2>1. ~torn /\ main = "wakeup" /\ cause = "timer" /\ main' = "create" /\ used' = 0
        /\ UNCHANGED <<cfg, nvs, cause, loop, held, inited, link>>
    BY <1>10 DEF WakeupTimer, net, task, BootInv, Early
  <2>2. ~On("config_mode")
    BY <2>1, <1>t DEF CountInv
  <2>3. FlashInv'
    BY <2>1, <1>t DEF FlashInv, Agree, On
  <2>4. wake' # 0 /\ On("t_wake_thresh") /\ cfg["wake_thresh"] > 0 => wake' < cfg["wake_thresh"]
    <3>1. Wrap(wake + 1) \in Nat /\ cfg["wake_thresh"] \in Nat
      BY <1>c, <1>k, LifecycleAssumption DEF Wrap, LifecycleAssumption
    <3>2. QED BY <1>10, <3>1 DEF WakeupTimer
  <2>5. CountInv'
    BY <2>1, <2>2, <2>4 DEF CountInv, On
  <2>6. Queued("send")' => Ready
    <3>1. CASE On("t_wake_thresh") /\ Wrap(wake + 1) >= cfg["wake_thresh"]
      BY <2>1, <3>1, <1>t DEF SendInv, ProtocolsNeeded
    <3>2. CASE ~(On("t_wake_thresh") /\ Wrap(wake + 1) >= cfg["wake_thresh"])
      <4>1. queue' = queue
        BY <1>10, <3>2 DEF WakeupTimer
      <4>2. QED BY <2>1, <4>1, EmptySeq DEF BootInv, Early, Queued
    <3>3. QED BY <3>1, <3>2
  <2>7. SendInv'
    BY <2>1, <2>6 DEF SendInv, Ready
  <2>8. QED BY <2>3, <2>5, <2>7
<1>11. CASE WakeupUndefined
  <2>1. ~torn /\ main = "wakeup" /\ cause = "undefined" /\ main' = "create" /\ used' = 0
        /\ UNCHANGED <<cfg, nvs, wake, cause, loop, held, inited, link, queue>>
    BY <1>11 DEF WakeupUndefined, rtc, net, task, BootInv, Early
  <2>2. FlashInv' /\ CountInv'
    BY <2>1, <1>t DEF FlashInv, CountInv, Agree, On
  <2>3. ~Queued("send")'
    BY <2>1, EmptySeq DEF BootInv, Early, Queued
  <2>4. QED BY <2>1, <2>2, <2>3 DEF SendInv
<1>12. CASE WakeupExternal
  <2>1. ~torn /\ main = "wakeup" /\ cause = "ext0" /\ main' = "request" /\ used' = 0
        /\ loop = "idle" /\ UNCHANGED <<nvs, wake, cause, loop, held, inited, link, queue>>
        /\ cfg' = [cfg EXCEPT !["config_mode"] = 1]
    BY <1>12 DEF WakeupExternal, net, task, BootInv, Early
  <2>2. cfg'["config_mode"] = 1 /\ cfg'["wake_thresh"] = cfg["wake_thresh"]
        /\ cfg'["t_wake_thresh"] = cfg["t_wake_thresh"]
    BY <2>1, <1>c, <1>k
  <2>3. FlashInv' /\ CountInv'
    BY <2>1, <2>2, <1>t DEF FlashInv, CountInv, On
  <2>4. ~Queued("send")'
    BY <2>1, EmptySeq DEF BootInv, Early, Queued
  <2>5. QED BY <2>1, <2>3, <2>4 DEF SendInv
<1>13. CASE PersistRequest
  BY <1>13, <1>r DEF PersistRequest
<1>14. CASE CreateTasks
  <2>1. ~torn /\ main = "create" /\ main' = (IF On("config_mode") THEN "serving" ELSE "done")
        /\ UNCHANGED <<cfg, nvs, wake, cause, loop, held, inited, link, queue, used>>
    BY <1>14 DEF CreateTasks, rtc, net, task
  <2>2. FlashInv' /\ CountInv'
    BY <2>1, <1>t DEF FlashInv, CountInv, Agree, On
  <2>3. SendInv'
    BY <2>1, <1>t, <1>q DEF SendInv, Ready
  <2>4. QED BY <2>2, <2>3
<1>15. CASE Measure
  <2>1. queue' = Post(queue, Event("sleep"))
    BY <1>15 DEF Measure
  <2>2. Queued("send")' => Queued("send")
    BY <2>1, <1>p, QueuedPost
  <2>3. QED BY <1>15, <2>2, <1>u DEF Measure, rtc, boot, net, task
<1>16. ASSUME NEW b \in Batches, PostCommands(b) PROVE Sound'
  <2>1. [type |-> "command", batch |-> b] \in Events
    BY LifecycleAssumption DEF Events, LifecycleAssumption
  <2>2. queue' = Post(queue, [type |-> "command", batch |-> b])
    BY <1>16 DEF PostCommands
  <2>3. Queued("send")' => Queued("send")
    BY <2>1, <2>2, QueuedPost
  <2>4. QED BY <1>16, <2>3, <1>u DEF PostCommands, rtc, boot, net, task
<1>s. ASSUME ~torn, main = "serving" PROVE wake = 0 /\ cause # "timer" /\ ~Queued("send")
  BY <1>s, <1>t DEF CountInv, BootInv
<1>17. CASE GetConfig
  <2>1. ~torn /\ main = "serving" /\ loop # "write"
        /\ UNCHANGED <<nvs, wake, main, cause, loop, held, inited, link, used, queue>>
    BY <1>17 DEF GetConfig, boot, net, TypeInv, TypeOK
  <2>2. Agree'
        /\ ("config_mode" \notin DOMAIN nvs => cfg'["config_mode"] = cfg["config_mode"])
    BY <1>17, ReadConfigAgrees DEF GetConfig
  <2>3. FlashInv'
    BY <2>1, <2>2, <1>t DEF FlashInv, On
  <2>4. CountInv' /\ SendInv'
    BY <2>1, <1>s, <1>t, <1>q DEF CountInv, SendInv
  <2>5. QED BY <2>3, <2>4
<1>19. CASE IgnoreSleep
  BY <1>19, <1>u, QueuedTake DEF IgnoreSleep, rtc, boot, net, task
<1>20. CASE EnterDeepSleep
  <2>1. queue # <<>> /\ ~torn /\ loop = "idle" /\ ~On("config_mode") /\ UNCHANGED <<cfg, nvs, wake, cause>>
        /\ main' = "off" /\ queue' = <<>> /\ loop' = "idle" /\ used' = 0
    BY <1>20 DEF EnterDeepSleep, RamCleared, rtc
  <2>2. main \notin Early
    BY <2>1 DEF BootInv
  <2>3. FlashInv'
    BY <2>1, <2>2, <1>t DEF FlashInv, Agree, On, Early
  <2>4. CountInv'
    BY <2>1, <1>t DEF CountInv, On
  <2>5. SendInv'
    BY <2>1, QueuedEmpty DEF SendInv
  <2>6. QED BY <2>3, <2>4, <2>5
<1>21. CASE SendData
  <2>1. ~torn /\ Queued("send") /\ UNCHANGED <<cfg, nvs, wake, main, cause, loop, held, inited, link>>
        /\ (Queued("send")' => Queued("send"))
    BY <1>21, QueuedTake DEF SendData, rtc, boot, net, task
  <2>2. Ready
    BY <2>1, <1>t DEF SendInv
  <2>3. used' # 0 => used' = inited /\ (inited = Wifi => link)
    BY <1>21, <2>1, <2>2, <1>t DEF SendData, SendInv, Ready
  <2>4. FlashInv' /\ CountInv'
    BY <2>1, <1>t DEF FlashInv, CountInv, Agree, On
  <2>5. SendInv'
    BY <2>1, <2>2, <2>3, <1>t DEF SendInv, Ready, ProtocolsNeeded, On, Wrap
  <2>6. QED BY <2>4, <2>5
<1>22. CASE BeginCommands
  <2>1. ~torn /\ loop = "idle" /\ loop' \in {"idle", "set"} /\ Queued("command")
        /\ UNCHANGED <<cfg, nvs, wake, main, cause, held, inited, link, used>>
        /\ (Queued("send")' => Queued("send"))
    BY <1>22, QueuedTake DEF BeginCommands, Take, rtc, boot, net
  <2>2. FlashInv'
    BY <2>1, <1>t DEF FlashInv, Agree, On
  <2>3. CountInv'
    BY <2>1, <1>t DEF CountInv, On
  <2>4. SendInv'
    BY <2>1, <1>t DEF SendInv, Ready, ProtocolsNeeded, On, Wrap
  <2>5. QED BY <2>2, <2>3, <2>4
<1>23. CASE SetField
  <2>1. ~torn /\ main = "serving" /\ loop' = "persist"
        /\ UNCHANGED <<nvs, wake, main, cause, held, inited, link, used, queue>>
    BY <1>23 DEF SetField, boot, net, BootInv
  <2>2. FlashInv'
    BY <2>1 DEF FlashInv
  <2>3. CountInv' /\ SendInv'
    BY <2>1, <1>s, <1>t, <1>q DEF CountInv, SendInv
  <2>4. QED BY <2>2, <2>3
<1>24. CASE Collect
  <2>1. ~torn /\ main = "serving" /\ loop' = "write" /\ held' = cfg
        /\ UNCHANGED <<cfg, nvs, wake, main, cause, inited, link, used, queue>>
    BY <1>24 DEF Collect, rtc, boot, net, BootInv
  <2>2. FlashInv'
    BY <2>1 DEF FlashInv
  <2>3. CountInv' /\ SendInv'
    BY <2>1, <1>s, <1>t, <1>q DEF CountInv, SendInv
  <2>4. QED BY <2>2, <2>3
<1>25. CASE Persist
  <2>1. ~torn /\ main = "serving" /\ loop = "write" /\ loop' \in {"idle", "set"}
        /\ UNCHANGED <<cfg, wake, main, cause, inited, link, used, queue>>
    BY <1>25 DEF Persist, rtc, boot, net, BootInv
  <2>2. held = cfg /\ held \in Configs
    BY <2>1, <1>t DEF FlashInv, TypeInv, TypeOK
  <2>3. DOMAIN nvs' = Keys /\ \A k \in Keys : nvs'[k] = cfg[k]
    BY <1>25, <2>2, WriteConfigProperties DEF Persist, TypeInv, TypeOK
  <2>4. FlashInv'
    BY <2>1, <2>3, <1>k DEF FlashInv, Agree
  <2>5. CountInv' /\ SendInv'
    BY <2>1, <1>s, <1>t, <1>q DEF CountInv, SendInv
  <2>6. QED BY <2>4, <2>5
<1>26. CASE RestartCommand
  BY <1>26, <1>r DEF RestartCommand
<1>27. CASE UNCHANGED vars
  BY <1>27, <1>q, <1>u DEF vars, rtc, boot, net, task
<1>28. QED
  BY <1>1, <1>2, <1>3, <1>4, <1>5, <1>6, <1>7, <1>8, <1>9, <1>10, <1>11, <1>12,
     <1>13, <1>14, <1>15, <1>16, <1>17, <1>19, <1>20, <1>21, <1>22, <1>23, <1>24,
     <1>25, <1>26, <1>27
  DEF Next, Main, EventLoop

LEMMA ModeInvariant == ~NvsFaults => (Spec => [](TypeInv /\ BootInv /\ ModeInv))
<1> SUFFICES ASSUME ~NvsFaults PROVE Spec => [](TypeInv /\ BootInv /\ ModeInv)
  OBVIOUS
<1>1. Init => TypeInv /\ BootInv /\ ModeInv
  BY TypeInit, BootInit, ModeInit
<1>2. TypeInv /\ BootInv /\ ModeInv /\ [Next]_vars => (TypeInv /\ BootInv /\ ModeInv)'
  BY TypeStep, BootStep, ModeStep
<1>3. QED BY <1>1, <1>2, PTL DEF Spec

-----------------------------------------------------------------------------
(* The theorems.                                                             *)

\* Where flash can be written, the module sleeps only with the configuration it
\* will find there, maintenance mode off, but for a write a client's request
\* fell into (process_command_batch, storage_write_config, EnterDeepSleep).
THEOREM SleepsStored == ~NvsFaults => (Spec => []SleepsAsStored)
<1> SUFFICES ASSUME ~NvsFaults PROVE Spec => []SleepsAsStored
  OBVIOUS
<1>1. TypeInv /\ BootInv /\ ModeInv => SleepsAsStored
  <2> SUFFICES ASSUME TypeInv, BootInv, ModeInv, power = "asleep", ~torn
               PROVE  /\ "config_mode" \in DOMAIN nvs /\ nvs["config_mode"] = 0
                      /\ \A k \in DOMAIN nvs : nvs[k] = cfg[k]
    BY DEF SleepsAsStored
  <2>1. main = "off" /\ loop = "idle"
    BY DEF BootInv, Early
  <2>2. Agree /\ ~On("config_mode") /\ "config_mode" \in DOMAIN nvs
    BY <2>1 DEF ModeInv, FlashInv
  <2>3. QED BY <2>2 DEF Agree, On
<1>2. QED BY <1>1, ModeInvariant, PTL

\* There the protocol that transmits is the one this boot has initialised, and
\* WiFi transmits only with the access point joined: what app_main foresees is
\* what wakeup_reason decides.
THEOREM SendsWhenReady == ~NvsFaults => (Spec => []SendsReady)
<1> SUFFICES ASSUME ~NvsFaults PROVE Spec => []SendsReady
  OBVIOUS
<1>1. TypeInv /\ BootInv /\ ModeInv => SendsReady
  BY DEF ModeInv, SendInv, SendsReady
<1>2. QED BY <1>1, ModeInvariant, PTL

\* There no transmission is overdue while the module sleeps, whatever becomes
\* of the threshold in maintenance mode (wakeup_reason).
THEOREM NeverOverdue == ~NvsFaults => (Spec => []NotOverdue)
<1> SUFFICES ASSUME ~NvsFaults PROVE Spec => []NotOverdue
  OBVIOUS
<1>1. TypeInv /\ BootInv /\ ModeInv => NotOverdue
  <2>1. TypeInv => cfg["wake_thresh"] \in Nat
    BY KeysAre DEF TypeInv, TypeOK, Configs
  <2>2. QED BY <2>1 DEF ModeInv, CountInv, NotOverdue
<1>2. QED BY <1>1, ModeInvariant, PTL

-----------------------------------------------------------------------------
(* The modes of the README.  Unlike ModeInv, what they need survives a write   *)
(* that was overtaken by a request for the configuration.                    *)

\* The stored maintenance flag decides where a boot ends up.
KeyInv ==
  /\ loop \in {"idle", "set"} /\ "config_mode" \notin DOMAIN nvs => On("config_mode")
  /\ main \in {"init", "connect", "wakeup", "create"} =>
       (Deployment <=> ~On("config_mode"))
  /\ main = "done" => Deployment
  /\ main = "request" => cause = "ext0" /\ On("config_mode")
  /\ main = "create" => cause # "ext0"

\* A transmission is posted before the measurement begins, whose end puts the
\* module to sleep.
Ordered ==
  \A i, j \in 1..Len(queue) : queue[i].type = "sleep" /\ queue[j].type = "send" => j < i

OrderInv ==
  /\ main \in Early \cup {"create"} => meas = "none" /\ ~Queued("sleep")
  /\ Ordered

LEMMA OrderPost ==
  ASSUME TypeInv, Ordered, NEW e \in Events, e.type # "send", queue' = Post(queue, e)
  PROVE  Ordered'
BY DEF TypeInv, TypeOK, Ordered, Post

LEMMA OrderTail ==
  ASSUME TypeInv, Ordered, queue # <<>>, queue' = Tail(queue)
  PROVE  Ordered'
BY DEF TypeInv, TypeOK, Ordered

LEMMA OrderEmpty == ASSUME queue' = <<>> PROVE Ordered' /\ \A t : ~Queued(t)'
BY EmptySeq DEF Ordered, Queued

LEMMA RestartKeyOrder == Restart => KeyInv' /\ OrderInv'
<1> SUFFICES ASSUME Restart PROVE KeyInv' /\ OrderInv'
  OBVIOUS
<1>1. Defaults["config_mode"] = 1 /\ cfg' = Defaults /\ main' = "setup" /\ meas' = "none"
      /\ queue' = <<>>
  BY LifecycleAssumption DEF LifecycleAssumption, Restart, Boot, RamCleared
<1>2. QED BY <1>1, OrderEmpty DEF KeyInv, OrderInv, On

LEMMA KeyOrderInit == Init => KeyInv /\ OrderInv
<1> SUFFICES ASSUME Init PROVE KeyInv /\ OrderInv
  OBVIOUS
<1>1. Defaults["config_mode"] = 1
  BY LifecycleAssumption DEF LifecycleAssumption
<1>2. QED BY <1>1, EmptySeq DEF Init, KeyInv, OrderInv, Ordered, Queued, On

\* What ReadConfig makes of the maintenance flag.
LEMMA ReadFlag ==
  ASSUME TypeInv, cfg' = ReadConfig
  PROVE  cfg'["config_mode"] = IF "config_mode" \in DOMAIN nvs THEN nvs["config_mode"]
                               ELSE cfg["config_mode"]
BY KeysAre DEF ReadConfig

LEMMA KeyStep ==
  ASSUME ~NvsFaults, TypeInv, BootInv, KeyInv, [Next]_vars
  PROVE  KeyInv'
<1> USE DEF KeyInv, Deployment, On
<1>1. CASE Restart
  BY <1>1, RestartKeyOrder
<1>2. CASE UNCHANGED <<cfg, nvs, main, cause>> /\ (loop' = loop \/ loop' \in {"persist", "write"}
             \/ loop \in {"idle", "set"})
  BY <1>2
<1>3. CASE TimerWake \/ ButtonWake
  BY <1>3 DEF TimerWake, ButtonWake, Boot, RamCleared, rtc, BootInv, Early
<1>4. CASE LoadConfig
  <2>1. cfg' = ReadConfig /\ main' = "init" /\ nvs' = nvs /\ loop' = loop /\ loop = "idle"
    BY <1>4 DEF LoadConfig, task, BootInv, Early
  <2>2. QED BY <2>1, ReadFlag
<1>5. CASE InitProtocols \/ Connect \/ WakeupTimer \/ WakeupUndefined
  <2>1. /\ cfg' = cfg /\ nvs' = nvs /\ loop' = loop
        /\ main \in {"init", "connect", "wakeup"} /\ main' \in {"connect", "wakeup", "create"}
        /\ main' = "create" => cause' # "ext0"
    BY <1>5 DEF InitProtocols, Connect, WakeupTimer, WakeupUndefined, rtc, task
  <2>2. QED BY <2>1
<1>6. CASE ConnectFails
  <2>1. CASE Restart
    BY <2>1, RestartKeyOrder
  <2>2. CASE main' = "wakeup" /\ main = "connect" /\ UNCHANGED <<rtc, nvs, task>>
    BY <2>2 DEF rtc, task
  <2>3. QED BY <1>6, <2>1, <2>2 DEF ConnectFails
<1>7. CASE WakeupExternal
  <2>1. cfg' = [cfg EXCEPT !["config_mode"] = 1] /\ main' = "request" /\ loop' = loop
        /\ cause = "ext0" /\ cause' = cause
    BY <1>7 DEF WakeupExternal, task
  <2>2. cfg'["config_mode"] = 1
    BY <2>1, KeysAre DEF TypeInv, TypeOK, Configs
  <2>3. QED BY <2>1, <2>2
<1>8. CASE CreateTasks
  <2>1. /\ cfg' = cfg /\ nvs' = nvs /\ loop' = loop /\ main = "create"
        /\ main' = IF On("config_mode") THEN "serving" ELSE "done"
    BY <1>8 DEF CreateTasks, rtc, task
  <2>2. QED BY <2>1
<1>9. CASE GetConfig
  <2>1. cfg' = ReadConfig /\ nvs' = nvs /\ loop' = loop /\ main = "serving" /\ main' = main
    BY <1>9 DEF GetConfig, boot
  <2>2. QED BY <2>1, ReadFlag
<1>10. CASE EnterDeepSleep
  BY <1>10 DEF EnterDeepSleep, RamCleared, rtc
<1>11. CASE SetField
  <2>1. loop' = "persist" /\ main' = main /\ nvs' = nvs /\ main = "serving"
    BY <1>11 DEF SetField, BootInv, boot
  <2>2. QED BY <2>1
<1>12. CASE Persist
  <2>1. held \in Configs /\ DOMAIN nvs \subseteq Keys
    BY DEF TypeInv, TypeOK
  <2>2. nvs' = Written(held, Len(KeyOrder)) /\ main' = main /\ main = "serving"
    BY <1>12 DEF Persist, WriteConfig, BootInv, boot
  <2>3. "config_mode" \in DOMAIN nvs'
    BY <2>1, <2>2, WrittenWhole, KeysAre
  <2>4. QED BY <2>2, <2>3
<1>13. CASE UNCHANGED vars
  BY <1>13 DEF vars, rtc, boot, task
<1>14. ASSUME NEW b \in Batches, PostCommands(b) PROVE KeyInv'
  BY <1>2, <1>14 DEF PostCommands, rtc, boot, task
<1>15. CASE ButtonPress \/ Measure \/ IgnoreSleep \/ SendData \/ BeginCommands \/ Collect
  BY <1>2, <1>15 DEF ButtonPress, Measure, IgnoreSleep, SendData, BeginCommands, Collect,
     Take, rtc, boot, task
<1>16. CASE Reset \/ PersistRequest \/ RestartCommand
  BY <1>1, <1>16 DEF Reset, PersistRequest, RestartCommand
<1>17. CASE ButtonRelease
  BY <1>1, <1>2, <1>17 DEF ButtonRelease, rtc, boot, task
<1>18. QED
  BY <1>3, <1>4, <1>5, <1>6, <1>7, <1>8, <1>9, <1>10, <1>11, <1>12, <1>13, <1>14, <1>15,
     <1>16, <1>17
  DEF Next, Main, EventLoop

LEMMA OrderStep ==
  ASSUME TypeInv, BootInv, OrderInv, [Next]_vars
  PROVE  OrderInv'
<1> USE DEF OrderInv
<1>1. CASE Restart
  BY <1>1, RestartKeyOrder
<1>2. CASE UNCHANGED <<queue, main, meas>>
  BY <1>2 DEF Ordered, Queued
<1>3. CASE TimerWake \/ ButtonWake
  BY <1>3, OrderEmpty DEF TimerWake, ButtonWake, Boot, RamCleared
<1>4. CASE LoadConfig \/ InitProtocols \/ Connect \/ WakeupUndefined \/ WakeupExternal
  <2>1. main \in Early /\ main' \in Early \cup {"create"} /\ UNCHANGED <<queue, meas>>
    BY <1>4 DEF LoadConfig, InitProtocols, Connect, WakeupUndefined, WakeupExternal, Early
  <2>2. QED BY <2>1 DEF Ordered, Queued
<1>5. CASE ConnectFails
  <2>1. CASE Restart
    BY <2>1, RestartKeyOrder
  <2>2. CASE main = "connect" /\ main' = "wakeup" /\ UNCHANGED <<queue, meas>>
    BY <2>2 DEF Ordered, Queued, Early
  <2>3. QED BY <1>5, <2>1, <2>2 DEF ConnectFails
<1>6. CASE WakeupTimer
  <2>1. queue = <<>> /\ meas = "none" /\ main' = "create" /\ meas' = meas
    BY <1>6 DEF WakeupTimer, BootInv, Early
  <2>2. queue' = queue \/ queue' = Post(queue, Event("send"))
    BY <1>6 DEF WakeupTimer
  <2>3. Event("send") \in Events /\ Event("send").type = "send"
    BY EmptySeq DEF Event, Events
  <2>4. \A j \in 1..Len(queue') : queue'[j].type = "send"
    <3>1. CASE queue' = queue
      BY <2>1, <3>1, EmptySeq
    <3>2. CASE queue' = Post(queue, Event("send"))
      <4>1. queue \in Seq(Events) /\ Len(queue) <= QueueSize
        BY DEF TypeInv, TypeOK
      <4>2. \A j \in 1..Len(Post(queue, Event("send"))) :
               j = Len(queue) + 1 \/ j \in 1..Len(queue)
        BY <2>3, <4>1 DEF Post
      <4>3. QED BY <2>1, <2>3, <3>2, <4>1 DEF Post
    <3>3. QED BY <2>2, <3>1, <3>2
  <2>5. QED BY <2>1, <2>4 DEF Ordered, Queued
<1>7. CASE CreateTasks
  BY <1>7 DEF CreateTasks, Ordered, Queued, Early
<1>8. CASE Measure
  <2>1. Event("sleep") \in Events /\ Event("sleep").type = "sleep"
    BY EmptySeq DEF Event, Events
  <2>2. meas = "run" /\ main' = main /\ queue' = Post(queue, Event("sleep"))
    BY <1>8 DEF Measure, boot
  <2>3. main \notin Early \cup {"create"}
    BY <2>2
  <2>4. QED BY <2>1, <2>2, <2>3, OrderPost
<1>9. ASSUME NEW b \in Batches, PostCommands(b) PROVE OrderInv'
  <2>1. b \in Seq(Commands)
    BY LifecycleAssumption DEF LifecycleAssumption
  <2>2. [type |-> "command", batch |-> b] \in Events
    BY <2>1 DEF Events
  <2>3. main = "serving" /\ main' = main /\ queue' = Post(queue, [type |-> "command", batch |-> b])
    BY <1>9 DEF PostCommands, boot
  <2>4. QED BY <2>2, <2>3, OrderPost DEF Early
<1>10. CASE IgnoreSleep \/ SendData \/ BeginCommands
  <2>1. PICK t \in {"sleep", "send", "command"} : Take(t)
    BY <1>10 DEF IgnoreSleep, SendData, BeginCommands
  <2>2. UNCHANGED <<main, meas>>
    BY <1>10 DEF IgnoreSleep, SendData, BeginCommands, boot
  <2>3. Ordered'
    BY <2>1, OrderTail DEF Take
  <2>4. Queued("sleep")' => Queued("sleep")
    BY <2>1, QueuedTake
  <2>5. QED BY <2>2, <2>3, <2>4
<1>11. CASE EnterDeepSleep
  BY <1>11, OrderEmpty DEF EnterDeepSleep, RamCleared
<1>12. CASE UNCHANGED vars \/ ButtonPress \/ SetField \/ Collect \/ Persist \/ GetConfig
  BY <1>2, <1>12 DEF vars, boot, ButtonPress, SetField, Collect, Persist, GetConfig
<1>13. CASE Reset \/ PersistRequest \/ RestartCommand
  BY <1>1, <1>13 DEF Reset, PersistRequest, RestartCommand
<1>14. CASE ButtonRelease
  BY <1>1, <1>2, <1>14 DEF ButtonRelease, boot
<1>15. QED
  BY <1>3, <1>4, <1>5, <1>6, <1>7, <1>8, <1>9, <1>10, <1>11, <1>12, <1>13, <1>14
  DEF Next, Main, EventLoop

-----------------------------------------------------------------------------
(* Every step of Lifecycle is a step of Modes or none.                       *)

LEMMA PostSame ==
  ASSUME TypeInv, NEW e \in Events, e.type # "send", queue' = Post(queue, e)
  PROVE  Queued("send")' = Queued("send")
<1>1. ASSUME Queued("send") PROVE Queued("send")'
  BY <1>1 DEF Queued, Post, TypeInv, TypeOK
<1>2. ASSUME Queued("send")' PROVE Queued("send")
  BY <1>2, QueuedPost
<1>3. QED BY <1>1, <1>2 DEF Queued

LEMMA TakeSame ==
  ASSUME TypeInv, NEW t \in {"sleep", "command"}, Take(t)
  PROVE  Queued("send")' = Queued("send")
<1>1. ASSUME Queued("send") PROVE Queued("send")'
  <2>1. PICK j \in 1..Len(queue) : queue[j].type = "send"
    BY <1>1 DEF Queued
  <2>2. queue \in Seq(Events) /\ queue # <<>> /\ queue' = Tail(queue) /\ queue[1].type = t
    BY DEF Take, TypeInv, TypeOK
  <2>3. j - 1 \in 1..Len(queue') /\ queue'[j - 1] = queue[j]
    BY <2>1, <2>2
  <2>4. QED BY <2>1, <2>3 DEF Queued
<1>2. Queued("send")' => Queued("send")
  BY QueuedTake
<1>3. QED BY <1>1, <1>2 DEF Queued

LEMMA ModesRestart ==
  ASSUME Restart,
         \/ Deployment' = Deployment
         \/ Mode = "maintenance"
         \/ Mode = "boot" /\ Why = "button" /\ ~Deployment'
  PROVE  M!Restart
<1>1. Mode' = "boot" /\ Why' = "power" /\ queue' = <<>>
  BY DEF Restart, Boot, RamCleared, Mode, Why
<1>2. Queued("send")' = FALSE
  BY <1>1, OrderEmpty DEF Queued
<1>3. Deployment \in BOOLEAN /\ Deployment' \in BOOLEAN
  BY DEF Deployment
<1>4. QED BY <1>1, <1>2, <1>3 DEF M!Restart

\* What any beginning of a write of the button's request makes of the stored flag.
LEMMA WrittenFlag ==
  ASSUME TypeInv, NEW c \in Configs, NEW n \in 0..Len(KeyOrder), c["config_mode"] # 0,
         nvs' = Written(c, n)
  PROVE  Deployment' = Deployment \/ ~Deployment'
BY DEF Deployment, Written

LEMMA ModesStep ==
  ASSUME ~NvsFaults, TypeInv, BootInv, KeyInv, OrderInv, [Next]_vars
  PROVE  [M!Next]_(M!vars)
<1> USE DEF M!Next, M!vars
<1>d. Deployment \in BOOLEAN /\ Queued("send") \in BOOLEAN
  BY DEF Deployment, Queued
<1>s. ASSUME UNCHANGED <<nvs, queue, power, cause, main>> PROVE UNCHANGED M!vars
  BY <1>s DEF Mode, Why, Queued, Deployment
<1>e. ASSUME UNCHANGED <<nvs, queue, cause>>, Mode' = Mode PROVE UNCHANGED M!vars
  BY <1>e DEF Why, Queued, Deployment
<1>m. cfg \in Configs /\ nvs \in [DOMAIN nvs -> Nat]
  BY DEF TypeInv, TypeOK
<1>1. CASE UNCHANGED vars \/ ButtonPress \/ GetConfig \/ SetField \/ Collect
  BY <1>1, <1>s DEF vars, boot, ButtonPress, GetConfig, SetField, Collect
<1>2. CASE Reset
  <2>1. PICK n \in IF Writing THEN 0..Len(KeyOrder) ELSE {0} : nvs' = Written(Source, n)
    BY <1>2 DEF Reset
  <2>2. CASE ~Writing
    <3>1. nvs' = nvs
      BY <1>m, <2>1, <2>2 DEF Written
    <3>2. QED BY <1>2, <3>1, ModesRestart DEF Reset, Deployment
  <2>3. CASE loop = "write"
    <3>1. Mode = "maintenance"
      BY <2>3 DEF BootInv, Mode, Early
    <3>2. QED BY <1>2, <3>1, ModesRestart DEF Reset
  <2>4. CASE main = "request" /\ loop # "write"
    <3>1. Mode = "boot" /\ Why = "button"
      BY <2>4 DEF BootInv, KeyInv, Mode, Why, Early
    <3>2. Deployment' = Deployment \/ ~Deployment'
      BY <1>m, <2>1, <2>4, WrittenFlag DEF KeyInv, On, Writing, Source
    <3>3. QED BY <1>2, <3>1, <3>2, ModesRestart DEF Reset
  <2>5. QED BY <2>2, <2>3, <2>4 DEF Writing
<1>3. CASE TimerWake \/ ButtonWake
  <2>1. Mode = "asleep" /\ Mode' = "boot" /\ Why' \in {"timer", "button"} /\ nvs' = nvs
    BY <1>3 DEF TimerWake, ButtonWake, Boot, Mode, Why
  <2>2. queue = <<>> /\ queue' = <<>>
    BY <1>3 DEF TimerWake, ButtonWake, Boot, RamCleared, BootInv, Early
  <2>3. QED BY <2>1, <2>2 DEF M!Wake, Queued, Deployment
<1>4. CASE LoadConfig \/ InitProtocols \/ Connect \/ WakeupUndefined \/ WakeupExternal
  <2>1. /\ main \in Early \ {"off"} /\ main' \in {"init", "connect", "wakeup", "create", "request"}
        /\ power' = power /\ UNCHANGED <<nvs, queue, cause>>
    BY <1>4 DEF LoadConfig, InitProtocols, Connect, WakeupUndefined, WakeupExternal, Early
  <2>2. Mode' = Mode
    BY <2>1 DEF Mode, Early
  <2>3. QED BY <1>e, <2>1, <2>2
<1>5. CASE ConnectFails
  <2>1. CASE Restart
    BY <1>5, <2>1, ModesRestart DEF ConnectFails, Deployment
  <2>2. CASE ~Restart
    <3>1. /\ main = "connect" /\ main' = "wakeup"
          /\ power' = power /\ UNCHANGED <<nvs, queue, cause>>
      BY <1>5, <2>2 DEF ConnectFails
    <3>2. Mode' = Mode
      BY <3>1 DEF Mode
    <3>3. QED BY <1>e, <3>1, <3>2
  <2>3. QED BY <2>1, <2>2
<1>6. CASE WakeupTimer
  <2>1. /\ main = "wakeup" /\ main' = "create" /\ cause = "timer" /\ cause' = "timer"
        /\ power' = power /\ nvs' = nvs
    BY <1>6 DEF WakeupTimer
  <2>2. Mode = "boot" /\ Mode' = "boot" /\ Why = "timer" /\ Why' = "timer"
    BY <2>1 DEF Mode, Why, BootInv, TypeInv, TypeOK
  <2>3. Queued("send") = FALSE
    BY <2>1, EmptySeq DEF BootInv, Early, Queued
  <2>4. Queued("send")' \in BOOLEAN /\ Deployment' = Deployment
    BY <2>1 DEF Queued, Deployment
  <2>5. QED BY <2>2, <2>3, <2>4 DEF M!Schedule
<1>7. CASE CreateTasks
  <2>1. /\ main = "create" /\ main' = IF On("config_mode") THEN "serving" ELSE "done"
        /\ UNCHANGED <<nvs, queue, power, cause>>
    BY <1>7 DEF CreateTasks
  <2>2. Mode = "boot" /\ Mode' = IF Deployment THEN "deployed" ELSE "maintenance"
    BY <2>1 DEF Mode, BootInv, KeyInv, TypeInv, TypeOK
  <2>3. Why # "button"
    BY <2>1 DEF KeyInv, Why
  <2>4. QED BY <2>1, <2>2, <2>3 DEF M!Enter, Why, Queued, Deployment
<1>8. CASE Measure
  <2>1. Event("sleep") \in Events /\ Event("sleep").type = "sleep"
    BY EmptySeq DEF Event, Events
  <2>2. Queued("send")' = Queued("send")
    BY <1>8, <2>1, PostSame DEF Measure
  <2>3. QED BY <1>8, <2>2 DEF Measure, boot, Mode, Why, Deployment
<1>9. ASSUME NEW b \in Batches, PostCommands(b) PROVE UNCHANGED M!vars
  <2>1. b \in Seq(Commands)
    BY LifecycleAssumption DEF LifecycleAssumption
  <2>2. [type |-> "command", batch |-> b] \in Events
    BY <2>1 DEF Events
  <2>3. Queued("send")' = Queued("send")
    BY <1>9, <2>2, PostSame DEF PostCommands
  <2>4. QED BY <1>9, <2>3 DEF PostCommands, boot, Mode, Why, Deployment
<1>10. CASE IgnoreSleep \/ BeginCommands
  <2>1. PICK t \in {"sleep", "command"} : Take(t)
    BY <1>10 DEF IgnoreSleep, BeginCommands
  <2>2. Queued("send")' = Queued("send")
    BY <2>1, TakeSame
  <2>3. UNCHANGED <<nvs, power, cause, main>>
    BY <1>10 DEF IgnoreSleep, BeginCommands, boot
  <2>4. QED BY <2>2, <2>3 DEF Mode, Why, Deployment
<1>11. CASE SendData
  <2>1. Queued("send")
    BY <1>11, QueuedTake DEF SendData
  <2>2. UNCHANGED <<nvs, power, cause, main>>
    BY <1>11 DEF SendData, boot
  <2>3. Queued("send")' \in BOOLEAN
    BY DEF Queued
  <2>4. UNCHANGED <<Mode, Why, Deployment>>
    BY <2>2 DEF Mode, Why, Deployment
  <2>5. QED BY <2>1, <2>3, <2>4 DEF M!Transmit
<1>12. CASE EnterDeepSleep
  <2>1. queue \in Seq(Events) /\ queue # <<>> /\ queue[1].type = "sleep"
    BY <1>12 DEF EnterDeepSleep, TypeInv, TypeOK
  <2>2. Queued("send") = FALSE
    BY <2>1 DEF OrderInv, Ordered, Queued
  <2>3. Queued("send")' = FALSE
    BY <1>12, OrderEmpty DEF EnterDeepSleep, RamCleared, Queued
  <2>4. Mode \in {"maintenance", "deployed"} /\ Mode' = "asleep"
    <3>1. Queued("sleep")
      BY <2>1 DEF Queued
    <3>2. main \notin Early \cup {"create"}
      BY <3>1 DEF OrderInv
    <3>3. main \in {"serving", "done"} /\ power # "asleep"
      BY <3>2 DEF Early, BootInv, TypeInv, TypeOK
    <3>4. QED BY <1>12, <3>3 DEF EnterDeepSleep, Mode
  <2>5. UNCHANGED <<Why, Deployment>>
    BY <1>12 DEF EnterDeepSleep, Why, Deployment
  <2>6. QED BY <2>2, <2>3, <2>4, <2>5 DEF M!Sleep
<1>13. CASE Persist
  <2>1. main = "serving" /\ UNCHANGED <<queue, power, cause, main>>
    BY <1>13 DEF Persist, BootInv, boot
  <2>2. Mode = "maintenance" /\ UNCHANGED <<Mode, Why, Queued("send")>>
    BY <2>1 DEF Mode, Why, Queued, BootInv, Early
  <2>3. Deployment' \in BOOLEAN
    BY DEF Deployment
  <2>4. QED BY <2>2, <2>3 DEF M!Configure
<1>14. CASE PersistRequest
  <2>1. Mode = "boot" /\ Why = "button"
    BY <1>14 DEF PersistRequest, BootInv, KeyInv, Mode, Why, Early
  <2>2. nvs' = Written(cfg, Len(KeyOrder)) /\ cfg["config_mode"] # 0
    BY <1>14 DEF PersistRequest, WriteConfig, KeyInv, On
  <2>3. Deployment' = Deployment \/ ~Deployment'
    BY <1>m, <2>2, WrittenFlag DEF KeyOrder
  <2>4. QED BY <1>14, <2>1, <2>3, ModesRestart DEF PersistRequest
<1>15. CASE RestartCommand
  BY <1>15, ModesRestart DEF RestartCommand, Deployment
<1>16. CASE ButtonRelease
  <2>1. CASE power = "on"
    BY <1>16, <2>1, ModesRestart DEF ButtonRelease, Deployment
  <2>2. CASE power # "on"
    BY <1>16, <2>2, <1>s DEF ButtonRelease, boot
  <2>3. QED BY <2>1, <2>2
<1>17. QED
  BY <1>1, <1>2, <1>3, <1>4, <1>5, <1>6, <1>7, <1>8, <1>9, <1>10, <1>11, <1>12, <1>13,
     <1>14, <1>15, <1>16
  DEF Next, Main, EventLoop

\* The modes are those of the README's automaton, for every configuration, set
\* of commands and queue, where flash can be written: the stored configuration
\* decides where a boot ends up, the button leads to a restart, and a
\* transmission that was posted is over before the module sleeps (app_main,
\* wakeup_reason, the event handlers).
THEOREM ImplementsModes == ~NvsFaults => (Spec => ModesSpec)
<1> SUFFICES ASSUME ~NvsFaults PROVE Spec => ModesSpec
  OBVIOUS
<1>1. Init => M!Init
  <2>1. Deployment \in BOOLEAN
    BY DEF Deployment
  <2>2. QED BY <2>1, EmptySeq DEF Init, M!Init, Mode, Why, Queued
<1>2. Init => TypeInv /\ BootInv /\ KeyInv /\ OrderInv
  BY TypeInit, BootInit, KeyOrderInit
<1>3. TypeInv /\ BootInv /\ KeyInv /\ OrderInv /\ [Next]_vars
        => (TypeInv /\ BootInv /\ KeyInv /\ OrderInv)'
  BY TypeStep, BootStep, KeyStep, OrderStep
<1>4. TypeInv /\ BootInv /\ KeyInv /\ OrderInv /\ [Next]_vars => [M!Next]_(M!vars)
  BY ModesStep
<1>5. QED BY <1>1, <1>2, <1>3, <1>4, PTL DEF Spec, ModesSpec, M!Spec

-----------------------------------------------------------------------------
(* The protocol a boot initialises: the abstract specification Startup.      *)

\* Before it is initialised there is neither a protocol nor a connection, and
\* only the protocols that wait for the access point are waited for.
NetInv ==
  /\ main \in {"off", "setup", "init"} => inited = 0 /\ ~link
  /\ main = "connect" => inited \in {Wifi, Config} /\ ~link

LEMMA NetInit == Init => NetInv
BY DEF Init, NetInv

LEMMA RestartNet == Restart => NetInv' /\ StartupState' = "booting" /\ StartupKind' = "none"
BY DEF Restart, Boot, RamCleared, NetInv, StartupState, StartupKind

LEMMA NetStep == TypeInv /\ NetInv /\ [Next]_vars => NetInv'
<1> SUFFICES ASSUME TypeInv, NetInv, [Next]_vars PROVE NetInv'
  OBVIOUS
<1> USE DEF NetInv
<1>1. CASE Reset \/ TimerWake \/ ButtonWake \/ PersistRequest \/ RestartCommand
  BY <1>1, RestartNet DEF Reset, TimerWake, ButtonWake, PersistRequest, RestartCommand, Boot, RamCleared
<1>2. CASE ButtonPress \/ ButtonRelease
  BY <1>2, RestartNet DEF ButtonPress, ButtonRelease, boot, net
<1>3. CASE LoadConfig
  BY <1>3 DEF LoadConfig, net
<1>4. CASE InitProtocols
  BY <1>4 DEF InitProtocols
<1>5. CASE Connect
  BY <1>5 DEF Connect
<1>6. CASE ConnectFails
  BY <1>6, RestartNet DEF ConnectFails, net
<1>7. CASE WakeupTimer \/ WakeupUndefined \/ WakeupExternal \/ CreateTasks
  BY <1>7 DEF WakeupTimer, WakeupUndefined, WakeupExternal, CreateTasks
<1>8. CASE Measure \/ GetConfig \/ \E b \in Batches : PostCommands(b)
  <2>1. UNCHANGED <<boot, net>>
    BY <1>8 DEF Measure, GetConfig, PostCommands
  <2>2. QED BY <2>1 DEF boot, net
<1>9. CASE EnterDeepSleep
  BY <1>9 DEF EnterDeepSleep, RamCleared
<1>10. CASE IgnoreSleep \/ SendData \/ BeginCommands \/ SetField \/ Collect \/ Persist
  BY <1>10 DEF IgnoreSleep, SendData, BeginCommands, SetField, Collect, Persist, boot, net
<1>11. CASE UNCHANGED vars
  BY <1>11 DEF vars, boot, net
<1>12. QED
  BY <1>1, <1>2, <1>3, <1>4, <1>5, <1>6, <1>7, <1>8, <1>9, <1>10, <1>11 DEF Next, Main, EventLoop

\* Every step of the module is one of Startup or none.
LEMMA StartupStep ==
  TypeInv /\ BootInv /\ NetInv /\ [Next]_vars => [SU!Next]_(SU!vars)
<1> SUFFICES ASSUME TypeInv, BootInv, NetInv, [Next]_vars PROVE [SU!Next]_(SU!vars)
  OBVIOUS
<1>a. power = "asleep" <=> main = "off"
  BY DEF BootInv
<1>b. main \in {"off", "setup", "init", "connect", "wakeup", "request", "create", "done", "serving"}
  BY DEF TypeInv, TypeOK
<1>c. inited \in {0, Wifi, Zigbee, Ble, Config}
  BY DEF TypeInv, TypeOK, Protocols
<1> USE DEF NetInv, StartupState, StartupKind, SU!vars
\* Sleep and restarts.
<1>d. ASSUME StartupState' = "booting", StartupKind' = "none" PROVE [SU!Next]_(SU!vars)
  <2>1. CASE StartupState = "booting"
    <3>1. main \in {"off", "setup", "init"}
      BY <1>a, <2>1
    <3>2. QED BY <1>d, <2>1, <3>1
  <2>2. CASE StartupState # "booting"
    BY <1>d, <2>2 DEF SU!Next, SU!Boot
  <2>3. QED BY <2>1, <2>2
<1>e. ASSUME UNCHANGED <<boot, net>> PROVE [SU!Next]_(SU!vars)
  BY <1>e DEF boot, net
<1>1. CASE Reset \/ TimerWake \/ ButtonWake \/ PersistRequest \/ RestartCommand
  BY <1>1, <1>d, RestartNet DEF Reset, TimerWake, ButtonWake, PersistRequest, RestartCommand, Boot, RamCleared
<1>2. CASE ButtonPress \/ ButtonRelease
  BY <1>2, <1>d, <1>e, RestartNet DEF ButtonPress, ButtonRelease
<1>3. CASE LoadConfig
  BY <1>3, <1>a DEF LoadConfig, net
<1>4. CASE InitProtocols
  <2>1. power = "on" /\ power' = "on" /\ inited = 0 /\ ~link /\ ~link' /\ StartupState = "booting"
    BY <1>4, <1>a DEF InitProtocols, TypeInv, TypeOK
  <2>2. CASE main' = "connect"
    <3>1. inited' \in {Wifi, Config}
      BY <1>4, <2>2 DEF InitProtocols
    <3>2. StartupState' = "starting" /\ StartupKind' \in {"radio", "server"}
      BY <2>1, <2>2, <3>1 DEF Wifi, Config
    <3>3. QED BY <2>1, <3>2 DEF SU!Next, SU!Begin, SU!Kinds
  <2>3. CASE main' = "wakeup"
    <3>1. inited' \in {0, Zigbee, Ble}
      BY <1>4, <2>1, <2>3 DEF InitProtocols, SelectedProtocol, Protocols
    <3>2. CASE inited' = 0
      <4>1. StartupState' = "alone" /\ StartupKind' = StartupKind
        BY <2>1, <2>3, <3>2 DEF Zigbee, Ble
      <4>2. QED BY <2>1, <4>1 DEF SU!Next, SU!Skip
    <3>3. CASE inited' \in {Zigbee, Ble}
      <4>1. StartupState' = "up" /\ StartupKind' = "plain"
        BY <2>1, <2>3, <3>3 DEF Zigbee, Ble, Wifi, Config
      <4>2. QED BY <2>1, <4>1 DEF SU!Next, SU!Start
    <3>4. QED BY <3>1, <3>2, <3>3
  <2>4. QED BY <1>4, <2>2, <2>3 DEF InitProtocols
<1>5. CASE Connect
  <2>1. power = "on" /\ power' = "on" /\ link' /\ inited' = inited /\ main' = "wakeup"
    BY <1>5, <1>a DEF Connect, TypeInv, TypeOK
  <2>2. StartupState = "starting" /\ StartupState' = "up" /\ StartupKind' = StartupKind
    BY <1>5, <2>1 DEF Connect
  <2>3. QED BY <2>2 DEF SU!Next, SU!Succeed
<1>6. CASE ConnectFails
  <2>1. CASE inited = Wifi
    BY <1>6, <1>d, <2>1, RestartNet DEF ConnectFails
  <2>2. CASE inited # Wifi
    <3>1. /\ power = "on" /\ power' = "on" /\ ~link /\ ~link' /\ inited = Config /\ inited' = Config
          /\ main = "connect" /\ main' = "wakeup"
      BY <1>6, <1>a, <2>2 DEF ConnectFails, net, TypeInv, TypeOK
    <3>2. /\ StartupState = "starting" /\ StartupState' = "alone"
          /\ StartupKind = "server" /\ StartupKind' = "server"
      BY <3>1 DEF Config, Wifi, Zigbee, Ble
    <3>3. QED BY <3>2 DEF SU!Next, SU!GoOn
  <2>3. QED BY <2>1, <2>2
<1>7. CASE WakeupTimer \/ WakeupUndefined \/ WakeupExternal \/ CreateTasks
  <2>1. /\ UNCHANGED <<power, link, inited>>
        /\ main \in {"wakeup", "create"} /\ main' \in {"request", "create", "done", "serving"}
    BY <1>7 DEF WakeupTimer, WakeupUndefined, WakeupExternal, CreateTasks, net
  <2>2. QED BY <2>1, <1>a
<1>8. CASE Measure \/ GetConfig \/ \E b \in Batches : PostCommands(b)
  BY <1>8, <1>e DEF Measure, GetConfig, PostCommands
<1>9. CASE EnterDeepSleep
  BY <1>9, <1>d DEF EnterDeepSleep, RamCleared
<1>10. CASE IgnoreSleep \/ SendData \/ BeginCommands \/ SetField \/ Collect \/ Persist
  BY <1>10, <1>e DEF IgnoreSleep, SendData, BeginCommands, SetField, Collect, Persist
<1>11. CASE UNCHANGED vars
  BY <1>11, <1>e DEF vars
<1>12. QED
  BY <1>1, <1>2, <1>3, <1>4, <1>5, <1>6, <1>7, <1>8, <1>9, <1>10, <1>11 DEF Next, Main, EventLoop

\* What the modes assume of initialising a protocol is what Startup promises, for
\* every configuration and environment: the WiFi protocol has joined the access
\* point when app_main goes on, or the chip is restarted, and nothing changes
\* that until the boot ends (init_protocols as app_main sees it).
THEOREM UsesStartup == Spec => StartupSafety
<1>1. Init => SU!Init
  BY DEF Init, SU!Init, StartupState, StartupKind
<1>2. Init => TypeInv /\ BootInv /\ NetInv
  BY TypeInit, BootInit, NetInit
<1>3. TypeInv /\ BootInv /\ NetInv /\ [Next]_vars => (TypeInv /\ BootInv /\ NetInv)'
  BY TypeStep, BootStep, NetStep
<1>4. TypeInv /\ BootInv /\ NetInv /\ [Next]_vars => [SU!Next]_(SU!vars)
  BY StartupStep
<1>5. QED BY <1>1, <1>2, <1>3, <1>4, PTL DEF Spec, StartupSafety, SU!Safety

-----------------------------------------------------------------------------
(* What a command changes.                                                   *)

\* From the assignment to the end of the write the field has the value the
\* command gives it, and so has what is written, once it has been collected.
ChangeInv ==
  /\ loop \in {"persist", "write"} => cfg[Head(todo).key] = Head(todo).value
  /\ loop = "write" => held[Head(todo).key] = Head(todo).value

LEMMA ChangeStep ==
  ~Queries /\ TypeInv /\ BootInv /\ ChangeInv /\ [Next]_vars => ChangeInv'
<1> SUFFICES ASSUME ~Queries, TypeInv, BootInv, ChangeInv, [Next]_vars PROVE ChangeInv'
  OBVIOUS
<1>1. CASE loop' \notin {"persist", "write"}
  BY <1>1 DEF ChangeInv
<1>2. CASE UNCHANGED <<cfg, loop, todo, held>>
  BY <1>2 DEF ChangeInv
<1>3. CASE SetField
  <2>1. Head(todo) \in Commands
    BY <1>3, HeadTailProperties DEF SetField, TypeInv, TypeOK
  <2>2. Head(todo).key \in Keys
    BY <2>1 DEF Commands
  <2>3. cfg' = [cfg EXCEPT ![Head(todo).key] = Head(todo).value] /\ todo' = todo
    BY <1>3 DEF SetField
  <2>4. DOMAIN cfg = Keys
    BY DEF TypeInv, TypeOK, Configs
  <2>5. loop' = "persist"
    BY <1>3 DEF SetField
  <2>6. QED BY <2>2, <2>3, <2>4, <2>5 DEF ChangeInv
<1>4. CASE Collect
  BY <1>4 DEF Collect, ChangeInv, rtc
<1>5. CASE LoadConfig \/ WakeupExternal
  BY <1>1, <1>5 DEF LoadConfig, WakeupExternal, BootInv, task
<1>6. ASSUME ~ SetField, ~ Collect, ~ LoadConfig, ~ WakeupExternal
      PROVE  loop' \notin {"persist", "write"} \/ UNCHANGED <<cfg, loop, todo, held>>
  <2>1. CASE Reset \/ TimerWake \/ ButtonWake \/ PersistRequest \/ RestartCommand \/ EnterDeepSleep
    BY <2>1 DEF Reset, TimerWake, ButtonWake, PersistRequest, RestartCommand, EnterDeepSleep,
       Restart, Boot, RamCleared
  <2>2. CASE ButtonPress \/ ButtonRelease \/ ConnectFails
    BY <2>2 DEF ButtonPress, ButtonRelease, ConnectFails, rtc, task, Restart, Boot, RamCleared
  <2>3. CASE InitProtocols \/ Connect \/ WakeupTimer \/ WakeupUndefined \/ CreateTasks
    BY <2>3 DEF InitProtocols, Connect, WakeupTimer, WakeupUndefined, CreateTasks, rtc, task
  <2>4. CASE Measure \/ IgnoreSleep \/ SendData
    BY <2>4 DEF Measure, IgnoreSleep, SendData, rtc, task
  <2>5. ASSUME NEW b \in Batches, PostCommands(b) PROVE UNCHANGED <<cfg, loop, todo, held>>
    BY <2>5 DEF PostCommands, rtc, task
  <2>6. CASE BeginCommands \/ Persist
    BY <2>6 DEF BeginCommands, Persist
  <2>7. CASE UNCHANGED vars
    BY <2>7 DEF vars, rtc, task
  <2>8. ~ GetConfig
    BY DEF GetConfig
  <2>9. QED
    BY <1>6, <2>1, <2>2, <2>3, <2>4, <2>5, <2>6, <2>7, <2>8 DEF Next, Main, EventLoop
<1>7. QED BY <1>1, <1>2, <1>3, <1>4, <1>5, <1>6

\* A command is written from held, and a whole write leaves its value in flash.
LEMMA ChangeDone ==
  ~NvsFaults /\ TypeInv /\ ChangeInv /\ Persist =>
    /\ cfg'[Head(todo).key] = Head(todo).value
    /\ Head(todo).key \in DOMAIN nvs'
    /\ nvs'[Head(todo).key] = Head(todo).value
<1> SUFFICES ASSUME ~NvsFaults, TypeInv, ChangeInv, Persist
             PROVE  /\ cfg'[Head(todo).key] = Head(todo).value
                    /\ Head(todo).key \in DOMAIN nvs'
                    /\ nvs'[Head(todo).key] = Head(todo).value
  OBVIOUS
<1>1. loop = "write" /\ WriteConfig(held) /\ UNCHANGED cfg
  BY DEF Persist, rtc
<1>2. /\ cfg[Head(todo).key] = Head(todo).value
      /\ held[Head(todo).key] = Head(todo).value
  BY <1>1 DEF ChangeInv
<1>3. Head(todo).key \in Keys
  <2>1. Head(todo) \in Commands
    BY <1>1, HeadTailProperties DEF TypeInv, TypeOK
  <2>2. QED BY <2>1 DEF Commands
<1>4. DOMAIN nvs' = Keys /\ \A k \in Keys : nvs'[k] = held[k]
  <2>1. held \in Configs /\ DOMAIN nvs \subseteq Keys /\ nvs \in [DOMAIN nvs -> Nat]
    BY DEF TypeInv, TypeOK
  <2>2. QED BY <1>1, <2>1, WriteConfigProperties
<1>5. QED BY <1>1, <1>2, <1>3, <1>4

\* Where no client asks for the configuration and flash can be written, a command
\* that has changed it has left its value in RTC memory and in flash when it is
\* done, whatever the button, the access point and the batches before it do; a
\* reset that comes before the command is done is not covered, and a batch that was
\* dropped on a full queue does none of its commands (process_command_batch,
\* do_retransmit).
THEOREM ChangesKept == ~Queries /\ ~NvsFaults => (Spec => ChangeKept)
<1> SUFFICES ASSUME ~Queries, ~NvsFaults PROVE Spec => ChangeKept
  OBVIOUS
<1>1. Init => TypeInv /\ BootInv /\ ChangeInv
  BY TypeInit, BootInit DEF Init, ChangeInv
<1>2. TypeInv /\ BootInv /\ ChangeInv /\ [Next]_vars => (TypeInv /\ BootInv /\ ChangeInv)'
  BY TypeStep, BootStep, ChangeStep
<1> DEFINE Kept == LET change == Head(todo)
                   IN  Persist => /\ cfg'[change.key] = change.value
                                  /\ change.key \in DOMAIN nvs'
                                  /\ nvs'[change.key] = change.value
<1>3. TypeInv /\ ChangeInv => [Kept]_vars
  BY ChangeDone
<1>4. QED BY <1>1, <1>2, <1>3, PTL DEF Spec, ChangeKept
=============================================================================
