--------------------------- MODULE Protocols_proofs ----------------------------
(***************************************************************************)
(* Theorems about Protocols, for every number of retries, waits, sockets,  *)
(* slots and batches.                                                      *)
(***************************************************************************)
EXTENDS Protocols, SequenceTheorems, FiniteSetTheorems, TLAPS

-----------------------------------------------------------------------------
(* The registry and the event queue.                                         *)

\* What the table has after the registration of an empty one.
Full == [s \in Slots |-> IF s \in 1..4 THEN Order[s] ELSE None]

LEMMA OrderIs ==
  /\ Len(Order) = 4 /\ Known = {1, 2, 3, 255} /\ None = 0
  /\ Order[1] = 1 /\ Order[2] = 2 /\ Order[3] = 3 /\ Order[4] = 255
<1>1. Len(Order) = 4
  BY DEF Order
<1>2. Order[1] = 1 /\ Order[2] = 2 /\ Order[3] = 3 /\ Order[4] = 255
  BY DEF Order, Wifi, Zigbee, Ble, Config
<1>3. 1..4 = {1, 2, 3, 4}
  OBVIOUS
<1>4. Known = {Order[i] : i \in {1, 2, 3, 4}}
  BY <1>1, <1>3 DEF Known
<1>5. QED BY <1>1, <1>2, <1>4 DEF None

\* Registering from slot 0 gives the full table, whatever was there.
LEMMA RegisterFull ==
  ASSUME table \in {Empty, Full}, count = 0, Register
  PROVE  table' = Full /\ count' = 4
<1>1. \A s \in Slots : s - count = s
  BY DEF Slots
<1>2. ASSUME NEW s \in Slots, s \notin 1..4 PROVE table[s] = None
  BY <1>2 DEF Empty, Full
<1>3. table' = [s \in Slots |-> IF s \in 1..4 THEN Order[s] ELSE table[s]]
  BY <1>1, OrderIs DEF Register
<1>4. QED BY <1>2, <1>3, OrderIs DEF Full, Register

LEMMA FullType == Full \in [Slots -> Known \cup {None}] /\ Empty \in [Slots -> Known \cup {None}]
<1>1. 1..4 = {1, 2, 3, 4}
  OBVIOUS
<1>2. QED BY <1>1, OrderIs DEF Full, Empty

\* Every protocol has one slot of the full table.
LEMMA FullOnce == \A p \in Known : Cardinality({s \in Slots : Full[s] = p}) = 1
<1>1. 1..4 = {1, 2, 3, 4} /\ 1..4 \subseteq Slots
  BY OrderIs, ProtocolsAssumption DEF ProtocolsAssumption, Slots
<1>2. ASSUME NEW p \in Known PROVE \E i \in Slots : {s \in Slots : Full[s] = p} = {i}
  <2>1. PICK i \in 1..4 : Order[i] = p /\ \A j \in 1..4 : Order[j] = p => j = i
    BY <1>1, OrderIs
  <2>2. p # None
    BY OrderIs
  <2>3. \A s \in Slots : Full[s] = p <=> s = i
    BY <1>1, <2>1, <2>2 DEF Full
  <2>4. QED BY <1>1, <2>1, <2>3
<1>3. QED BY <1>2, FS_Singleton

LEMMA LookupType == ASSUME NEW t, NEW id PROVE Lookup(t, id) \in {id, None}
BY DEF Lookup

\* Only what is registered is found.
LEMMA LookupKnown ==
  ASSUME NEW t \in [Slots -> Known \cup {None}], NEW id
  PROVE  Lookup(t, id) \in Known \cup {None}
BY DEF Lookup

LEMMA LookupEmpty == ASSUME NEW id PROVE Lookup(Empty, id) = None
BY DEF Lookup, Empty

\* The queues of events that occur.
Queues == {<<>>, <<"start">>, <<"got_ip">>, <<"disconnected">>, <<"got_ip", "disconnected">>}

LEMMA QueueType == \A q \in Queues : q \in Seq(Cause) /\ Len(q) <= 2
<1>1. <<>> \in Seq(Cause) /\ Len(<<>>) = 0
  OBVIOUS
<1>2. \A c \in Cause : <<c>> \in Seq(Cause) /\ Len(<<c>>) = 1
  OBVIOUS
<1>3. \A c, d \in Cause : <<c, d>> \in Seq(Cause) /\ Len(<<c, d>>) = 2
  OBVIOUS
<1>4. "start" \in Cause /\ "got_ip" \in Cause /\ "disconnected" \in Cause
  BY DEF Cause
<1>5. ASSUME NEW q \in Queues PROVE q \in Seq(Cause) /\ Len(q) <= 2
  <2>1. \/ q = <<>> \/ (\E c \in Cause : q = <<c>>) \/ (\E c, d \in Cause : q = <<c, d>>)
    BY <1>4, Zenon DEF Queues
  <2>2. CASE q = <<>>
    BY <1>1, <2>2
  <2>3. ASSUME NEW c \in Cause, q = <<c>> PROVE q \in Seq(Cause) /\ Len(q) <= 2
    BY <1>2, <2>3
  <2>4. ASSUME NEW c \in Cause, NEW d \in Cause, q = <<c, d>>
        PROVE  q \in Seq(Cause) /\ Len(q) <= 2
    BY <1>3, <2>4
  <2>5. QED BY <2>1, <2>2, <2>3, <2>4
<1>6. QED BY <1>5

LEMMA QueueFacts ==
  /\ Append(<<>>, "got_ip") = <<"got_ip">>
  /\ Append(<<>>, "disconnected") = <<"disconnected">>
  /\ Append(<<"got_ip">>, "disconnected") = <<"got_ip", "disconnected">>
  /\ \A q \in Queues : q # <<>> =>
       /\ Tail(q) \in {<<>>, <<"disconnected">>}
       /\ Head(q) # "got_ip" => Tail(q) = <<>>
<1>1. \A c : Append(<<>>, c) = <<c>>
  OBVIOUS
<1>2. \A c, d : Append(<<c>>, d) = <<c, d>>
  <2> TAKE c, d
  <2> DEFINE S == {c, d}
  <2>1. <<c>> \in Seq(S) /\ Len(<<c>>) = 1 /\ <<c>>[1] = c
    OBVIOUS
  <2>2. <<c, d>> \in Seq(S) /\ Len(<<c, d>>) = 2 /\ <<c, d>>[1] = c /\ <<c, d>>[2] = d
    OBVIOUS
  <2>3. /\ Append(<<c>>, d) \in Seq(S) /\ Len(Append(<<c>>, d)) = 2
        /\ Append(<<c>>, d)[1] = c /\ Append(<<c>>, d)[2] = d
    BY <2>1, AppendProperties
  <2> HIDE DEF S
  <2>4. \A i \in 1..2 : Append(<<c>>, d)[i] = <<c, d>>[i]
    BY <2>2, <2>3
  <2>5. QED BY <2>2, <2>3, <2>4, SeqEqual
<1>3. \A c : Tail(<<c>>) = <<>> /\ Head(<<c>>) = c
  OBVIOUS
<1>4. \A c, d : Tail(<<c, d>>) = <<d>> /\ Head(<<c, d>>) = c
  OBVIOUS
<1>5. QED BY <1>1, <1>2, <1>3, <1>4 DEF Queues

-----------------------------------------------------------------------------
(* Type correctness.                                                         *)

\* The driver has at most two events under way.
TypeInv ==
  /\ TypeOK
  /\ events \in Queues
  /\ radio = "joining" => events = <<>>
  /\ radio = "joined" => events \in {<<>>, <<"got_ip">>}
  /\ pc \in {"setup", "start"} => events = <<>> /\ radio = "idle"
  /\ pc = "setup" => count = 0

\* Arithmetic in 16 and 8 bits.
LEMMA Widths ==
  /\ \A n \in Nat : Word16(n) \in Halfwords /\ Byte(n) \in Bytes
  /\ \A n \in Halfwords : Word16(n) = n
  /\ \A n \in Nat : 256 * (n \div 256) + Byte(n) = n
<1>1. ASSUME NEW n \in Nat PROVE Word16(n) \in Halfwords /\ Byte(n) \in Bytes
  BY DEF Word16, Byte, Halfwords, Bytes
<1>2. ASSUME NEW n \in Halfwords PROVE Word16(n) = n
  BY DEF Word16, Halfwords
<1>3. ASSUME NEW n \in Nat PROVE 256 * (n \div 256) + Byte(n) = n
  BY DEF Byte
<1>4. QED BY <1>1, <1>2, <1>3

\* A frame's fields have their widths.
LEMMA FrameType ==
  ASSUME NEW p \in Payloads
  PROVE  /\ Frame(p) \in [field : Halfwords, size : Nat, sum : Nat, check : Bytes]
         /\ Frame(p).field = Word16(ParamsLen + Word16(p.len))
         /\ Frame(p).size = EmptySize + Word16(p.len)
         /\ Frame(p).sum \in Nat
         /\ Frame(p).check = Byte(65279 - Byte(Word16(Frame(p).sum)))
<1>1. p.len \in Nat /\ p.sum \in Nat
  BY ProtocolsAssumption DEF ProtocolsAssumption
<1>2. PICK local \in Halfwords : local = Word16(p.len)
  BY <1>1, Widths
<1>3. ParamsLen + local \in Nat /\ EmptySize + local \in Nat
  BY DEF ParamsLen, EmptySize, Halfwords
<1>4. PICK acc \in Halfwords : acc = Word16(ParamsLen + local)
  BY <1>3, Widths
<1>5. PICK sum \in Nat : sum = ParamsSum + p.sum
  BY <1>1 DEF ParamsSum
<1>6. PICK low \in Bytes : low = Byte(Word16(sum))
  BY <1>5, Widths DEF Halfwords
<1>7. 65280 - low - 1 = 65279 - low /\ 65279 - low \in Nat
  BY <1>6 DEF Bytes
<1>8. Byte(65279 - low) \in Bytes
  BY <1>7, Widths
<1>9. 256 * (acc \div 256) + Byte(acc) = acc
  BY <1>4, Widths DEF Halfwords
<1>10. Frame(p) = [field |-> 256 * (acc \div 256) + Byte(acc), size |-> EmptySize + local,
                   sum |-> sum, check |-> Byte(65280 - low - 1)]
  BY <1>2, <1>4, <1>5, <1>6 DEF Frame
<1>11. Frame(p) = [field |-> acc, size |-> EmptySize + local, sum |-> sum,
                   check |-> Byte(65279 - low)]
  BY <1>7, <1>9, <1>10
<1>12. QED BY <1>2, <1>3, <1>4, <1>6, <1>8, <1>11

LEMMA Cleared ==
  /\ 0 \in 0..MaxRetry /\ 0 \in 0..BleThreshold /\ 0 \in 0..MaxSockets /\ 0 \in 0..MaxSends
  /\ <<>> \in Queues /\ <<>> \in Seq(Cause) /\ Len(<<>>) <= 2
  /\ NoFrame \in [field : Halfwords, size : Nat, sum : Nat, check : Bytes]
<1>1. 0 \in 0..MaxRetry /\ 0 \in 0..BleThreshold /\ 0 \in 0..MaxSockets /\ 0 \in 0..MaxSends
  BY ProtocolsAssumption DEF ProtocolsAssumption
<1>2. <<>> \in Queues /\ <<>> \in Seq(Cause) /\ Len(<<>>) <= 2
  BY QueueType DEF Queues
<1>3. NoFrame \in [field : Halfwords, size : Nat, sum : Nat, check : Bytes]
  BY DEF NoFrame, Halfwords, Bytes
<1>4. QED BY <1>1, <1>2, <1>3

LEMMA TypeInit == Init => TypeInv
<1> SUFFICES ASSUME Init PROVE TypeInv
  OBVIOUS
<1> USE DEF Init
<1>1. TypeOK
  <2>1. /\ retry \in 0..MaxRetry /\ conn \in 0..BleThreshold /\ sockets \in 0..MaxSockets
        /\ sends \in 0..MaxSends
    BY Cleared
  <2>2. events \in Seq(Cause) /\ Len(events) <= 2 /\ bits = {} /\ handlers = {}
    BY Cleared
  <2>3. frame \in [field : Halfwords, size : Nat, sum : Nat, check : Bytes]
    BY Cleared
  <2>4. table \in [Slots -> Known \cup {None}]
    BY FullType
  <2>5. QED BY <2>1, <2>2, <2>3, <2>4 DEF TypeOK
<1>2. events \in Queues
  BY Cleared
<1>3. QED BY <1>1, <1>2 DEF TypeInv

\* What a boot starts with.
LEMMA TypeCleared ==
  ASSUME TypeInv, RamCleared, table' \in [Slots -> Known \cup {None}]
  PROVE  TypeInv'
<1> USE DEF RamCleared, RadioCleared, LinkCleared
<1>1. TypeOK'
  <2>1. /\ retry' \in 0..MaxRetry /\ conn' \in 0..BleThreshold /\ sockets' \in 0..MaxSockets
        /\ sends' \in 0..MaxSends
    BY Cleared
  <2>2. events' \in Seq(Cause) /\ Len(events') <= 2 /\ bits' = {} /\ handlers' = {}
    BY Cleared
  <2>3. frame' \in [field : Halfwords, size : Nat, sum : Nat, check : Bytes]
    BY Cleared
  <2>4. QED BY <2>1, <2>2, <2>3 DEF TypeOK
<1>2. events' \in Queues
  BY Cleared
<1>3. QED BY <1>1, <1>2 DEF TypeInv

LEMMA TypeNext == TypeInv /\ [Next]_vars => TypeInv'
<1> SUFFICES ASSUME TypeInv, [Next]_vars PROVE TypeInv'
  OBVIOUS
<1> USE DEF TypeInv, TypeOK, registry, config, control, signal, air, link
<1>1. CASE InitProtocols
  <2>1. table' \in [Slots -> Known \cup {None}]
    <3>1. \A s \in Slots : s - count \in 1..Len(Order) => Order[s - count] \in Known
      BY OrderIs DEF Known
    <3>2. QED BY <1>1, <3>1 DEF InitProtocols, Register
  <2>2. count' \in {0, Len(Order)}
    BY <1>1, OrderIs DEF InitProtocols, Register
  <2>3. chosen' \in Known \cup {None}
    BY <1>1, <2>1, LookupKnown DEF InitProtocols
  <2>4. QED BY <1>1, <2>1, <2>2, <2>3 DEF InitProtocols
<1>2. CASE SkipProtocols
  BY <1>2 DEF SkipProtocols
<1>3. CASE StartWifi
  <2>1. <<"start">> \in Queues
    BY DEF Queues
  <2>2. events' \in Queues /\ events' \in Seq(Cause) /\ Len(events') <= 2
    BY <1>3, <2>1, QueueType DEF StartWifi
  <2>3. QED BY <1>3, <2>2 DEF StartWifi
<1>4. CASE WaitBits
  BY <1>4 DEF WaitBits
<1>5. CASE UnregisterGotIp
  BY <1>5 DEF UnregisterGotIp
<1>6. CASE UnregisterAny
  BY <1>6 DEF UnregisterAny
<1>7. CASE DeleteGroup
  BY <1>7 DEF DeleteGroup
<1>8. CASE BleWait
  BY <1>8, ProtocolsAssumption DEF BleWait, ProtocolsAssumption
<1>9. CASE HandleStart
  BY <1>9, QueueFacts, QueueType DEF HandleStart, Deliver, Queues
<1>10. CASE HandleGotIp
  <2>1. events' \in {<<>>, <<"disconnected">>} /\ Tail(events) = events'
    BY <1>10, QueueFacts DEF HandleGotIp, Deliver
  <2>2. events' \in Queues
    BY <2>1 DEF Queues
  <2>3. radio # "joining" /\ (radio = "joined" => events' = <<>>)
    BY <1>10, <2>1, QueueFacts DEF HandleGotIp, Deliver
  <2>4. 0 \in 0..MaxRetry
    BY Cleared
  <2>5. QED BY <1>10, <2>2, <2>3, <2>4, QueueType DEF HandleGotIp, Deliver
<1>11. CASE Retry
  <2>1. events' = <<>>
    BY <1>11, QueueFacts DEF Retry, Deliver
  <2>2. retry' \in 0..MaxRetry
    BY <1>11, ProtocolsAssumption DEF Retry, ProtocolsAssumption
  <2>3. pc \notin {"setup", "start"}
    BY <1>11 DEF Retry, Deliver
  <2>4. QED BY <1>11, <2>1, <2>2, <2>3, Cleared DEF Retry
<1>12. CASE GiveUp
  <2>1. events' = <<>> /\ radio # "joining"
    BY <1>12, QueueFacts DEF GiveUp, Deliver
  <2>2. QED BY <1>12, <2>1, Cleared DEF GiveUp
<1>13. CASE Discard
  <2>1. events' \in {<<>>, <<"disconnected">>} /\ radio # "joining"
    BY <1>13, QueueFacts DEF Discard
  <2>2. radio = "joined" => events' = <<>>
    BY <1>13, QueueFacts DEF Discard
  <2>3. events' \in Queues
    BY <2>1 DEF Queues
  <2>4. QED BY <1>13, <2>1, <2>2, <2>3, QueueType DEF Discard
<1>14. CASE JoinEnds
  <2>1. events' \in {<<"got_ip">>, <<"disconnected">>} /\ (radio' = "joined" => events' = <<"got_ip">>)
    BY <1>14, QueueFacts DEF JoinEnds
  <2>2. events' \in Queues
    BY <2>1 DEF Queues
  <2>3. radio' \in {"idle", "joined"}
    BY <1>14 DEF JoinEnds
  <2>4. events' \in Seq(Cause) /\ Len(events') <= 2
    BY <2>2, QueueType
  <2>5. QED BY <1>14, <2>1, <2>2, <2>3, <2>4 DEF JoinEnds
<1>15. CASE Lose
  <2>1. events' \in {<<"disconnected">>, <<"got_ip", "disconnected">>}
    BY <1>15, QueueFacts DEF Lose
  <2>2. events' \in Queues
    BY <2>1 DEF Queues
  <2>3. events' \in Seq(Cause) /\ Len(events') <= 2
    BY <2>2, QueueType
  <2>4. QED BY <1>15, <2>2, <2>3 DEF Lose
<1>16. CASE Transmission
  <2>1. sends < MaxSends /\ sends' = sends + 1
    BY <1>16 DEF Transmission, WifiSend, WifiSendFails, WifiNoSocket, ZigbeeSend, BleSend, Send
  <2>2. sockets' \in {sockets, sockets + 1}
        /\ (sockets' = sockets + 1 => sockets < MaxSockets)
    BY <1>16 DEF Transmission, WifiSend, WifiSendFails, WifiNoSocket, ZigbeeSend, BleSend
  <2>3. sends' \in 0..MaxSends
    BY <2>1, ProtocolsAssumption DEF ProtocolsAssumption
  <2>4. sockets' \in 0..MaxSockets
    BY <2>2, ProtocolsAssumption DEF ProtocolsAssumption
  <2>5. frame' \in [field : Halfwords, size : Nat, sum : Nat, check : Bytes]
    <3>1. frame' = frame \/ \E p \in Payloads : frame' = Frame(p)
      BY <1>16 DEF Transmission, WifiSend, WifiSendFails, WifiNoSocket, ZigbeeSend, BleSend
    <3>2. QED BY <3>1, FrameType
  <2>6. outcome' \in {"sent", "failed", "no_socket", "skipped"}
    BY <1>16 DEF Transmission, WifiSend, WifiSendFails, WifiNoSocket, ZigbeeSend, BleSend
  <2>7. UNCHANGED <<registry, config, control, signal, air, conn>>
    BY <1>16 DEF Transmission, WifiSend, WifiSendFails, WifiNoSocket, ZigbeeSend, BleSend, Send
  <2>8. QED BY <2>3, <2>4, <2>5, <2>6, <2>7
<1>17. CASE Sleep
  BY <1>17, TypeCleared DEF Sleep
<1>18. CASE Restart
  BY <1>18, TypeCleared, FullType DEF Restart
<1>19. CASE UNCHANGED vars
  BY <1>19 DEF vars
<1>20. QED
  BY <1>1, <1>2, <1>3, <1>4, <1>5, <1>6, <1>7, <1>8, <1>9, <1>10, <1>11, <1>12, <1>13,
     <1>14, <1>15, <1>16, <1>17, <1>18, <1>19
  DEF Next, Main, SystemEvents, RestartChip

\* Every variable of the protocols has its type, for every number of retries,
\* waits, sockets, slots and batches; the events under way are at most two
\* (event_handler of prot_wifi.c and prot_config.c).
THEOREM TypeCorrect == Spec => []TypeOK
<1>1. TypeInv => TypeOK
  BY DEF TypeInv
<1>2. QED BY <1>1, TypeInit, TypeNext, PTL DEF Spec

-----------------------------------------------------------------------------
(* The registry.                                                             *)

\* The table is empty or full, and full once something was looked up in it; a
\* boot starts to count from nothing.
RegInv ==
  /\ table \in {Empty, Full}
  /\ count \in {0, 4}
  /\ pc = "setup" => count = 0 /\ chosen = None
  /\ chosen # None => table = Full

LEMMA RegInit == Init => RegInv
BY DEF Init, RegInv

LEMMA RegNext == RegInv /\ [Next]_vars => RegInv'
<1> SUFFICES ASSUME RegInv, [Next]_vars PROVE RegInv'
  OBVIOUS
<1>1. CASE InitProtocols
  <2>1. table' = Full /\ count' = 4 /\ pc' # "setup"
    BY <1>1, RegisterFull DEF InitProtocols, RegInv
  <2>2. QED BY <2>1 DEF RegInv
<1>2. CASE UNCHANGED <<table, count, chosen>> /\ (pc' = "setup" => pc = "setup")
  BY <1>2 DEF RegInv
<1>3. CASE Sleep \/ Restart
  BY <1>3 DEF Sleep, Restart, RamCleared, RegInv
<1>4. CASE Main /\ ~InitProtocols
  BY <1>2, <1>4 DEF Main, SkipProtocols, StartWifi, WaitBits, UnregisterGotIp, UnregisterAny,
     DeleteGroup, BleWait, registry
<1>5. CASE SystemEvents \/ JoinEnds \/ Lose
  BY <1>2, <1>3, <1>5 DEF SystemEvents, HandleStart, HandleGotIp, Retry, GiveUp, Discard,
     RestartChip, JoinEnds, Lose, registry, control
<1>6. CASE Transmission
  BY <1>2, <1>6 DEF Transmission, WifiSend, WifiSendFails, WifiNoSocket, ZigbeeSend, BleSend,
     Send, registry, control
<1>7. CASE UNCHANGED vars
  BY <1>2, <1>7 DEF vars, registry, control
<1>8. QED BY <1>1, <1>3, <1>4, <1>5, <1>6, <1>7 DEF Next

\* However often a module sleeps, wakes and registers again, with any number of
\* slots that is enough for its protocols, the table in RTC memory has every
\* protocol once and is never written beyond its end (register_protocol).
THEOREM TableWhole == Spec => []RegistryWhole
<1>1. RegInv => RegistryWhole
  <2> SUFFICES ASSUME RegInv PROVE RegistryWhole
    OBVIOUS
  <2>1. count <= MaxProtocols
    BY OrderIs, ProtocolsAssumption DEF RegInv, ProtocolsAssumption
  <2>2. CASE table = Full
    BY <2>1, <2>2, FullOnce, Zenon DEF RegistryWhole
  <2>3. CASE table = Empty
    BY <2>1, <2>2, <2>3 DEF RegistryWhole, RegInv
  <2>4. QED BY <2>2, <2>3 DEF RegInv
<1>2. QED BY <1>1, RegInit, RegNext, PTL DEF Spec

-----------------------------------------------------------------------------
(* The event group and the outcome of joining.                               *)

\* Between the creation of the event group and its deletion.
Joining == {"wait", "unreg_ip", "unreg_any"}

\* Handlers are registered only while the group exists, one of them a step less;
\* a set bit means an address, or, for the WiFi protocol, a chip that restarts
\* and no longer lets its handlers be unregistered.
SignalInv ==
  /\ pc \in Joining => group
  /\ pc \notin Joining => handlers = {} /\ ~busy
  /\ handlers \subseteq {"any", "ip"}
  /\ pc = "unreg_any" => handlers \subseteq {"any"}
  /\ pc \in {"unreg_ip", "unreg_any", "delete"} => bits # {}
  /\ bits \subseteq {"connected", "fail"}
  /\ "connected" \in bits => address
  /\ "fail" \in bits /\ chosen = Wifi => busy
  /\ pc \in Joining \cup {"start", "delete"} => chosen \in {Wifi, Config}
  /\ pc = "ble" => chosen = Ble
  /\ pc = "ready" /\ chosen = Wifi => address
  /\ pc = "setup" => chosen = None /\ bits = {}
  /\ pc \in {"start", "ble"} => bits = {}

LEMMA SignalInit == Init => SignalInv
BY DEF Init, SignalInv, Joining, None

LEMMA TransmissionLeaves ==
  ASSUME Transmission
  PROVE  UNCHANGED <<pc, chosen, bits, handlers, busy, group, address>>
BY DEF Transmission, WifiSend, WifiSendFails, WifiNoSocket, ZigbeeSend, BleSend, Send,
   control, signal, air

LEMMA SignalNext == SignalInv /\ [Next]_vars => SignalInv'
<1> SUFFICES ASSUME SignalInv, [Next]_vars PROVE SignalInv'
  OBVIOUS
<1> USE DEF SignalInv, Joining, registry, config, control, signal, air, link
<1>1. CASE InitProtocols
  BY <1>1 DEF InitProtocols, Wifi, Ble, Config
<1>2. CASE SkipProtocols
  BY <1>2 DEF SkipProtocols, None, Wifi
<1>3. CASE StartWifi
  BY <1>3 DEF StartWifi
<1>4. CASE WaitBits
  BY <1>4 DEF WaitBits
<1>5. CASE UnregisterGotIp
  BY <1>5 DEF UnregisterGotIp
<1>6. CASE UnregisterAny
  BY <1>6 DEF UnregisterAny
<1>7. CASE DeleteGroup
  BY <1>7 DEF DeleteGroup
<1>8. CASE BleWait
  BY <1>8 DEF BleWait, Ble, Wifi
<1>9. CASE HandleStart
  BY <1>9 DEF HandleStart, Deliver
<1>10. CASE HandleGotIp
  BY <1>10 DEF HandleGotIp, Deliver
<1>11. CASE Retry
  BY <1>11 DEF Retry, Deliver
<1>12. CASE GiveUp
  BY <1>12 DEF GiveUp, Deliver
<1>13. CASE Discard
  BY <1>13 DEF Discard
<1>14. CASE JoinEnds
  BY <1>14 DEF JoinEnds
<1>15. CASE Lose
  BY <1>15 DEF Lose
<1>16. CASE Transmission
  <2>1. /\ pc' = pc /\ chosen' = chosen /\ bits' = bits /\ handlers' = handlers
        /\ busy' = busy /\ group' = group /\ address' = address
    BY <1>16, TransmissionLeaves
  <2>2. QED BY ONLY <2>1, SignalInv DEF SignalInv, Joining
<1>17. CASE Sleep \/ Restart
  BY <1>17 DEF Sleep, Restart, RamCleared, RadioCleared, None, Wifi
<1>18. CASE UNCHANGED vars
  BY <1>18 DEF vars
<1>19. QED
  BY <1>1, <1>2, <1>3, <1>4, <1>5, <1>6, <1>7, <1>8, <1>9, <1>10, <1>11, <1>12, <1>13,
     <1>14, <1>15, <1>16, <1>17, <1>18
  DEF Next, Main, SystemEvents, RestartChip

\* No event reaches a handler whose event group is gone, whatever the order of
\* events, waiting and unregistering (wifi_init, config_init).
THEOREM GroupLives == Spec => []SignalsLiveGroup
<1>1. SignalInv => SignalsLiveGroup
  BY DEF SignalInv, SignalsLiveGroup, Joining
<1>2. QED BY <1>1, SignalInit, SignalNext, PTL DEF Spec

\* Whatever the access point does and however late its events come, initialising
\* comes out with what Startup promises: the WiFi protocol with an address, or the
\* chip restarts (event_handler of prot_wifi.c, wifi_init, config_init, ble_init).
THEOREM ImplementsStartup == Spec => SU!Safety
<1> USE DEF StartupState, StartupKind, SU!States, SU!Kinds
<1>1. Init => SU!Init
  BY DEF Init, SU!Init
<1>2. SignalInv /\ SignalInv' /\ [Next]_vars => [SU!Next]_(SU!vars)
  <2> SUFFICES ASSUME SignalInv, SignalInv', [Next]_vars PROVE [SU!Next]_(SU!vars)
    OBVIOUS
  <2> USE DEF SignalInv, Joining, SU!vars
  <2>1. CASE InitProtocols
    <3>1. CASE pc' = "ready" /\ chosen' = None
      BY <2>1, <3>1 DEF InitProtocols, SU!Next, SU!Skip
    <3>2. CASE pc' = "ready" /\ chosen' # None
      BY <2>1, <3>2 DEF InitProtocols, SU!Next, SU!Start
    <3>3. CASE pc' \in {"start", "ble"}
      BY <2>1, <3>3 DEF InitProtocols, SU!Next, SU!Begin, None, Wifi, Config, Ble
    <3>4. QED BY <2>1, <3>1, <3>2, <3>3 DEF InitProtocols
  <2>2. CASE SkipProtocols
    BY <2>2 DEF SkipProtocols, SU!Next, SU!Skip
  <2>3. CASE DeleteGroup
    BY <2>3 DEF DeleteGroup, air, SU!Next, SU!Succeed, SU!GoOn, None, Wifi, Config
  <2>4. CASE BleWait
    BY <2>4 DEF BleWait, SU!Next, SU!Succeed, None, Wifi, Config, Ble
  <2>5. CASE Sleep \/ Restart
    BY <2>5 DEF Sleep, Restart, RamCleared, SU!Next, SU!Boot
  <2>6. CASE StartWifi \/ WaitBits \/ UnregisterGotIp \/ UnregisterAny
    BY <2>6 DEF StartWifi, WaitBits, UnregisterGotIp, UnregisterAny
  <2>7. CASE HandleStart \/ HandleGotIp \/ Retry \/ GiveUp \/ Discard \/ JoinEnds \/ Lose
    <3>1. UNCHANGED <<pc, chosen>> /\ (pc = "ready" => address' = address)
      BY <2>7 DEF HandleStart, HandleGotIp, Retry, GiveUp, Discard, JoinEnds, Lose, Deliver,
         control, air
    <3>2. QED BY <3>1
  <2>8. CASE Transmission
    BY <2>8, TransmissionLeaves
  <2>9. CASE UNCHANGED vars
    BY <2>9 DEF vars, control, air
  <2>10. QED
    BY <2>1, <2>2, <2>3, <2>4, <2>5, <2>6, <2>7, <2>8, <2>9
    DEF Next, Main, SystemEvents, RestartChip
<1>3. QED BY <1>1, <1>2, SignalInit, SignalNext, PTL DEF Spec, SU!Safety

-----------------------------------------------------------------------------
(* Frames.                                                                   *)

\* The batches are shorter than the length field of a frame can say; those of
\* send_data have at most 2048 bytes.
ShortBatches == \A p \in Payloads : p.len <= 65521

\* The bytes between length field and checksum, and the checksum, sum up to 0xff
\* in eight bits, through the two narrowings of the sum.
LEMMA ChecksumCloses ==
  ASSUME NEW n \in Nat
  PROVE  (n + Byte(65279 - Byte(Word16(n)))) % 256 = 255
<1>1. Byte(Word16(n)) = n % 256
  BY DEF Byte, Word16
<1>2. PICK r \in 0..255, q \in Nat : n = 256 * q + r /\ r = n % 256
  OBVIOUS
<1>3. (65279 - r) % 256 = 255 - r
  BY <1>2
<1>4. (n + (255 - r)) % 256 = 255
  BY <1>2
<1>5. QED BY <1>1, <1>2, <1>3, <1>4 DEF Byte

\* Frames of batches of every length that fits and every content carry the
\* length and the checksum their receiver computes (zigbee_send).
THEOREM FramesWellFormed == ShortBatches => (Spec => []FrameWellFormed)
<1> SUFFICES ASSUME ShortBatches PROVE Spec => []FrameWellFormed
  OBVIOUS
<1>1. Init => FrameWellFormed
  BY DEF Init, FrameWellFormed
<1>2. FrameWellFormed /\ [Next]_vars => FrameWellFormed'
  <2> SUFFICES ASSUME FrameWellFormed, [Next]_vars PROVE FrameWellFormed'
    OBVIOUS
  <2>1. CASE frame' = frame \/ frame' = NoFrame
    BY <2>1 DEF FrameWellFormed
  <2>2. ASSUME NEW p \in Payloads, frame' = Frame(p) PROVE FrameWellFormed'
    <3>1. p.len \in Halfwords /\ 14 + p.len \in Halfwords /\ p.len \in Nat
      BY ProtocolsAssumption DEF ProtocolsAssumption, ShortBatches, Halfwords
    <3>2. Word16(p.len) = p.len /\ Word16(14 + p.len) = 14 + p.len
      BY <3>1, Widths
    <3>3. Frame(p).field = 14 + p.len /\ Frame(p).size = 18 + p.len
      BY <3>2, FrameType DEF ParamsLen, EmptySize
    <3>4. (Frame(p).sum + Frame(p).check) % 256 = 255
      BY FrameType, ChecksumCloses
    <3>5. QED BY <2>2, <3>1, <3>3, <3>4 DEF FrameWellFormed
  <2>3. CASE Transmission
    BY <2>1, <2>2, <2>3 DEF Transmission, WifiSend, WifiSendFails, WifiNoSocket, ZigbeeSend, BleSend
  <2>4. CASE Sleep \/ Restart
    BY <2>1, <2>4 DEF Sleep, Restart, RamCleared, LinkCleared
  <2>5. CASE Main
    BY <2>1, <2>5 DEF Main, InitProtocols, SkipProtocols, StartWifi, WaitBits, UnregisterGotIp,
       UnregisterAny, DeleteGroup, BleWait, link
  <2>6. CASE SystemEvents \/ JoinEnds \/ Lose
    BY <2>1, <2>4, <2>6 DEF SystemEvents, HandleStart, HandleGotIp, Retry, GiveUp, Discard,
       RestartChip, JoinEnds, Lose, link
  <2>7. QED BY <2>1, <2>3, <2>4, <2>5, <2>6 DEF Next, vars, link
<1>3. QED BY <1>1, <1>2, PTL DEF Spec
=============================================================================
