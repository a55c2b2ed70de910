------------------------------ MODULE Protocols -------------------------------
(***************************************************************************)
(* The transfer protocols of one module over its boots: the registry in    *)
(* RTC memory (components/protocol/transfer_protocol.c,                    *)
(* user_reg_init_protocols.c), joining an access point with its retries,   *)
(* event handlers and event group (prot_wifi.c, prot_config.c), the wait   *)
(* of prot_bluetooth.c, and what a transmission does to sockets and frames *)
(* (prot_wifi.c, prot_zigbee.c).  When a boot needs its protocols and when *)
(* it transmits is Lifecycle's; what is transmitted is DataLog's.          *)
(***************************************************************************)
EXTENDS Integers, Sequences, FiniteSets

CONSTANTS
  MaxRetry,      \* 128, DEVELOPMENT_MAXIMUM_RETRY
  BleThreshold,  \* 16, conn_threshold
  MaxSockets,    \* 10, CONFIG_LWIP_MAX_SOCKETS
  MaxProtocols,  \* 4, MAX_PROTOCOLS
  Active,        \* values of activated_protocol a configuration may have
  Payloads,      \* [len, sum]: length of a batch and the sum of its bytes
  MaxSends       \* bound on the batches of one boot

\* The protocols in the order register_protocols registers them, by their
\* identifier bytes.
Wifi   == 1
Zigbee == 2
Ble    == 3
Config == 255
Order  == <<Wifi, Zigbee, Ble, Config>>
Known  == {Order[i] : i \in 1..Len(Order)}
None   == 0

ASSUME ProtocolsAssumption ==
  /\ {MaxRetry, BleThreshold, MaxSends} \subseteq Nat
  /\ MaxSockets \in Nat \ {0} /\ MaxProtocols \in Nat /\ Len(Order) <= MaxProtocols
  /\ Active \subseteq Nat
  /\ Payloads \subseteq [len : Nat, sum : Nat]

Slots == 1..MaxProtocols
Cause == {"start", "disconnected", "got_ip"}

VARIABLES
  table, count,            \* prot_collection (RTC memory), protocol_count (RAM)
  active, maint,           \* the configuration this boot has read
  pc, chosen,              \* app_main, the protocol it initialises
  retry,                   \* s_retry_num
  group, bits,             \* the event group exists; its bits
  handlers, events, busy,  \* default event loop: registrations, queue, in esp_restart
  radio, address,          \* the WiFi driver; history: an address was obtained
  conn,                    \* conn_counter of prot_bluetooth.c
  sockets, sends,          \* open sockets; history: the batches of the boot
  outcome, frame           \* the last transmission, the last ZigBee frame

registry == <<table, count>>
config   == <<active, maint>>
control  == <<pc, chosen>>
signal   == <<retry, group, bits, handlers, events, busy>>
air      == <<radio, address>>
link     == <<sockets, sends, outcome, frame>>
vars     == <<registry, config, control, signal, air, conn, link>>

\* The frame of a ZigBee transmission: its length field, its size, the sum of
\* the bytes between length field and checksum, the checksum.
NoFrame == [field |-> 0, size |-> 0, sum |-> 0, check |-> 0]

Halfwords == {n \in Nat : n < 65536}
Bytes     == {n \in Nat : n < 256}

TypeOK ==
  /\ table \in [Slots -> Known \cup {None}] /\ count \in {0, Len(Order)}
  /\ active \in Active /\ maint \in BOOLEAN
  /\ pc \in {"setup", "start", "wait", "unreg_ip", "unreg_any", "delete", "ble", "ready"}
  /\ chosen \in Known \cup {None}
  /\ retry \in 0..MaxRetry /\ group \in BOOLEAN /\ bits \subseteq {"connected", "fail"}
  /\ handlers \subseteq {"any", "ip"} /\ events \in Seq(Cause) /\ Len(events) <= 2
  /\ busy \in BOOLEAN
  /\ radio \in {"idle", "joining", "joined"} /\ address \in BOOLEAN
  /\ conn \in 0..BleThreshold
  /\ sockets \in 0..MaxSockets /\ sends \in 0..MaxSends
  /\ outcome \in {"none", "sent", "failed", "no_socket", "skipped"}
  /\ frame \in [field : Halfwords, size : Nat, sum : Nat, check : Bytes]

-----------------------------------------------------------------------------
(* Boots.                                                                    *)

Empty == [s \in Slots |-> None]

RadioCleared ==
  /\ retry' = 0 /\ group' = FALSE /\ bits' = {}
  /\ handlers' = {} /\ events' = <<>> /\ busy' = FALSE
  /\ radio' = "idle" /\ address' = FALSE

LinkCleared ==
  /\ conn' = 0 /\ sockets' = 0 /\ sends' = 0
  /\ outcome' = "none" /\ frame' = NoFrame

\* Mutant of RamCleared: protocol_count is kept in RTC memory like the table.
RamClearedButCount ==
  /\ count' = count /\ RadioCleared /\ LinkCleared
  /\ active' \in Active /\ maint' \in BOOLEAN
  /\ pc' = "setup" /\ chosen' = None

\* Everything but the table is RAM.
RamCleared ==
  /\ count' = 0 /\ RadioCleared /\ LinkCleared
  /\ active' \in Active /\ maint' \in BOOLEAN
  /\ pc' = "setup" /\ chosen' = None

Init ==
  /\ table = Empty /\ count = 0
  /\ active \in Active /\ maint \in BOOLEAN
  /\ pc = "setup" /\ chosen = None
  /\ retry = 0 /\ group = FALSE /\ bits = {}
  /\ handlers = {} /\ events = <<>> /\ busy = FALSE
  /\ radio = "idle" /\ address = FALSE /\ conn = 0
  /\ sockets = 0 /\ sends = 0 /\ outcome = "none" /\ frame = NoFrame

\* Reset, panic, power cut, the restart command, the button.
Restart == pc # "setup" /\ RamCleared /\ table' = Empty

Sleep == pc = "ready" /\ RamCleared /\ UNCHANGED table

-----------------------------------------------------------------------------
(* Registration, lookup, initialisation.                                     *)

\* get_protocol_by_id_byte: the first slot with the identifier.
Lookup(t, id) == IF \E s \in Slots : t[s] = id /\ id # None THEN id ELSE None

\* register_protocols: one slot after the other, from protocol_count on.
Register ==
  /\ table' = [s \in Slots |-> IF s - count \in 1..Len(Order) THEN Order[s - count]
                               ELSE table[s]]
  /\ count' = count + Len(Order)

\* A boot that needs its protocols registers them and initialises the one the
\* configuration names, or the configuration protocol in maintenance mode.
InitProtocols ==
  /\ pc = "setup"
  /\ Register
  /\ chosen' = Lookup(table', IF maint THEN Config ELSE active)
  /\ pc' = IF chosen' \in {Wifi, Config} THEN "start"
           ELSE IF chosen' = Ble THEN "ble" ELSE "ready"
  /\ UNCHANGED <<config, signal, air, conn, link>>

SkipProtocols ==
  /\ pc = "setup" /\ ~maint
  /\ pc' = "ready"
  /\ UNCHANGED <<registry, config, chosen, signal, air, conn, link>>

-----------------------------------------------------------------------------
(* wifi_init and config_init.                                                *)

\* Event group, registrations, esp_wifi_start.
StartWifi ==
  /\ pc = "start"
  /\ pc' = "wait"
  /\ group' = TRUE /\ bits' = {} /\ handlers' = {"any", "ip"}
  /\ events' = <<"start">>
  /\ UNCHANGED <<registry, config, chosen, retry, busy, air, conn, link>>

WaitBits ==
  /\ pc = "wait" /\ bits # {}
  /\ pc' = "unreg_ip"
  /\ UNCHANGED <<registry, config, chosen, signal, air, conn, link>>

\* Mutant of UnregisterGotIp: the group is deleted in between.
UnregisterGotIpDelete ==
  /\ pc = "unreg_ip" /\ ~busy
  /\ pc' = "unreg_any" /\ handlers' = handlers \ {"ip"} /\ group' = FALSE
  /\ UNCHANGED <<registry, config, chosen, retry, bits, events, busy, air, conn, link>>

\* Unregistering takes the mutex of the event loop: no handler is running.
UnregisterGotIp ==
  /\ pc = "unreg_ip" /\ ~busy
  /\ pc' = "unreg_any" /\ handlers' = handlers \ {"ip"}
  /\ UNCHANGED <<registry, config, chosen, retry, group, bits, events, busy, air, conn, link>>

UnregisterAny ==
  /\ pc = "unreg_any" /\ ~busy
  /\ pc' = "delete" /\ handlers' = handlers \ {"any"}
  /\ UNCHANGED <<registry, config, chosen, retry, group, bits, events, busy, air, conn, link>>

DeleteGroup ==
  /\ pc = "delete"
  /\ pc' = "ready" /\ group' = FALSE
  /\ UNCHANGED <<registry, config, chosen, retry, bits, handlers, events, busy, air, conn, link>>

\* The event handlers of the two protocols, on the default event loop's task.
Deliver(e, h) ==
  /\ ~busy /\ events # <<>> /\ Head(events) = e /\ h \in handlers
  /\ events' = Tail(events)

HandleStart ==
  /\ Deliver("start", "any")
  /\ radio' = "joining"
  /\ UNCHANGED <<registry, config, control, retry, group, bits, handlers, busy,
                 address, conn, link>>

HandleGotIp ==
  /\ Deliver("got_ip", "ip")
  /\ retry' = 0 /\ bits' = bits \cup {"connected"} /\ address' = TRUE
  /\ UNCHANGED <<registry, config, control, group, handlers, busy, radio, conn, link>>

Retry ==
  /\ Deliver("disconnected", "any") /\ retry < MaxRetry
  /\ radio' = "joining" /\ retry' = retry + 1
  /\ UNCHANGED <<registry, config, control, group, bits, handlers, busy,
                 address, conn, link>>

\* Mutant of GiveUp: the WiFi protocol goes on like the other one.
GiveUpQuietly ==
  /\ Deliver("disconnected", "any") /\ retry >= MaxRetry
  /\ bits' = bits \cup {"fail"}
  /\ UNCHANGED <<registry, config, control, retry, group, handlers, busy, air, conn, link>>

\* The WiFi protocol sets the bit and restarts the chip in the handler, the
\* configuration protocol only sets the bit.
GiveUp ==
  /\ Deliver("disconnected", "any") /\ retry >= MaxRetry
  /\ bits' = bits \cup {"fail"}
  /\ busy' = (chosen = Wifi)
  /\ UNCHANGED <<registry, config, control, retry, group, handlers, air, conn, link>>

RestartChip == busy /\ Restart

\* Nobody is registered any more.
Discard ==
  /\ ~busy /\ events # <<>>
  /\ (IF Head(events) = "got_ip" THEN "ip" ELSE "any") \notin handlers
  /\ events' = Tail(events)
  /\ UNCHANGED <<registry, config, control, retry, group, bits, handlers, busy,
                 air, conn, link>>

\* The driver reports how an attempt to join ended, and loses what it had.
JoinEnds ==
  /\ radio = "joining"
  /\ \/ radio' = "joined" /\ events' = Append(events, "got_ip")
     \/ radio' = "idle"   /\ events' = Append(events, "disconnected")
  /\ UNCHANGED <<registry, config, control, retry, group, bits, handlers, busy,
                 address, conn, link>>

Lose ==
  /\ radio = "joined"
  /\ radio' = "idle" /\ events' = Append(events, "disconnected")
  /\ UNCHANGED <<registry, config, control, retry, group, bits, handlers, busy,
                 address, conn, link>>

\* ble_init waits for a connection its callbacks would report; none is
\* registered, so it waits conn_threshold times.
BleWait ==
  /\ pc = "ble"
  /\ IF conn < BleThreshold
     THEN conn' = conn + 1 /\ UNCHANGED pc
     ELSE pc' = "ready" /\ UNCHANGED conn
  /\ UNCHANGED <<registry, config, chosen, signal, air, link>>

-----------------------------------------------------------------------------
(* send_data of the event loop task: one batch through the active protocol.  *)

Send(p) ==
  /\ pc = "ready" /\ ~maint /\ chosen = p /\ sends < MaxSends
  /\ sends' = sends + 1
  /\ UNCHANGED <<registry, config, control, signal, air, conn>>

\* A socket per batch; sendto needs a connection, and may fail with one.
WifiSend ==
  /\ Send(Wifi) /\ radio = "joined" /\ sockets < MaxSockets
  /\ outcome' = "sent"
  /\ UNCHANGED <<sockets, frame>>

\* The early return leaves the socket open.
WifiSendFails ==
  /\ Send(Wifi) /\ sockets < MaxSockets
  /\ outcome' = "failed"
  /\ sockets' = sockets + 1
  /\ UNCHANGED frame

WifiNoSocket ==
  /\ Send(Wifi) /\ sockets = MaxSockets
  /\ outcome' = "no_socket"
  /\ UNCHANGED <<sockets, frame>>

\* The bytes of TRANSMIT_FRAME_PARAMS: 0x10, 0x01, two of 0xff, zeroes.
ParamsLen == 14
ParamsSum == 527
EmptySize == 18

Word16(n) == n % 65536
Byte(n)   == n % 256

\* Mutant of Frame: the length field counts the payload and its start byte.
FrameShort(p) ==
  LET local == Word16(p.len)
      acc   == Word16(ParamsLen - 1 + local)
      sum   == ParamsSum + p.sum
  IN  [field |-> 256 * (acc \div 256) + Byte(acc),
       size  |-> EmptySize + local,
       sum   |-> sum,
       check |-> Byte(65280 - Byte(Word16(sum)) - 1)]

\* zigbee_send: lengths and checksum in uint16_t, stored byte by byte.
Frame(p) ==
  LET local == Word16(p.len)
      acc   == Word16(ParamsLen + local)
      sum   == ParamsSum + p.sum
  IN  [field |-> 256 * (acc \div 256) + Byte(acc),
       size  |-> EmptySize + local,
       sum   |-> sum,
       check |-> Byte(65280 - Byte(Word16(sum)) - 1)]

ZigbeeSend ==
  /\ Send(Zigbee)
  /\ \E p \in Payloads :
       IF p.len = 0 THEN outcome' = "skipped" /\ UNCHANGED frame
       ELSE outcome' = "sent" /\ frame' = Frame(p)
  /\ UNCHANGED sockets

\* ble_send without a connection.
BleSend ==
  /\ Send(Ble)
  /\ outcome' = "skipped"
  /\ UNCHANGED <<sockets, frame>>

-----------------------------------------------------------------------------
Main ==
  \/ InitProtocols \/ SkipProtocols \/ StartWifi \/ WaitBits
  \/ UnregisterGotIp \/ UnregisterAny \/ DeleteGroup \/ BleWait

SystemEvents == HandleStart \/ HandleGotIp \/ Retry \/ GiveUp \/ Discard \/ RestartChip

Transmission == WifiSend \/ WifiSendFails \/ WifiNoSocket \/ ZigbeeSend \/ BleSend

Next == Main \/ SystemEvents \/ JoinEnds \/ Lose \/ Transmission \/ Sleep \/ Restart

\* Both tasks run and every attempt to join ends; the access point need not be
\* there, nothing need be sent, nobody need restart the module.
Fairness == WF_vars(Main) /\ WF_vars(SystemEvents) /\ WF_vars(JoinEnds)

Spec == Init /\ [][Next]_vars /\ Fairness

-----------------------------------------------------------------------------
(* What must hold.                                                           *)

\* However often a module sleeps, wakes and registers its protocols again, the
\* table in RTC memory is written within its bounds, and has every protocol
\* once or, before the first registration, none (register_protocol).
RegistryWhole ==
  /\ count <= MaxProtocols
  /\ \/ table = Empty /\ chosen = None
     \/ \A p \in Known : Cardinality({s \in Slots : table[s] = p}) = 1

\* As long as an event can reach the handler of a protocol, the event group it
\* signals exists: events that come late, after the retries are used up or an
\* address was obtained, find no handler (wifi_init, config_init).
SignalsLiveGroup == handlers # {} \/ busy => group

\* The receiver of a ZigBee frame finds its end and a matching checksum: the
\* length field counts all but delimiter, length and checksum, and the bytes it
\* counts sum up with the checksum to 0xff (zigbee_send).
FrameWellFormed ==
  frame # NoFrame =>
    /\ frame.field = frame.size - 4
    /\ (frame.sum + frame.check) % 256 = 255

\* What app_main and Lifecycle rely on: initialising ends, and the WiFi protocol
\* comes out of it only with an address, or restarts the chip; late
\* disconnections and used-up retries race with the wait and the unregistering.
StartupState ==
  IF pc = "setup" THEN "booting"
  ELSE IF pc # "ready" THEN "starting"
  ELSE IF chosen = None \/ (chosen \in {Wifi, Config} /\ ~address) THEN "alone"
  ELSE "up"

StartupKind ==
  IF chosen = None THEN "none"
  ELSE IF chosen = Wifi THEN "radio"
  ELSE IF chosen = Config THEN "server"
  ELSE "plain"

SU == INSTANCE Startup WITH state <- StartupState, kind <- StartupKind

StartupSpec == SU!Spec
=============================================================================
