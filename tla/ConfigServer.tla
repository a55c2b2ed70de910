----------------------------- MODULE ConfigServer -----------------------------
(***************************************************************************)
(* Maintenance mode seen from a client: the server task                    *)
(* (config_recv and do_retransmit of components/protocol/prot_config.c)    *)
(* with its connection and its receive buffer, the queue to the event loop *)
(* task, and the parser of command batches there                           *)
(* (process_command_batch of components/command/command.c), byte by byte.  *)
(* What a command does to the configuration is Lifecycle's, what erasing   *)
(* does to the data partition DataLog's.  A request arrives in one piece.  *)
(***************************************************************************)
EXTENDS Integers, SequencesExt

CONSTANTS
  Batches,    \* command batches a client may send: sequences of [op, data]
  Others,     \* its other requests: sequences of bytes
  BufSize,    \* 1021, the bytes of rx_buffer a request may fill
  QueueSize,  \* 32, EVENT_RECEIVE_DATA_QUEUE_SIZE
  Garbage,    \* what uninitialised and foreign memory may hold
  Faults      \* accept fails, a client disappears without closing

\* First bytes of the requests, and the commands.
Echo        == 11
GetConfig   == 12
RunBatch    == 13
DumpData    == 14
IsMaint     == 15
RestartChip == 4
Ops         == 1..5

Bytes    == 0..255
Commands == [op : Bytes, data : Seq(Bytes)]

\* A command on the wire: identifier, length, parameters.
Encode(c)   == <<c.op, Len(c.data)>> \o c.data
BatchReq(b) == [bytes |-> <<RunBatch>> \o FlattenSeq([j \in DOMAIN b |-> Encode(b[j])]),
                cmds  |-> b]
Requests    == {BatchReq(b) : b \in Batches} \cup {[bytes |-> o, cmds |-> <<>>] : o \in Others}
NoRequest   == [bytes |-> <<>>, cmds |-> <<>>]

ASSUME ServerAssumption ==
  /\ \A b \in Batches : b \in Seq(Commands) /\ \A j \in DOMAIN b : Len(b[j].data) \in Bytes
  /\ \A o \in Others : o \in Seq(Bytes) /\ o # <<>> /\ o[1] # RunBatch
  /\ BufSize \in Nat \ {0} /\ \A r \in Requests : Len(r.bytes) <= BufSize
  /\ QueueSize \in Nat \ {0}
  /\ Garbage \subseteq Bytes /\ Garbage # {} /\ Faults \in BOOLEAN

VARIABLES
  srv, bound,    \* the server task; a listening socket has the port
  sock, wire,    \* its connection, what arrived there
  rx,            \* rx_buffer, behind the byte a request begins with
  conn, asked,   \* the client: its connection, the request it has no answer to
  queue,         \* events with command batches
  run, halting   \* the batch being executed; vTaskDelay before esp_restart

server == <<srv, bound, sock, wire, rx>>
client == <<conn, asked>>
loop   == <<queue, run, halting>>
vars   == <<server, client, loop>>

Unknown == 256
Fresh   == [j \in 1..(BufSize - 1) |-> Unknown]
Events  == [args : Seq(Bytes), sent : Seq(Commands)]
NoRun   == [args |-> <<>>, sent |-> <<>>, at |-> 0, done |-> <<>>]
Runs    == [args : Seq(Bytes), sent : Seq(Commands),
            at : Nat, done : Seq(Commands)]

TypeOK ==
  /\ srv \in {"bind", "accept", "recv", "ended"} /\ bound \in BOOLEAN
  /\ sock \in {"none", "live", "dead", "orphan"} /\ wire \in Requests \cup {NoRequest}
  /\ rx \in [1..(BufSize - 1) -> Bytes \cup {Unknown}]
  /\ conn \in BOOLEAN /\ asked \in Requests \cup {NoRequest}
  /\ queue \in Seq(Events) /\ Len(queue) <= QueueSize
  /\ run \in Runs /\ halting \in BOOLEAN

Init ==
  /\ srv = "bind" /\ bound = FALSE /\ sock = "none" /\ wire = NoRequest /\ rx = Fresh
  /\ conn = FALSE /\ asked = NoRequest
  /\ queue = <<>> /\ run = NoRun /\ halting = FALSE

-----------------------------------------------------------------------------
(* The client: one request at a time, on one connection.                     *)

\* The listening socket accepts into its backlog, whoever serves it.
Connect ==
  /\ ~conn /\ bound
  /\ conn' = TRUE
  /\ UNCHANGED <<server, asked, loop>>

Ask(r) ==
  /\ conn /\ asked = NoRequest
  /\ asked' = r
  /\ wire' = IF sock = "live" THEN r ELSE wire
  /\ UNCHANGED <<srv, bound, sock, rx, conn, loop>>

\* A request on its way may be received all the same.
Disconnect ==
  /\ conn
  /\ conn' = FALSE /\ asked' = NoRequest
  /\ IF sock = "live"
     THEN sock' = "dead" /\ wire' \in {wire, NoRequest}
     ELSE UNCHANGED <<sock, wire>>
  /\ UNCHANGED <<srv, bound, rx, loop>>

\* No FIN reaches the server, whose recv waits without a timeout.
Vanish ==
  /\ Faults /\ conn
  /\ conn' = FALSE /\ asked' = NoRequest
  /\ sock' = IF sock = "live" THEN "orphan" ELSE sock
  /\ UNCHANGED <<srv, bound, wire, rx, loop>>

-----------------------------------------------------------------------------
(* The server task: config_recv.                                             *)

Bind ==
  /\ srv = "bind" /\ ~bound
  /\ srv' = "accept" /\ bound' = TRUE
  /\ UNCHANGED <<sock, wire, rx, client, loop>>

\* The socket of the previous round still has the port: the task deletes itself.
BindFails ==
  /\ srv = "bind" /\ bound
  /\ srv' = "ended"
  /\ UNCHANGED <<bound, sock, wire, rx, client, loop>>

Accept ==
  /\ srv = "accept" /\ conn
  /\ srv' = "recv" /\ sock' = "live" /\ wire' = asked
  /\ UNCHANGED <<bound, rx, client, loop>>

\* Leaves the inner loop; the outer one makes another socket.
AcceptFails ==
  /\ Faults /\ srv = "accept"
  /\ srv' = "bind"
  /\ UNCHANGED <<bound, sock, wire, rx, client, loop>>

\* recv returns nothing or an error; the buffer of do_retransmit is gone.
Close ==
  /\ srv = "recv" /\ sock = "dead" /\ wire = NoRequest
  /\ srv' = "accept" /\ sock' = "none" /\ rx' = Fresh
  /\ UNCHANGED <<bound, wire, client, loop>>

-----------------------------------------------------------------------------
(* do_retransmit: one request.                                               *)

\* recv overwrites the beginning of the buffer and leaves the rest; the first
\* byte is overwritten each time, and in between by a batch's length.
Receive(kinds) ==
  /\ srv = "recv" /\ wire # NoRequest /\ wire.bytes[1] \in kinds
  /\ wire' = NoRequest
  /\ rx' = Tail(wire.bytes) \o SubSeq(rx, Len(wire.bytes), BufSize - 1)
  /\ UNCHANGED <<srv, bound, sock, conn>>

Reply == asked' = IF sock = "live" THEN NoRequest ELSE asked

Answer ==
  /\ Receive({Echo, GetConfig, IsMaint})
  /\ Reply
  /\ UNCHANGED <<loop>>

\* Both ends of the range are needed, and an empty range is not answered.
Dump ==
  /\ Receive({DumpData})
  /\ (Len(wire.bytes) >= 9 /\ Reply) \/ UNCHANGED asked
  /\ UNCHANGED <<loop>>

Ignore ==
  /\ Receive(Bytes \ {Echo, GetConfig, RunBatch, DumpData, IsMaint})
  /\ UNCHANGED <<asked, loop>>

\* Mutant of Post: the queue takes any number of events.
PostUnbounded(q, e) == Append(q, e)

\* esp_event_post_to gives up after a tick when the queue is full.
Post(q, e) == IF Len(q) < QueueSize THEN Append(q, e) ELSE q

\* The event has as many bytes as the request, without its first byte: the last
\* one is whatever follows the request in the buffer.
ArgsOf(r) ==
  LET n    == Len(r.bytes)
      last == IF n < BufSize /\ rx[n] # Unknown THEN {rx[n]} ELSE Garbage
  IN  {Append(Tail(r.bytes), g) : g \in last}

\* Mutant of HandleBatch: only a batch that was posted is acknowledged.
HandleBatchUnacked ==
  /\ Receive({RunBatch})
  /\ IF Len(queue) < QueueSize THEN Reply ELSE UNCHANGED asked
  /\ \E a \in ArgsOf(wire) : queue' = Post(queue, [args |-> a, sent |-> wire.cmds])
  /\ UNCHANGED <<run, halting>>

\* The batch is acknowledged whether or not it could be posted.
HandleBatch ==
  /\ Receive({RunBatch})
  /\ Reply
  /\ \E a \in ArgsOf(wire) : queue' = Post(queue, [args |-> a, sent |-> wire.cmds])
  /\ UNCHANGED <<run, halting>>

-----------------------------------------------------------------------------
(* The event loop task: process_command_batch.                               *)

Begin ==
  /\ run = NoRun /\ queue # <<>>
  /\ queue' = Tail(queue)
  /\ run' = [args |-> Head(queue).args, sent |-> Head(queue).sent, at |-> 0, done |-> <<>>]
  /\ UNCHANGED <<server, client, halting>>

\* args[k]; what follows the event in memory is not the program's.
ByteAt(k) == IF k < Len(run.args) THEN {run.args[k + 1]} ELSE Garbage

At == run.at
Op == run.args[At + 1]
InBatch == run # NoRun /\ ~halting /\ At < Len(run.args)

\* The parameters, as far as they lie in the event.
Params(l) == SubSeq(run.args, At + 3,
                    IF At + 2 + l <= Len(run.args) THEN At + 2 + l ELSE Len(run.args))

\* Mutant of Advance: the loop's own increment is forgotten.
AdvanceShort(l) == At + l + 1

\* i += args[i + 1] + 1, and the loop's increment.
Advance(l) == At + l + 2

\* Mutant of Execute: the command returns from the function.
ExecuteOne ==
  /\ InBatch /\ Op \in Ops
  /\ \E l \in ByteAt(At + 1) \ {0} :
       /\ run' = [run EXCEPT !.at   = Len(run.args),
                             !.done = Append(@, [op |-> Op, data |-> Params(l)])]
  /\ halting' = (Op = RestartChip)
  /\ UNCHANGED <<server, client, queue>>

Execute ==
  /\ InBatch /\ Op \in Ops
  /\ \E l \in ByteAt(At + 1) \ {0} :
       /\ run' = [run EXCEPT !.at   = Advance(l),
                             !.done = Append(@, [op |-> Op, data |-> Params(l)])]
  /\ halting' = (Op = RestartChip)
  /\ UNCHANGED <<server, client, queue>>

\* The end of the batch, a command without parameters, an unknown one.
End ==
  /\ run # NoRun /\ ~halting
  /\ At < Len(run.args) => 0 \in ByteAt(At + 1) \/ Op \notin Ops
  /\ run' = NoRun
  /\ UNCHANGED <<server, client, queue, halting>>

\* esp_restart: the next boot is in maintenance mode again.
Restart ==
  /\ halting
  /\ srv' = "bind" /\ bound' = FALSE /\ sock' = "none" /\ wire' = NoRequest /\ rx' = Fresh
  /\ conn' = FALSE /\ asked' = NoRequest
  /\ queue' = <<>> /\ run' = NoRun /\ halting' = FALSE

-----------------------------------------------------------------------------
Client    == Connect \/ Disconnect \/ Vanish \/ \E r \in Requests : Ask(r)
Server    == Bind \/ BindFails \/ Accept \/ Close \/ Answer \/ Dump \/ Ignore \/ HandleBatch
EventLoop == Begin \/ Execute \/ End \/ Restart

Next == Client \/ Server \/ AcceptFails \/ EventLoop

\* The two tasks run; clients do what they like.
Spec == Init /\ [][Next]_vars /\ WF_vars(Server) /\ WF_vars(EventLoop)

-----------------------------------------------------------------------------
(* What must hold.                                                           *)

\* What a batch asks for: its commands up to the first one that is unknown or
\* has no parameters, or up to a restart.
Stops(c)    == c.op \notin Ops \/ c.data = <<>>
Accepted(b) == {j \in DOMAIN b : \A k \in 1..j : ~Stops(b[k]) /\ (k < j => b[k].op # RestartChip)}
Count(b)    == IF Accepted(b) = {} THEN 0 ELSE Max(Accepted(b))

\* The commands executed are those of the batch, in their order and with their
\* parameters; a batch that was read to its end may be followed by a single
\* command that nobody sent, begun by the byte the server appends
\* (do_retransmit and process_command_batch, whatever the buffer held before).
ExecutesSent ==
  LET n == Count(run.sent)
  IN  /\ \A j \in DOMAIN run.done : j <= n => run.done[j] = run.sent[j]
      /\ Len(run.done) <= n + (IF n = Len(run.sent) THEN 1 ELSE 0)

\* The program stops executing a batch only when it has done all of that.
ExecutesAll == [][run # NoRun /\ run' = NoRun => Len(run.done) >= Count(run.sent)]_vars

\* A request the server knows is answered, unless the client leaves, or the
\* server task has ended or still serves a client that disappeared.
RequestAnswered ==
  (asked # NoRequest /\ asked.bytes[1] \in {Echo, GetConfig, RunBatch, IsMaint})
    ~> (asked = NoRequest \/ srv = "ended" \/ sock = "orphan")

\* No command is executed that was not sent.
\* README.md:181 "to give the user the ability to directly communicate with the
\* sensor module in order to change configuration properties or trigger specific
\* procedures manually".
OnlySent == Len(run.done) <= Len(run.sent)
=============================================================================
