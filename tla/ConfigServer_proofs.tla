-------------------------- MODULE ConfigServer_proofs --------------------------
(***************************************************************************)
(* The server task and the batch parser, for any batches and requests, any *)
(* sizes of the buffer and of the queue, and any contents of memory.       *)
(***************************************************************************)
EXTENDS ConfigServer, Induction, SequenceTheorems, TLAPS

-----------------------------------------------------------------------------
(* Concatenation of the parts of a batch.                                    *)

\* FlattenSeq concatenates one sequence after the other.
LEMMA FlattenSeqProperties ==
  ASSUME NEW S, NEW s \in Seq(Seq(S))
  PROVE  \E f \in [0..Len(s) -> Seq(S)] :
           /\ f[0] = << >>
           /\ \A i \in 1..Len(s) : f[i] = f[i - 1] \o s[i]
           /\ FlattenSeq(s) = f[Len(s)]
<1> DEFINE N == Len(s)
           step == [i \in 1..N |-> [q \in Seq(S) |-> q \o s[i]]]
           Def(h) == h = [i \in 1..N |-> IF i = 1 THEN s[i] ELSE h[i - 1] \o s[i]]
           c == CHOOSE h : Def(h)
<1>1. N \in Nat /\ s \in [1..N -> Seq(S)]
  BY LenProperties
<1>2. PICK f \in [0..N -> Seq(S)] : f[0] = << >> /\ \A i \in 1..N : f[i] = f[i - 1] \o s[i]
  <2>1. step \in [1..N -> [Seq(S) -> Seq(S)]]
    BY <1>1, ConcatProperties
  <2>2. << >> \in Seq(S)
    OBVIOUS
  <2>3. \A q \in Seq(S), i \in 1..N : step[i][q] = q \o s[i]
    OBVIOUS
  <2> HIDE DEF step, N
  <2>4. \E f : Iterates(f, N, Seq(S), << >>, step)
    BY <1>1, <2>1, <2>2, BoundedRecursion
  <2>5. PICK f \in [0..N -> Seq(S)] : f[0] = << >> /\ \A i \in 1..N : f[i] = step[i][f[i - 1]]
    BY <2>4 DEF Iterates
  <2>6. \A i \in 1..N : i - 1 \in 0..N
    BY <1>1
  <2>7. \A i \in 1..N : f[i] = f[i - 1] \o s[i]
    BY <2>3, <2>5, <2>6, Zenon
  <2>8. QED BY <2>5, <2>7
<1>3. CASE N = 0
  <2>1. s = << >>
    BY <1>3, EmptySeq
  <2>2. FlattenSeq(s) = f[N]
    BY <1>2, <1>3, <2>1 DEF FlattenSeq
  <2>3. QED BY <1>2, <2>2
<1>4. CASE N # 0
  <2> DEFINE h == [i \in 1..N |-> f[i]]
  <2>1. \A i \in 1..N : f[i] = IF i = 1 THEN s[i] ELSE h[i - 1] \o s[i]
    <3> SUFFICES ASSUME NEW i \in 1..N PROVE f[i] = IF i = 1 THEN s[i] ELSE h[i - 1] \o s[i]
      OBVIOUS
    <3>1. CASE i = 1
      <4>1. 1 \in 1..N /\ s[1] \in Seq(S) /\ 1 - 1 = 0
        BY <1>1, <3>1
      <4>2. f[1] = << >> \o s[1]
        BY <1>2, <4>1, Zenon
      <4>3. QED BY <3>1, <4>1, <4>2, ConcatEmptySeq
    <3>2. CASE i # 1
      <4>1. i - 1 \in 1..N
        BY <1>1, <3>2
      <4>2. QED BY <1>2, <3>2, <4>1
    <3>3. \A a \in Nat, b \in Nat : \A k \in 1..b : a + k \in 1..(a + b)
      OBVIOUS
    <3>4. QED BY <3>1, <3>2, <3>3, Zenon
  <2>2. Def(h)
    <3> HIDE DEF N
    <3>1. QED BY <2>1
  <2>3. Def(c)
    BY <2>2
  <2>4. \A i \in 1..N : c[i] = IF i = 1 THEN s[i] ELSE c[i - 1] \o s[i]
    BY <2>3
  <2> DEFINE T == {0} \cup {m \in 1..N : c[m] = f[m]}
  <2> HIDE DEF c, N
  <2>5. ASSUME NEW k \in 1..N, k - 1 \in T PROVE k \in T
    <3>1. c[k] = (IF k = 1 THEN s[k] ELSE c[k - 1] \o s[k]) /\ f[k] = f[k - 1] \o s[k]
      BY <1>2, <2>4, Zenon
    <3>2. CASE k = 1
      <4>1. s[1] \in Seq(S) /\ k - 1 = 0
        BY <1>1, <3>2
      <4>2. QED BY <1>2, <3>1, <3>2, <4>1, ConcatEmptySeq
    <3>3. CASE k # 1
      <4>1. c[k - 1] = f[k - 1]
        BY <2>5, <3>3
      <4>2. QED BY <3>1, <3>3, <4>1
    <3>4. QED BY <3>2, <3>3
  <2>6. N \in T
    <3>1. 0 \in T
      OBVIOUS
    <3> HIDE DEF T
    <3>2. \A n \in 0..N : n \in T
      BY <1>1, <2>5, <3>1, BoundedInduction
    <3>3. QED BY <1>1, <3>2
  <2>7. FlattenSeq(s) = c[N]
    BY <1>4 DEF FlattenSeq, c, N
  <2>8. QED BY <1>2, <1>4, <2>6, <2>7 DEF N
<1>5. QED BY <1>3, <1>4

\* The parts of a sequence of sequences lie in F one after the other, part j
\* behind o[j].
Parts(F, s, o) ==
  /\ o \in [1..(Len(s) + 1) -> 0..Len(F)]
  /\ o[1] = 0 /\ o[Len(s) + 1] = Len(F)
  /\ \A j \in 1..Len(s) : o[j + 1] = o[j] + Len(s[j])
  /\ \A j \in 1..Len(s) : \A k \in 1..Len(s[j]) : F[o[j] + k] = s[j][k]

\* Where the parts of a flattened sequence lie in it.
LEMMA FlattenSeqLayout ==
  ASSUME NEW S, NEW s \in Seq(Seq(S))
  PROVE  FlattenSeq(s) \in Seq(S) /\ \E o : Parts(FlattenSeq(s), s, o)
<1> DEFINE N == Len(s)
           F == FlattenSeq(s)
<1>1. PICK f \in [0..N -> Seq(S)] :
        f[0] = << >> /\ (\A i \in 1..N : f[i] = f[i - 1] \o s[i]) /\ F = f[N]
  BY FlattenSeqProperties
<1>2. N \in Nat /\ s \in [1..N -> Seq(S)]
  BY LenProperties
<1>3. \A i \in 0..N : Len(f[i]) \in Nat
  BY LenProperties
<1> DEFINE Starts(p, q) == Len(p) <= Len(q) /\ \A k \in 1..Len(p) : q[k] = p[k]
<1> HIDE DEF N, F
<1>4. ASSUME NEW i \in 1..N
      PROVE  /\ i - 1 \in 0..N /\ Len(f[i]) = Len(f[i - 1]) + Len(s[i])
             /\ Starts(f[i - 1], f[i])
             /\ \A k \in 1..Len(s[i]) : f[i][Len(f[i - 1]) + k] = s[i][k]
  <2> DEFINE p == f[i - 1]
             q == s[i]
  <2>1. i - 1 \in 0..N /\ i \in 0..N
    BY <1>2
  <2>2. p \in Seq(S) /\ q \in Seq(S) /\ f[i] = p \o q
    BY <1>1, <1>2, <2>1
  <2> HIDE DEF p, q
  <2>3. /\ Len(p \o q) = Len(p) + Len(q) /\ Len(p) \in Nat /\ Len(q) \in Nat
        /\ \A k \in 1..(Len(p) + Len(q)) : (p \o q)[k] = IF k <= Len(p) THEN p[k] ELSE q[k - Len(p)]
    BY <2>2, ConcatProperties, LenProperties
  <2>4. Starts(p, p \o q)
    BY <2>3
  <2>5. \A k \in 1..Len(q) : (p \o q)[Len(p) + k] = q[k]
    BY <2>3
  <2>6. QED BY <2>1, <2>2, <2>3, <2>4, <2>5 DEF p, q
<1>5. \A n \in 0..N : \A j \in 0..n : Starts(f[j], f[n])
  <2> DEFINE T == {n \in 0..N : \A j \in 0..n : Starts(f[j], f[n])}
  <2>1. 0 \in T
    BY <1>2, <1>3
  <2>2. ASSUME NEW n \in 1..N, n - 1 \in T PROVE n \in T
    <3> SUFFICES ASSUME NEW j \in 0..n PROVE Starts(f[j], f[n])
      BY <1>2
    <3>1. CASE j = n
      BY <3>1, <1>3
    <3>2. CASE j # n
      <4>1. j \in 0..(n - 1)
        BY <3>2
      <4>1a. Starts(f[n - 1], f[n])
        BY <1>4
      <4>2. Starts(f[j], f[n - 1])
        BY <4>1, <2>2
      <4>3. QED BY <4>1, <4>1a, <4>2, <1>2, <1>3
    <3>3. \A a \in Nat, b \in Nat : \A k \in 1..b : a + k \in 1..(a + b)
      OBVIOUS
    <3>4. QED BY <3>1, <3>2, <3>3, Zenon
  <2>3. \A n \in 0..N : n \in T
    <3> HIDE DEF T
    <3>1. QED BY <1>2, <2>1, <2>2, BoundedInduction
  <2>4. QED BY <2>3
<1> DEFINE o == [j \in 1..(N + 1) |-> Len(f[j - 1])]
<1>6. o \in [1..(N + 1) -> 0..Len(F)]
  <2> SUFFICES ASSUME NEW j \in 1..(N + 1) PROVE Len(f[j - 1]) \in 0..Len(F)
    OBVIOUS
  <2>1. j - 1 \in 0..N /\ N \in 0..N
    BY <1>2
  <2>2. Starts(f[j - 1], f[N]) /\ Len(f[j - 1]) \in Nat /\ Len(f[N]) \in Nat
    BY <1>3, <1>5, <2>1
  <2>3. QED BY <1>1, <2>2
<1>7. o[1] = 0 /\ o[N + 1] = Len(F)
  BY <1>1, <1>2
<1>8. ASSUME NEW j \in 1..N
      PROVE  /\ o[j + 1] = o[j] + Len(s[j])
             /\ \A k \in 1..Len(s[j]) : F[o[j] + k] = s[j][k]
  <2>1. o[j] = Len(f[j - 1]) /\ o[j + 1] = Len(f[j])
    BY <1>2
  <2>2. Starts(f[j], f[N])
    BY <1>2, <1>5
  <2>3. \A k \in 1..Len(s[j]) : Len(f[j - 1]) + k \in 1..Len(f[j])
    <3>1. Len(f[j - 1]) \in Nat /\ Len(s[j]) \in Nat
      BY <1>2, <1>3, <1>4, LenProperties
    <3>2. Len(f[j]) = Len(f[j - 1]) + Len(s[j])
      BY <1>4
    <3>3. \A a \in Nat, b \in Nat : \A k \in 1..b : a + k \in 1..(a + b)
      OBVIOUS
    <3>4. QED BY <3>1, <3>2, <3>3, Zenon
  <2>4. QED BY <1>1, <1>4, <2>1, <2>2, <2>3
<1>9. F \in Seq(S)
  BY <1>1, <1>2
<1>10. Parts(F, s, o)
  <2> HIDE DEF o
  <2>1. QED BY <1>6, <1>7, <1>8 DEF N, Parts
<1>11. QED BY <1>9, <1>10 DEF F

-----------------------------------------------------------------------------
(* A batch and the event made of it.                                         *)

\* args holds the encoded commands of b, command j at offset o[j], and one byte
\* more.
LaidOut(args, b, o) ==
  /\ o \in [1..(Len(b) + 1) -> 0..(Len(args) - 1)]
  /\ o[1] = 0 /\ o[Len(b) + 1] = Len(args) - 1
  /\ \A j \in 1..Len(b) :
       /\ o[j + 1] = o[j] + Len(b[j].data) + 2
       /\ args[o[j] + 1] = b[j].op /\ args[o[j] + 2] = Len(b[j].data)
       /\ \A k \in 1..Len(b[j].data) : args[o[j] + 2 + k] = b[j].data[k]

\* What the program may find in the event of a batch.
EventOf(args, b) ==
  /\ b \in Batches /\ args \in Seq(Bytes)
  /\ \E o \in [1..(Len(b) + 1) -> 0..(Len(args) - 1)] : LaidOut(args, b, o)

\* A command is encoded in two bytes more than its parameters have.
LEMMA EncodeProperties ==
  ASSUME NEW c \in Commands, Len(c.data) \in Bytes
  PROVE  /\ Encode(c) \in Seq(Bytes) /\ Len(c.data) \in Nat
         /\ Len(Encode(c)) = Len(c.data) + 2
         /\ Encode(c)[1] = c.op /\ Encode(c)[2] = Len(c.data)
         /\ \A k \in 1..Len(c.data) : Encode(c)[2 + k] = c.data[k]
<1> DEFINE h == <<c.op, Len(c.data)>>
           d == c.data
<1>1. h \in Seq(Bytes) /\ Len(h) = 2 /\ h[1] = c.op /\ h[2] = Len(d)
  BY DEF Commands
<1>2. d \in Seq(Bytes) /\ Len(d) \in Nat
  BY LenProperties DEF Commands
<1>3. Encode(c) = h \o d
  BY DEF Encode
<1> HIDE DEF h, d
<1>4. /\ h \o d \in Seq(Bytes) /\ Len(h \o d) = Len(h) + Len(d)
      /\ \A i \in 1..(Len(h) + Len(d)) : (h \o d)[i] = IF i <= Len(h) THEN h[i] ELSE d[i - Len(h)]
  BY <1>1, <1>2, ConcatProperties
<1>5. \A k \in 1..Len(d) : (h \o d)[2 + k] = d[k]
  BY <1>1, <1>2, <1>4
<1>6. (h \o d)[1] = h[1] /\ (h \o d)[2] = h[2]
  BY <1>1, <1>2, <1>4
<1>7. QED BY <1>1, <1>2, <1>3, <1>4, <1>5, <1>6 DEF d

\* Without its first byte and with whatever byte follows it, the request of a
\* batch is an event of the batch (process_request of prot_config.c).
LEMMA BatchReqProperties ==
  ASSUME ServerAssumption, NEW b \in Batches
  PROVE  LET r == BatchReq(b)
         IN  /\ r.bytes \in Seq(Bytes) /\ r.bytes # << >> /\ r.bytes[1] = RunBatch
             /\ r.cmds = b
             /\ \A g \in Bytes : EventOf(Append(Tail(r.bytes), g), b)
<1> DEFINE s == [j \in DOMAIN b |-> Encode(b[j])]
           F == FlattenSeq(s)
           r == BatchReq(b)
<1>1. b \in Seq(Commands) /\ Len(b) \in Nat /\ DOMAIN b = 1..Len(b)
  BY LenProperties DEF ServerAssumption
<1>2. \A j \in 1..Len(b) : b[j] \in Commands /\ Len(b[j].data) \in Bytes
  BY <1>1, ElementOfSeq DEF ServerAssumption
<1>3. s \in Seq(Seq(Bytes)) /\ Len(s) = Len(b) /\ \A j \in 1..Len(b) : s[j] = Encode(b[j])
  BY <1>1, <1>2, EncodeProperties
<1> HIDE DEF s
<1>4. F \in Seq(Bytes) /\ Len(F) \in Nat
  BY <1>3, FlattenSeqLayout, LenProperties
<1>5. PICK o : Parts(F, s, o)
  BY <1>3, FlattenSeqLayout
<1> HIDE DEF F
<1>6. r.bytes = <<RunBatch>> \o F /\ r.cmds = b
  BY DEF BatchReq, F, s
<1>7. /\ <<RunBatch>> \o F \in Seq(Bytes) /\ <<RunBatch>> \o F # << >>
      /\ (<<RunBatch>> \o F)[1] = RunBatch
      /\ Tail(<<RunBatch>> \o F) = F
  <2>1. <<RunBatch>> \in Seq(Bytes)
    BY DEF RunBatch, Bytes
  <2>2. QED BY <1>4, <2>1
<1>8. ASSUME NEW g \in Bytes PROVE EventOf(Append(F, g), b)
  <2> DEFINE a == Append(F, g)
  <2>1. a \in Seq(Bytes) /\ Len(a) = Len(F) + 1 /\ \A i \in 1..Len(F) : a[i] = F[i]
    BY <1>4, AppendProperties
  <2> HIDE DEF a
  <2>2. o \in [1..(Len(b) + 1) -> 0..(Len(a) - 1)] /\ o[1] = 0 /\ o[Len(b) + 1] = Len(a) - 1
    BY <1>1, <1>3, <1>4, <1>5, <2>1 DEF Parts
  <2>3. ASSUME NEW j \in 1..Len(b)
        PROVE  /\ o[j + 1] = o[j] + Len(b[j].data) + 2
               /\ a[o[j] + 1] = b[j].op /\ a[o[j] + 2] = Len(b[j].data)
               /\ \A k \in 1..Len(b[j].data) : a[o[j] + 2 + k] = b[j].data[k]
    <3> DEFINE l == Len(b[j].data)
               p == o[j]
    <3>1. /\ l \in Nat /\ Len(s[j]) = l + 2 /\ s[j][1] = b[j].op /\ s[j][2] = l
          /\ \A k \in 1..l : s[j][2 + k] = b[j].data[k]
      BY <1>2, <1>3, EncodeProperties
    <3>2. j \in 1..(Len(b) + 1) /\ j + 1 \in 1..(Len(b) + 1)
      BY <1>1
    <3>3. o[j + 1] = p + Len(s[j]) /\ p \in 0..Len(F) /\ o[j + 1] \in 0..Len(F)
      BY <1>3, <1>5, <3>2 DEF Parts
    <3>4. \A k \in 1..Len(s[j]) : F[p + k] = s[j][k]
      BY <1>3, <1>5 DEF Parts
    <3> HIDE DEF l, p
    <3>5. \A k \in 1..(l + 2) : p + k \in 1..Len(F)
      <4>1. p \in Nat /\ l \in Nat /\ p + l + 2 <= Len(F)
        BY <1>4, <3>1, <3>3
      <4>2. QED BY <1>4, <4>1
    <3>6. \A k \in 1..(l + 2) : a[p + k] = s[j][k]
      BY <2>1, <3>1, <3>4, <3>5, Zenon
    <3>7. a[p + 1] = s[j][1] /\ a[p + 2] = s[j][2]
      BY <3>1, <3>6
    <3>8. \A k \in 1..l : a[p + 2 + k] = s[j][2 + k]
      <4> SUFFICES ASSUME NEW k \in 1..l PROVE a[p + 2 + k] = s[j][2 + k]
        OBVIOUS
      <4>1. 2 + k \in 1..(l + 2) /\ p + (2 + k) = p + 2 + k
        BY <3>1, <3>3, <1>4
      <4>2. QED BY <3>6, <4>1
    <3>9. o[j + 1] = p + l + 2
      BY <1>4, <3>1, <3>3
    <3>10. QED BY <3>1, <3>7, <3>8, <3>9 DEF l, p
  <2>4. LaidOut(a, b, o)
    BY <2>2, <2>3 DEF LaidOut
  <2>5. QED BY <2>1, <2>2, <2>4, Zenon DEF EventOf, a
<1>9. QED BY <1>6, <1>7, <1>8

-----------------------------------------------------------------------------
(* The inductive invariant.                                                  *)

\* Every event in the queue is that of a batch.
QueueOK == \A i \in DOMAIN queue : EventOf(queue[i].args, queue[i].sent)

\* The loop stands before a command of the batch, or behind the last one, and
\* has executed those before it; it waits for the restart it has executed.
Reading(o) ==
  LET d == Len(run.done)
  IN  /\ d <= Count(run.sent) /\ run.at = o[d + 1]
      /\ \A j \in 1..d : run.done[j] = run.sent[j]
      /\ halting <=> (d >= 1 /\ run.done[d].op = RestartChip)

\* The loop has taken the byte behind the batch for a command as well.
Overrun ==
  /\ Len(run.done) = Len(run.sent) + 1 /\ Count(run.sent) = Len(run.sent)
  /\ \A j \in 1..Len(run.sent) : run.done[j] = run.sent[j]
  /\ run.at >= Len(run.args)

Progress(o) == LaidOut(run.args, run.sent, o) /\ (Reading(o) \/ Overrun)

RunOK ==
  IF run = NoRun
  THEN ~halting
  ELSE /\ run.sent \in Batches
       /\ \E o \in [1..(Len(run.sent) + 1) -> 0..(Len(run.args) - 1)] : Progress(o)

IInv == TypeOK /\ QueueOK /\ RunOK

-----------------------------------------------------------------------------
(* Types.                                                                    *)

LEMMA RequestsProperties ==
  ASSUME ServerAssumption, NEW r \in Requests
  PROVE  /\ r.bytes \in Seq(Bytes) /\ r.bytes # << >> /\ Len(r.bytes) \in 1..BufSize
         /\ Tail(r.bytes) \in Seq(Bytes) /\ Len(Tail(r.bytes)) = Len(r.bytes) - 1
         /\ r # NoRequest
         /\ r.bytes[1] = RunBatch => r.cmds \in Batches /\ r = BatchReq(r.cmds)
<1>1. /\ r.bytes \in Seq(Bytes) /\ r.bytes # << >>
      /\ r.bytes[1] = RunBatch => r.cmds \in Batches /\ r = BatchReq(r.cmds)
  <2>1. CASE \E b \in Batches : r = BatchReq(b)
    BY <2>1, BatchReqProperties
  <2>2. CASE \E o \in Others : r = [bytes |-> o, cmds |-> << >>]
    BY <2>2 DEF ServerAssumption
  <2>3. QED BY <2>1, <2>2 DEF Requests
<1>2. Len(r.bytes) \in 1..BufSize
  <2>1. Len(r.bytes) \in Nat /\ Len(r.bytes) # 0
    BY <1>1, LenProperties, EmptySeq
  <2>2. QED BY <2>1 DEF ServerAssumption
<1>3. Tail(r.bytes) \in Seq(Bytes) /\ Len(Tail(r.bytes)) = Len(r.bytes) - 1
  BY <1>1, HeadTailProperties
<1>4. r # NoRequest
  BY <1>1 DEF NoRequest
<1>5. QED BY <1>1, <1>2, <1>3, <1>4

LEMMA FreshType == ServerAssumption => Fresh \in [1..(BufSize - 1) -> Bytes \cup {Unknown}]
BY DEF Fresh

\* recv leaves the end of the buffer as it is.
LEMMA ReceiveType ==
  ASSUME ServerAssumption, TypeOK, NEW K, Receive(K)
  PROVE  /\ wire \in Requests /\ wire.bytes[1] \in K
         /\ wire' \in Requests \cup {NoRequest}
         /\ rx' \in [1..(BufSize - 1) -> Bytes \cup {Unknown}]
         /\ UNCHANGED <<srv, bound, sock, conn>>
<1> DEFINE V == Bytes \cup {Unknown}
           n == Len(wire.bytes)
           p == Tail(wire.bytes)
           q == SubSeq(rx, n, BufSize - 1)
<1>1. /\ wire \in Requests /\ wire.bytes[1] \in K /\ wire' = NoRequest /\ rx' = p \o q
      /\ UNCHANGED <<srv, bound, sock, conn>>
  BY DEF Receive, TypeOK
<1>2. n \in 1..BufSize /\ BufSize \in Nat /\ p \in Seq(Bytes) /\ Len(p) = n - 1
  BY <1>1, RequestsProperties DEF ServerAssumption
<1>3. rx \in [1..(BufSize - 1) -> V]
  BY DEF TypeOK
<1> HIDE DEF V, n, p
<1>4. q = [i \in 1..(BufSize - n) |-> rx[n + i - 1]]
  BY <1>2, <1>3 DEF q
<1>5. q \in Seq(V) /\ Len(q) = BufSize - n
  BY <1>2, <1>3, <1>4
<1>6. p \in Seq(V)
  BY <1>2 DEF V
<1>7. p \o q \in Seq(V) /\ Len(p \o q) = BufSize - 1
  BY <1>2, <1>5, <1>6, ConcatProperties
<1>8. QED BY <1>1, <1>7, LenProperties DEF V

\* The byte behind the request is a byte, whatever it is.
LEMMA ArgsOfType ==
  ASSUME ServerAssumption, TypeOK, wire \in Requests, NEW a \in ArgsOf(wire)
  PROVE  \E g \in Bytes : a = Append(Tail(wire.bytes), g)
<1> DEFINE n == Len(wire.bytes)
<1>1. n \in 1..BufSize /\ BufSize \in Nat
  BY RequestsProperties DEF ServerAssumption
<1>2. n < BufSize /\ rx[n] # Unknown => rx[n] \in Bytes
  <2>1. n < BufSize => n \in 1..(BufSize - 1)
    BY <1>1
  <2>2. QED BY <2>1 DEF TypeOK
<1>3. Garbage \subseteq Bytes
  BY DEF ServerAssumption
<1>4. QED BY <1>2, <1>3 DEF ArgsOf

\* An event that is posted joins the others, or is lost.
LEMMA PostProperties ==
  ASSUME ServerAssumption, NEW q \in Seq(Events), Len(q) <= QueueSize, NEW e \in Events
  PROVE  /\ Post(q, e) \in Seq(Events) /\ Len(Post(q, e)) <= QueueSize
         /\ \A i \in DOMAIN Post(q, e) : Post(q, e)[i] = e \/ (i \in DOMAIN q /\ Post(q, e)[i] = q[i])
<1>1. QueueSize \in Nat /\ Len(q) \in Nat
  BY LenProperties DEF ServerAssumption
<1>2. CASE Len(q) < QueueSize
  <2>1. Post(q, e) = Append(q, e)
    BY <1>2 DEF Post
  <2>2. QED BY <1>1, <1>2, <2>1, AppendProperties
<1>3. CASE ~ (Len(q) < QueueSize)
  BY <1>3 DEF Post
<1>4. QED BY <1>2, <1>3

\* The batch being executed, by name.
LEMMA RunTypes ==
  ASSUME TypeOK
  PROVE  /\ run.args \in Seq(Bytes) /\ Len(run.args) \in Nat
         /\ \A i \in 1..Len(run.args) : run.args[i] \in Bytes
         /\ run.sent \in Seq(Commands) /\ Len(run.sent) \in Nat
         /\ run.at \in Nat /\ run.done \in Seq(Commands) /\ Len(run.done) \in Nat
         /\ run = [args |-> run.args, sent |-> run.sent, at |-> run.at, done |-> run.done]
<1>1. run \in Runs
  BY DEF TypeOK
<1>2. run.args \in Seq(Bytes) /\ run.sent \in Seq(Commands) /\ run.at \in Nat /\ run.done \in Seq(Commands)
  BY <1>1 DEF Runs
<1>3. run = [args |-> run.args, sent |-> run.sent, at |-> run.at, done |-> run.done]
  BY <1>1 DEF Runs
<1>4. QED BY <1>2, <1>3, LenProperties, ElementOfSeq

\* What the next command is taken to be.
LEMMA ExecuteProperties ==
  ASSUME ServerAssumption, TypeOK, Execute
  PROVE  \E l \in ByteAt(At + 1) \ {0} :
           /\ l \in 1..255 /\ [op |-> Op, data |-> Params(l)] \in Commands
           /\ Op = run.args[At + 1] /\ Op \in Ops /\ At < Len(run.args)
           /\ run' = [args |-> run.args, sent |-> run.sent, at |-> At + l + 2,
                      done |-> Append(run.done, [op |-> Op, data |-> Params(l)])]
<1>1. PICK l \in ByteAt(At + 1) \ {0} :
        run' = [run EXCEPT !.at = Advance(l), !.done = Append(@, [op |-> Op, data |-> Params(l)])]
  BY DEF Execute
<1>2. Op \in Ops /\ At < Len(run.args) /\ At \in Nat
  BY RunTypes DEF Execute, InBatch, At
<1>3. l \in 1..255
  <2>1. ByteAt(At + 1) \subseteq Bytes
    <3>1. CASE At + 1 < Len(run.args)
      <4>1. At + 1 + 1 \in 1..Len(run.args)
        BY <1>2, <3>1, RunTypes
      <4>2. QED BY <3>1, <4>1, RunTypes DEF ByteAt
    <3>2. CASE ~ (At + 1 < Len(run.args))
      BY <3>2 DEF ByteAt, ServerAssumption
    <3>3. QED BY <3>1, <3>2
  <2>2. QED BY <2>1 DEF Bytes
<1>4. Params(l) \in Seq(Bytes)
  <2> DEFINE e == IF At + 2 + l <= Len(run.args) THEN At + 2 + l ELSE Len(run.args)
  <2>1. e \in Nat /\ e <= Len(run.args)
    <3>1. \A a \in Nat, n \in Nat : \A k \in 1..255 :
            LET m == IF a + 2 + k <= n THEN a + 2 + k ELSE n IN m \in Nat /\ m <= n
      OBVIOUS
    <3>2. QED BY <1>2, <1>3, <3>1, RunTypes
  <2>2. Params(l) = SubSeq(run.args, At + 3, e)
    BY DEF Params
  <2> HIDE DEF e
  <2>3. \A i \in (At + 3)..e : i \in 1..Len(run.args)
    BY <1>2, <2>1, RunTypes
  <2>4. QED BY <1>2, <2>1, <2>2, <2>3, RunTypes, SubSeqProperties
<1>5. [op |-> Op, data |-> Params(l)] \in Commands
  BY <1>2, <1>4 DEF Commands, Ops, Bytes
<1>6. run' = [args |-> run.args, sent |-> run.sent, at |-> At + l + 2,
              done |-> Append(run.done, [op |-> Op, data |-> Params(l)])]
  BY <1>1, RunTypes DEF Advance
<1>7. QED BY <1>2, <1>3, <1>5, <1>6 DEF Op

LEMMA InitTypeOK == ServerAssumption /\ Init => TypeOK
<1> SUFFICES ASSUME ServerAssumption, Init PROVE TypeOK
  OBVIOUS
<1>1. << >> \in Seq(Events) /\ Len(<< >>) = 0 /\ NoRun \in Runs
  BY DEF NoRun, Runs
<1>2. 0 <= QueueSize
  BY DEF ServerAssumption
<1>3. QED BY <1>1, <1>2, FreshType DEF Init, TypeOK

LEMMA TypeStep == ServerAssumption /\ TypeOK /\ [Next]_vars => TypeOK'
<1> SUFFICES ASSUME ServerAssumption, TypeOK, [Next]_vars PROVE TypeOK'
  OBVIOUS
<1>1. CASE Client
  <2>1. CASE Connect
    BY <2>1 DEF Connect, TypeOK, server, loop
  <2>2. CASE Disconnect
    BY <2>2 DEF Disconnect, TypeOK, loop
  <2>3. CASE Vanish
    BY <2>3 DEF Vanish, TypeOK, loop
  <2>4. CASE \E r \in Requests : Ask(r)
    BY <2>4 DEF Ask, TypeOK, loop
  <2>5. QED BY <1>1, <2>1, <2>2, <2>3, <2>4 DEF Client
<1>2. CASE Server \/ AcceptFails
  <2>1. CASE Bind \/ BindFails \/ Accept \/ AcceptFails
    BY <2>1 DEF Bind, BindFails, Accept, AcceptFails, TypeOK, client, loop
  <2>2. CASE Close
    BY <2>2, FreshType DEF Close, TypeOK, client, loop
  <2>3. CASE Answer \/ Dump \/ Ignore
    <3>1. /\ wire' \in Requests \cup {NoRequest}
          /\ rx' \in [1..(BufSize - 1) -> Bytes \cup {Unknown}]
          /\ UNCHANGED <<srv, bound, sock, conn>>
      BY <2>3, ReceiveType DEF Answer, Dump, Ignore
    <3>2. asked' \in {asked, NoRequest} /\ UNCHANGED loop
      BY <2>3 DEF Answer, Dump, Ignore, Reply
    <3>3. QED BY <3>1, <3>2 DEF TypeOK, loop
  <2>4. CASE HandleBatch
    <3>1. /\ wire' \in Requests \cup {NoRequest} /\ wire \in Requests /\ wire.bytes[1] = RunBatch
          /\ rx' \in [1..(BufSize - 1) -> Bytes \cup {Unknown}]
          /\ UNCHANGED <<srv, bound, sock, conn>>
      BY <2>4, ReceiveType DEF HandleBatch
    <3>2. asked' \in {asked, NoRequest} /\ UNCHANGED <<run, halting>>
      BY <2>4 DEF HandleBatch, Reply
    <3>3. PICK a \in ArgsOf(wire) : queue' = Post(queue, [args |-> a, sent |-> wire.cmds])
      BY <2>4 DEF HandleBatch
    <3>4. a \in Seq(Bytes) /\ wire.cmds \in Seq(Commands)
      <4>1. PICK g \in Bytes : a = Append(Tail(wire.bytes), g)
        BY <3>1, ArgsOfType
      <4>2. Tail(wire.bytes) \in Seq(Bytes) /\ wire.cmds \in Batches
        BY <3>1, RequestsProperties
      <4>3. QED BY <4>1, <4>2, AppendProperties DEF ServerAssumption
    <3>5. [args |-> a, sent |-> wire.cmds] \in Events
      BY <3>4 DEF Events
    <3>6. queue' \in Seq(Events) /\ Len(queue') <= QueueSize
      BY <3>3, <3>5, PostProperties DEF TypeOK
    <3>7. QED BY <3>1, <3>2, <3>6 DEF TypeOK
  <2>5. QED BY <1>2, <2>1, <2>2, <2>3, <2>4 DEF Server
<1>3. CASE EventLoop
  <2>1. CASE Begin
    <3>1. Head(queue) \in Events /\ Tail(queue) \in Seq(Events) /\ Len(Tail(queue)) <= QueueSize
      <4>1. queue \in Seq(Events) /\ queue # << >> /\ Len(queue) <= QueueSize
        BY <2>1 DEF Begin, TypeOK
      <4>2. Len(Tail(queue)) = Len(queue) - 1 /\ Len(queue) \in Nat /\ QueueSize \in Nat
        BY <4>1, HeadTailProperties, LenProperties DEF ServerAssumption
      <4>3. QED BY <4>1, <4>2, HeadTailProperties
    <3>2. run' \in Runs
      BY <2>1, <3>1 DEF Begin, Events, Runs
    <3>3. QED BY <2>1, <3>1, <3>2 DEF Begin, TypeOK, server, client
  <2>2. CASE Execute
    <3>1. run' \in Runs
      <4>1. PICK l \in 1..255 :
              /\ [op |-> Op, data |-> Params(l)] \in Commands
              /\ run' = [args |-> run.args, sent |-> run.sent, at |-> At + l + 2,
                         done |-> Append(run.done, [op |-> Op, data |-> Params(l)])]
        BY <2>2, ExecuteProperties
      <4>2. Append(run.done, [op |-> Op, data |-> Params(l)]) \in Seq(Commands)
        BY <4>1, RunTypes, AppendProperties
      <4>3. At + l + 2 \in Nat
        <5>1. At \in Nat
          BY RunTypes DEF At
        <5>2. QED BY <5>1
      <4>4. QED BY <4>1, <4>2, <4>3, RunTypes DEF Runs
    <3>2. QED BY <2>2, <3>1 DEF Execute, TypeOK, server, client
  <2>3. CASE End
    <3>1. NoRun \in Runs
      BY DEF NoRun, Runs
    <3>2. QED BY <2>3, <3>1 DEF End, TypeOK, server, client
  <2>4. CASE Restart
    <3>1. Init'
      BY <2>4 DEF Restart, Init
    <3>2. << >> \in Seq(Events) /\ Len(<< >>) = 0 /\ NoRun \in Runs /\ 0 <= QueueSize
      BY DEF NoRun, Runs, ServerAssumption
    <3>3. QED BY <3>1, <3>2, FreshType DEF Init, TypeOK
  <2>5. QED BY <1>3, <2>1, <2>2, <2>3, <2>4 DEF EventLoop
<1>4. CASE UNCHANGED vars
  BY <1>4 DEF TypeOK, vars, server, client, loop
<1>5. QED BY <1>1, <1>2, <1>3, <1>4 DEF Next

\* The server, the buffer, the queue and the batch hold what their types say: in
\* particular a request fits the buffer, the queue its limit, and the parser,
\* which trusts the lengths it reads, makes only commands with parameters of
\* bytes (config_recv, do_retransmit, process_command_batch).
THEOREM TypeCorrect == Spec => []TypeOK
<1>1. Init => TypeOK
  BY InitTypeOK, ServerAssumption
<1>2. TypeOK /\ [Next]_vars => TypeOK'
  BY TypeStep, ServerAssumption
<1>3. QED BY <1>1, <1>2, PTL DEF Spec

-----------------------------------------------------------------------------
(* The commands that are executed.                                           *)

\* Count is the number of commands a batch asks for.
LEMMA CountProperties ==
  ASSUME NEW b \in Seq(Commands)
  PROVE  /\ Count(b) \in 0..Len(b) /\ Len(b) \in Nat
         /\ \A j \in 1..Len(b) :
              (\A k \in 1..j : ~Stops(b[k]) /\ (k < j => b[k].op # RestartChip)) => j <= Count(b)
         /\ \A k \in 1..Count(b) : ~Stops(b[k]) /\ (k < Count(b) => b[k].op # RestartChip)
<1> DEFINE A == Accepted(b)
           N == Len(b)
<1>1. N \in Nat /\ DOMAIN b = 1..N
  BY LenProperties
<1> HIDE DEF N
<1>2. A = {j \in 1..N : \A k \in 1..j : ~Stops(b[k]) /\ (k < j => b[k].op # RestartChip)}
  BY <1>1 DEF Accepted
<1>3. CASE A = {}
  <2>1. Count(b) = 0
    BY <1>3 DEF Count
  <2>2. QED BY <1>1, <1>2, <1>3, <2>1 DEF N
<1>4. CASE A # {}
  <2>1. A \in SUBSET (0..N)
    BY <1>2
  <2> HIDE DEF A
  <2>2. PICK n \in A : \A m \in A : m <= n
    BY <1>1, <1>4, <2>1, GreatestNatural
  <2>3. \A m \in A : n >= m
    BY <1>1, <2>1, <2>2
  <2>4. Count(b) = CHOOSE x \in A : \A y \in A : x >= y
    BY <1>4 DEF Count, Max, A
  <2>5. Count(b) \in A /\ \A y \in A : Count(b) >= y
    BY <2>2, <2>3, <2>4
  <2>6. Count(b) \in 1..N /\ \A k \in 1..Count(b) : ~Stops(b[k]) /\ (k < Count(b) => b[k].op # RestartChip)
    BY <1>2, <2>5
  <2>7. ASSUME NEW j \in 1..N,
               \A k \in 1..j : ~Stops(b[k]) /\ (k < j => b[k].op # RestartChip)
        PROVE  j <= Count(b)
    <3>1. j \in A
      BY <1>2, <2>7
    <3>2. QED BY <1>1, <2>5, <2>6, <3>1
  <2>8. QED BY <1>1, <2>6, <2>7 DEF N
<1>5. QED BY <1>3, <1>4

\* Command j of b is in a, where the parser looks for it, and with all its
\* parameters.
CommandAt(a, b, o, j) ==
  LET n == Len(b[j].data)
  IN  /\ n \in Nat /\ o[j + 1] = o[j] + n + 2 /\ o[j] + n + 2 < Len(a)
      /\ a[o[j] + 1] = b[j].op /\ a[o[j] + 2] = n
      /\ SubSeq(a, o[j] + 3, o[j] + 2 + n) = b[j].data

\* Where the commands of a batch lie in its event.
LEMMA LaidOutProperties ==
  ASSUME NEW b \in Seq(Commands), NEW a \in Seq(Bytes), NEW o, LaidOut(a, b, o)
  PROVE  /\ Len(a) \in Nat \ {0} /\ Len(b) \in Nat
         /\ o[1] = 0 /\ o[Len(b) + 1] = Len(a) - 1
         /\ \A j \in 1..(Len(b) + 1) : o[j] \in 0..(Len(a) - 1)
         /\ \A j \in 1..Len(b) : CommandAt(a, b, o, j)
<1>1. Len(a) \in Nat /\ Len(b) \in Nat
  BY LenProperties
<1>2. \A j \in 1..(Len(b) + 1) : o[j] \in 0..(Len(a) - 1)
  BY DEF LaidOut
<1>3. Len(a) # 0
  <2>1. 1 \in 1..(Len(b) + 1)
    BY <1>1
  <2>2. QED BY <1>1, <1>2, <2>1
<1>4. ASSUME NEW j \in 1..Len(b)
      PROVE  CommandAt(a, b, o, j)
  <2> DEFINE d == b[j].data
             l == Len(b[j].data)
             p == o[j]
             q == o[j + 1]
  <2>1. b[j] \in Commands
    BY ElementOfSeq
  <2>2. d \in Seq(Bytes) /\ l \in Nat /\ l = Len(d)
    BY <2>1, LenProperties DEF Commands
  <2>3. q = p + l + 2 /\ a[p + 1] = b[j].op /\ a[p + 2] = l /\ \A k \in 1..l : a[p + 2 + k] = d[k]
    BY DEF LaidOut
  <2>4. p \in Nat /\ q \in 0..(Len(a) - 1)
    <3>1. j \in 1..(Len(b) + 1) /\ j + 1 \in 1..(Len(b) + 1)
      BY <1>1
    <3>2. QED BY <1>2, <3>1
  <2> HIDE DEF d, l, p, q
  <2>5. p + l + 2 < Len(a)
    BY <1>1, <2>2, <2>3, <2>4
  <2>6. SubSeq(a, p + 3, p + 2 + l) = d
    <3> DEFINE s == SubSeq(a, p + 3, p + 2 + l)
    <3>1. s = [k \in 1..l |-> a[p + 2 + k]]
      <4>1. s = [k \in 1..(p + 2 + l - (p + 3) + 1) |-> a[p + 3 + k - 1]]
        BY <2>2, <2>4
      <4>2. p + 2 + l - (p + 3) + 1 = l /\ \A k \in 1..l : p + 3 + k - 1 = p + 2 + k
        BY <2>2, <2>4
      <4>3. QED BY <4>1, <4>2
    <3>2. d = [k \in 1..l |-> d[k]]
      BY <2>2
    <3> HIDE DEF s
    <3>3. QED BY <2>3, <3>1, <3>2 DEF s
  <2>7. QED BY <2>2, <2>3, <2>5, <2>6 DEF d, l, p, q, CommandAt
<1>5. QED BY <1>1, <1>2, <1>3, <1>4 DEF LaidOut

LEMMA InitRunOK == ServerAssumption /\ Init => QueueOK /\ RunOK
BY DEF Init, QueueOK, RunOK

\* Nothing but a batch comes into the queue.
LEMMA QueueStep == ServerAssumption /\ TypeOK /\ QueueOK /\ [Next]_vars => QueueOK'
<1> SUFFICES ASSUME ServerAssumption, TypeOK, QueueOK, [Next]_vars PROVE QueueOK'
  OBVIOUS
<1>1. CASE UNCHANGED queue
  BY <1>1 DEF QueueOK
<1>2. CASE HandleBatch
  <2>1. wire \in Requests /\ wire.bytes[1] = RunBatch
    BY <1>2, ReceiveType DEF HandleBatch
  <2>2. wire.cmds \in Batches /\ wire = BatchReq(wire.cmds)
    BY <2>1, RequestsProperties
  <2>3. PICK a \in ArgsOf(wire) : queue' = Post(queue, [args |-> a, sent |-> wire.cmds])
    BY <1>2 DEF HandleBatch
  <2>4. EventOf(a, wire.cmds)
    <3>1. PICK g \in Bytes : a = Append(Tail(wire.bytes), g)
      BY <2>1, <2>3, ArgsOfType
    <3>2. QED BY <2>2, <3>1, BatchReqProperties
  <2> DEFINE e == [args |-> a, sent |-> wire.cmds]
  <2>5. e \in Events
    BY <2>4 DEF Events, EventOf, ServerAssumption
  <2>6. \A i \in DOMAIN queue' : queue'[i] = e \/ (i \in DOMAIN queue /\ queue'[i] = queue[i])
    BY <2>3, <2>5, PostProperties DEF TypeOK
  <2>7. QED BY <2>4, <2>6 DEF QueueOK
<1>3. CASE Begin
  <2>1. queue \in Seq(Events) /\ queue # << >> /\ queue' = Tail(queue)
    BY <1>3 DEF Begin, TypeOK
  <2>2. \A i \in DOMAIN Tail(queue) : i + 1 \in DOMAIN queue /\ Tail(queue)[i] = queue[i + 1]
    BY <2>1, HeadTailProperties
  <2>3. QED BY <2>1, <2>2 DEF QueueOK
<1>4. CASE Restart
  BY <1>4 DEF Restart, QueueOK
<1>5. ASSUME ~ Begin, ~ Restart, ~ HandleBatch PROVE UNCHANGED queue
  BY <1>5 DEF Next, vars, loop, Client, Connect, Disconnect, Vanish, Ask, Server, Bind, BindFails,
     Accept, Close, Answer, Dump, Ignore, AcceptFails, EventLoop, Execute, End
<1>6. QED BY <1>1, <1>2, <1>3, <1>4, <1>5

\* The batch is executed from its beginning.
LEMMA BeginStep ==
  ASSUME ServerAssumption, TypeOK, QueueOK, RunOK, Begin
  PROVE  RunOK'
<1> DEFINE e == queue[1]
<1>1. queue \in Seq(Events) /\ queue # << >> /\ 1 \in DOMAIN queue /\ Head(queue) = e
  BY HeadTailProperties, EmptySeq, LenProperties DEF Begin, TypeOK
<1>2. EventOf(e.args, e.sent)
  BY <1>1 DEF QueueOK
<1>3. run' = [args |-> e.args, sent |-> e.sent, at |-> 0, done |-> << >>] /\ ~halting /\ ~halting'
  BY <1>1 DEF Begin, RunOK
<1> HIDE DEF e
<1>4. PICK o \in [1..(Len(e.sent) + 1) -> 0..(Len(e.args) - 1)] : LaidOut(e.args, e.sent, o)
  BY <1>2, Zenon DEF EventOf
<1>5. e.sent \in Batches /\ e.sent \in Seq(Commands) /\ e.args \in Seq(Bytes)
  BY <1>2 DEF EventOf, ServerAssumption
<1>6. Len(e.args) # 0 /\ o[1] = 0
  BY <1>4, <1>5, LaidOutProperties
<1>7. run' # NoRun
  BY <1>3, <1>6 DEF NoRun
<1>8. Reading(o)'
  BY <1>3, <1>5, <1>6, CountProperties DEF Reading
<1>9. Progress(o)'
  BY <1>3, <1>4, <1>8 DEF Progress
<1>10. run'.sent = e.sent /\ run'.args = e.args
  BY <1>3
<1>11. QED BY <1>4, <1>5, <1>7, <1>9, <1>10, Zenon DEF RunOK

\* One command more of the batch, or the one behind it.
LEMMA ExecuteStep ==
  ASSUME ServerAssumption, TypeOK, RunOK, Execute
  PROVE  RunOK'
<1> DEFINE a == run.args
           b == run.sent
           d == Len(run.done)
           m == Len(run.sent)
           n == Count(run.sent)
           done == run.done
           at == run.at
<1>1. run # NoRun /\ ~halting
  BY DEF Execute, InBatch
<1>2. PICK o \in [1..(m + 1) -> 0..(Len(a) - 1)] : Progress(o)
  BY <1>1, Zenon DEF RunOK
<1>3. b \in Batches /\ b \in Seq(Commands) /\ a \in Seq(Bytes) /\ LaidOut(a, b, o)
  BY <1>1, <1>2, RunTypes DEF RunOK, Progress
<1>4. PICK l \in ByteAt(At + 1) \ {0} :
        /\ l \in 1..255 /\ [op |-> Op, data |-> Params(l)] \in Commands
        /\ Op = a[at + 1] /\ at < Len(a) /\ Op \in Ops
        /\ run' = [args |-> a, sent |-> b, at |-> at + l + 2,
                   done |-> Append(done, [op |-> Op, data |-> Params(l)])]
  BY ExecuteProperties DEF At
<1> DEFINE c == [op |-> Op, data |-> Params(l)]
<1>5. halting' = (Op = RestartChip)
  BY DEF Execute
<1>6. /\ d \in Nat /\ m \in Nat /\ n \in 0..m /\ at \in Nat /\ Len(a) \in Nat \ {0}
      /\ o[m + 1] = Len(a) - 1 /\ done \in Seq(Commands) /\ c \in Commands
  BY <1>3, <1>4, RunTypes, CountProperties, LaidOutProperties
<1>7. /\ Reading(o) /\ d <= n /\ at = o[d + 1]
      /\ \A j \in 1..d : done[j] = b[j]
      /\ d >= 1 => b[d].op # RestartChip
  <2>1. ~ Overrun
    BY <1>4, <1>6 DEF Overrun
  <2>2. Reading(o)
    BY <1>2, <2>1 DEF Progress
  <2>3. d <= n /\ at = o[d + 1] /\ \A j \in 1..d : done[j] = b[j]
    BY <2>2 DEF Reading
  <2>4. d >= 1 => d \in 1..d /\ done[d].op # RestartChip
    BY <1>1, <1>6, <2>2 DEF Reading
  <2>5. QED BY <2>2, <2>3, <2>4
<1>8. /\ Len(Append(done, c)) = d + 1 /\ Append(done, c)[d + 1] = c
      /\ \A j \in 1..d : Append(done, c)[j] = b[j]
  BY <1>6, <1>7, AppendProperties
<1>9. run'.args = a /\ run'.sent = b /\ run'.at = at + l + 2 /\ run'.done = Append(done, c)
  BY <1>4
<1>10. run' # NoRun
  <2>1. Len(run'.done) # 0
    BY <1>6, <1>8, <1>9
  <2>2. QED BY <2>1 DEF NoRun
<1>11. Reading(o)' \/ Overrun'
  <2>1. CASE d < m
    <3> DEFINE j == d + 1
               s == b[j]
    <3>1. j \in 1..m
      BY <1>6, <2>1
    <3>2. /\ Len(s.data) \in Nat /\ o[j + 1] = o[j] + Len(s.data) + 2
          /\ o[j] + Len(s.data) + 2 < Len(a)
          /\ a[o[j] + 1] = s.op /\ a[o[j] + 2] = Len(s.data)
          /\ SubSeq(a, o[j] + 3, o[j] + 2 + Len(s.data)) = s.data
      <4>1. CommandAt(a, b, o, j)
        BY <1>3, <3>1, LaidOutProperties
      <4> HIDE DEF j
      <4>2. QED BY <4>1 DEF CommandAt
    <3> HIDE DEF at, a, b, d, m, n, done
    <3>3. at = o[j] /\ Op = s.op
      BY <1>4, <1>7, <3>2
    <3>4. l = Len(s.data)
      <4>1. At + 1 < Len(a) /\ a[At + 1 + 1] = Len(s.data)
        <5>1. At = at
          BY DEF At, at
        <5>2. at + 1 < Len(a) /\ at + 1 + 1 = at + 2
          <6>1. Len(s.data) \in Nat /\ at + Len(s.data) + 2 < Len(a)
            BY <3>2, <3>3
          <6>2. QED BY <1>6, <6>1
        <5>3. QED BY <3>2, <3>3, <5>1, <5>2
      <4>2. QED BY <1>4, <4>1 DEF ByteAt, a
    <3>5. Params(l) = s.data
      <4>1. At = at
        BY DEF At, at
      <4>2. at + 2 + l <= Len(a)
        <5>1. l \in Nat /\ at + l + 2 < Len(a)
          BY <3>2, <3>3, <3>4
        <5>2. QED BY <1>6, <5>1
      <4>3. Params(l) = SubSeq(a, at + 3, at + 2 + l)
        BY <4>1, <4>2 DEF Params, a
      <4>4. QED BY <3>2, <3>3, <3>4, <4>3
    <3>6. c = s
      <4>1. s \in Commands
        BY <1>3, <3>1, ElementOfSeq DEF m, b
      <4>2. s = [op |-> s.op, data |-> s.data]
        BY <4>1 DEF Commands
      <4>3. QED BY <3>3, <3>5, <4>2
    <3>7. j <= n
      <4>1. ~ Stops(s)
        <5>1. s.data # << >>
          BY <1>4, <3>4
        <5>2. QED BY <1>4, <3>3, <5>1 DEF Stops
      <4>2. ASSUME NEW k \in 1..j PROVE ~ Stops(b[k]) /\ (k < j => b[k].op # RestartChip)
        <5>1. CASE k = j
          BY <1>6, <4>1, <5>1
        <5>2. CASE k # j
          <6>1. k \in 1..n /\ k \in 1..d
            BY <1>6, <1>7, <5>2
          <6>2. ~ Stops(b[k]) /\ (k < n => b[k].op # RestartChip)
            BY <1>3, <6>1, CountProperties DEF n, b
          <6>3. CASE k = d
            BY <1>6, <1>7, <6>1, <6>2, <6>3
          <6>4. CASE k # d
            <7>1. k < n
              BY <1>6, <1>7, <6>1, <6>4
            <7>2. QED BY <6>2, <7>1
          <6>5. QED BY <6>3, <6>4
        <5>3. QED BY <5>1, <5>2
      <4>3. QED BY <1>3, <3>1, <4>2, CountProperties DEF m, n, b
    <3>8. \A k \in 1..(d + 1) : Append(done, c)[k] = b[k]
      BY <1>6, <1>8, <3>6
    <3>9. at + l + 2 = o[d + 1 + 1]
      BY <3>2, <3>3, <3>4
    <3>10. c.op = Op
      OBVIOUS
    <3>11. Reading(o)'
      <4>1. d + 1 <= n /\ d + 1 >= 1
        BY <1>6, <3>7
      <4>2. run'.at = o[d + 1 + 1] /\ Len(run'.done) = d + 1
        BY <1>8, <1>9, <3>9
      <4>3. \A k \in 1..(d + 1) : run'.done[k] = run'.sent[k]
        BY <1>9, <3>8
      <4>4. halting' <=> (d + 1 >= 1 /\ run'.done[d + 1].op = RestartChip)
        BY <1>5, <1>8, <1>9, <3>10, <4>1
      <4>5. Count(run'.sent) = n
        BY <1>9 DEF n, b
      <4>6. QED BY <4>1, <4>2, <4>3, <4>4, <4>5 DEF Reading
    <3>12. QED BY <3>11
  <2>2. CASE d = m
    <3>1. n = m /\ at = Len(a) - 1
      BY <1>6, <1>7, <2>2
    <3>2. at + l + 2 >= Len(a)
      <4> HIDE DEF at, a, b, d, m, n, done
      <4>1. l \in 1..255
        BY <1>4
      <4>2. QED BY <1>6, <3>1, <4>1
    <3>3. Overrun'
      BY <1>6, <1>8, <1>9, <2>2, <3>1, <3>2 DEF Overrun
    <3>4. QED BY <3>3
  <2>3. QED BY <1>6, <1>7, <2>1, <2>2
<1>12. Progress(o)'
  BY <1>3, <1>9, <1>11 DEF Progress
<1>13. QED BY <1>2, <1>3, <1>9, <1>10, <1>12, Zenon DEF RunOK

LEMMA RunStep == ServerAssumption /\ TypeOK /\ QueueOK /\ RunOK /\ [Next]_vars => RunOK'
<1> SUFFICES ASSUME ServerAssumption, TypeOK, QueueOK, RunOK, [Next]_vars PROVE RunOK'
  OBVIOUS
<1>1. CASE UNCHANGED <<run, halting>>
  BY <1>1 DEF RunOK, Progress, Reading, Overrun
<1>2. CASE Begin
  BY <1>2, BeginStep
<1>3. CASE Execute
  BY <1>3, ExecuteStep
<1>4. CASE End \/ Restart
  BY <1>4 DEF End, Restart, RunOK
<1>5. ASSUME ~ Begin, ~ Execute, ~ End, ~ Restart PROVE UNCHANGED <<run, halting>>
  BY <1>5 DEF Next, vars, loop, Client, Connect, Disconnect, Vanish, Ask, Server, Bind, BindFails,
     Accept, Close, Answer, Dump, Ignore, HandleBatch, AcceptFails, EventLoop
<1>6. QED BY <1>1, <1>2, <1>3, <1>4, <1>5

\* The inductive invariant: the event of every batch has the layout the client
\* gave it, and the parser stands at the offset of a command of it, or at the
\* byte behind it (ArgsOf, Begin, Execute).
THEOREM Inductive == Spec => []IInv
<1>1. Init => IInv
  BY InitTypeOK, InitRunOK, ServerAssumption DEF IInv
<1>2. IInv /\ [Next]_vars => IInv'
  BY TypeStep, QueueStep, RunStep, ServerAssumption DEF IInv
<1>3. QED BY <1>1, <1>2, PTL DEF Spec

\* The commands executed are a prefix of those a batch asks for, and one more at
\* most when all of the batch was read.
LEMMA RunExecutesSent == ServerAssumption /\ IInv => ExecutesSent
<1> SUFFICES ASSUME ServerAssumption, IInv PROVE ExecutesSent
  OBVIOUS
<1> DEFINE m == Len(run.sent)
           d == Len(run.done)
           n == Count(run.sent)
<1>1. /\ d \in Nat /\ m \in Nat /\ n \in 0..m /\ DOMAIN run.done = 1..d
  BY RunTypes, CountProperties, LenProperties DEF IInv
<1>2. CASE run = NoRun
  <2>1. run.done = << >> /\ run.sent = << >>
    BY <1>2 DEF NoRun
  <2>2. d = 0
    BY <2>1
  <2> HIDE DEF m, d, n
  <2>3. QED BY <1>1, <2>2 DEF ExecutesSent, m, d, n
<1>3. CASE run # NoRun
  <2>1. PICK o \in [1..(m + 1) -> 0..(Len(run.args) - 1)] : Progress(o)
    BY <1>3, Zenon DEF IInv, RunOK
  <2>2. CASE Reading(o)
    <3>1. d <= n /\ \A j \in 1..d : run.done[j] = run.sent[j]
      BY <2>2 DEF Reading
    <3> HIDE DEF m, d, n
    <3>2. d <= n + (IF n = m THEN 1 ELSE 0)
      BY <1>1, <3>1
    <3>3. QED BY <1>1, <3>1, <3>2 DEF ExecutesSent, m, d, n
  <2>3. CASE Overrun
    <3>1. d = m + 1 /\ n = m /\ \A j \in 1..m : run.done[j] = run.sent[j]
      BY <2>3 DEF Overrun
    <3> HIDE DEF m, d, n
    <3>2. d <= n + (IF n = m THEN 1 ELSE 0)
      BY <1>1, <3>1
    <3>3. \A j \in 1..d : j <= n => run.done[j] = run.sent[j]
      BY <1>1, <3>1
    <3>4. QED BY <1>1, <3>2, <3>3 DEF ExecutesSent, m, d, n
  <2>4. QED BY <2>1, <2>2, <2>3 DEF Progress
<1>4. QED BY <1>2, <1>3

\* Whatever ran into the buffer before, whatever memory holds behind an event and
\* whoever disappears: a batch is executed in its order and with its parameters,
\* and only the byte behind it can add a command (do_retransmit and
\* process_command_batch).
THEOREM ExecutesSentCommands == Spec => []ExecutesSent
<1>1. IInv => ExecutesSent
  BY RunExecutesSent, ServerAssumption
<1>2. QED BY <1>1, Inductive, PTL

\* A loop that stops has executed what it was asked for.
LEMMA StopStep ==
  ASSUME ServerAssumption, IInv, [Next]_vars, run # NoRun, run' = NoRun
  PROVE  Len(run.done) >= Count(run.sent)
<1> DEFINE a == run.args
           b == run.sent
           m == Len(run.sent)
           d == Len(run.done)
           n == Count(run.sent)
<1>1. TypeOK /\ b \in Batches /\ b \in Seq(Commands) /\ a \in Seq(Bytes)
  BY RunTypes DEF IInv, RunOK
<1>2. d \in Nat /\ m \in Nat /\ n \in 0..m
  BY <1>1, RunTypes, CountProperties
<1>3. PICK o \in [1..(m + 1) -> 0..(Len(a) - 1)] : Progress(o)
  BY Zenon DEF IInv, RunOK
<1>4. End \/ Restart
  <2>1. ASSUME ~ Begin, ~ Execute, ~ End, ~ Restart PROVE run' = run
    BY <2>1 DEF Next, vars, loop, Client, Connect, Disconnect, Vanish, Ask, Server, Bind, BindFails,
       Accept, Close, Answer, Dump, Ignore, HandleBatch, AcceptFails, EventLoop
  <2>2. ~ Begin
    BY DEF Begin
  <2>3. ~ Execute
    <3> SUFFICES ASSUME Execute PROVE FALSE
      OBVIOUS
    <3>1. PICK l \in 1..255 :
            /\ [op |-> Op, data |-> Params(l)] \in Commands
            /\ run' = [args |-> run.args, sent |-> run.sent, at |-> At + l + 2,
                       done |-> Append(run.done, [op |-> Op, data |-> Params(l)])]
      BY <1>1, ExecuteProperties
    <3>2. Len(run'.done) = d + 1
      BY <1>1, <3>1, RunTypes, AppendProperties
    <3>3. QED BY <1>2, <3>2 DEF NoRun
  <2>4. QED BY <2>1, <2>2, <2>3
<1>5. SUFFICES ASSUME d < n PROVE FALSE
  BY <1>2
<1>6. Reading(o) /\ d <= n /\ run.at = o[d + 1] /\ \A j \in 1..d : run.done[j] = b[j]
  <2>1. ~ Overrun
    BY <1>2, <1>5 DEF Overrun
  <2>2. Reading(o)
    BY <1>3, <2>1 DEF Progress
  <2>3. QED BY <2>2 DEF Reading
<1>7. CASE End
  <2> DEFINE j == d + 1
             s == b[j]
  <2>1. j \in 1..m /\ j \in 1..n
    BY <1>2, <1>5
  <2>2. ~ Stops(s)
    BY <1>1, <2>1, CountProperties
  <2>3. CommandAt(a, b, o, j)
    BY <1>1, <1>3, <2>1, LaidOutProperties DEF Progress
  <2>4. s \in Commands
    BY <1>1, <2>1, ElementOfSeq
  <2>5. Len(s.data) # 0
    BY <2>2, <2>4, EmptySeq DEF Stops, Commands
  <2> HIDE DEF j
  <2>6. /\ Len(s.data) \in Nat /\ o[j] + Len(s.data) + 2 < Len(a)
        /\ a[o[j] + 1] = s.op /\ a[o[j] + 2] = Len(s.data)
    BY <2>3 DEF CommandAt
  <2>7. run.at = o[j] /\ run.at \in Nat /\ Len(a) \in Nat
    BY <1>1, <1>6, RunTypes DEF j
  <2> HIDE DEF a, s
  <2>8. run.at + 1 < Len(a) /\ run.at < Len(a) /\ run.at + 1 + 1 = run.at + 2
    BY <2>6, <2>7
  <2>9. Op \in Ops
    BY <2>2, <2>6, <2>7 DEF Op, At, Stops, a
  <2>10. 0 \notin ByteAt(At + 1)
    BY <2>5, <2>6, <2>7, <2>8 DEF ByteAt, At, a
  <2>11. QED BY <1>7, <2>8, <2>9, <2>10 DEF End, At, a
<1>8. CASE Restart
  <2>1. d >= 1 /\ run.done[d].op = RestartChip
    BY <1>6, <1>8 DEF Restart, Reading
  <2>2. d \in 1..n /\ d \in 1..d
    BY <1>2, <1>5, <2>1
  <2>3. b[d].op # RestartChip
    BY <1>1, <1>5, <2>2, CountProperties
  <2>4. QED BY <1>6, <2>1, <2>2, <2>3
<1>9. QED BY <1>4, <1>7, <1>8

\* A batch is given up no earlier than the command that ends it: the first one
\* that is unknown or has no parameters, at which process_command_batch returns, or
\* a restart.  What comes before is executed, whatever bytes its parameters have.
THEOREM ExecutesAllCommands == Spec => ExecutesAll
<1>1. IInv /\ [Next]_vars => [run # NoRun /\ run' = NoRun => Len(run.done) >= Count(run.sent)]_vars
  BY StopStep, ServerAssumption
<1>2. QED BY <1>1, Inductive, PTL DEF Spec, ExecutesAll

-----------------------------------------------------------------------------
(* Clients that keep to a form.                                              *)

\* A client that sends known commands only, each with a parameter at least, and a
\* restart only as the last of a batch.
WellFormed ==
  \A b \in Batches : \A j \in 1..Len(b) :
    ~Stops(b[j]) /\ (j < Len(b) => b[j].op # RestartChip)

\* For such a client no command of a batch is left out: neither the length bytes
\* nor the parameters make the parser pass over one, nor return before the end, and
\* a batch that ends in a restart has been executed up to it
\* (process_command_batch).
THEOREM ExecutesWholeBatches ==
  WellFormed => (Spec => [][run # NoRun /\ run' = NoRun => Len(run.done) >= Len(run.sent)]_vars)
<1> SUFFICES ASSUME WellFormed
             PROVE  Spec => [][run # NoRun /\ run' = NoRun => Len(run.done) >= Len(run.sent)]_vars
  OBVIOUS
<1>1. ASSUME IInv, [Next]_vars, run # NoRun, run' = NoRun
      PROVE  Len(run.done) >= Len(run.sent)
  <2>1. run.sent \in Batches
    BY <1>1 DEF IInv, RunOK
  <2> DEFINE b == run.sent
  <2>2. b \in Seq(Commands)
    BY <2>1, ServerAssumption DEF ServerAssumption
  <2>3. /\ Count(b) \in 0..Len(b) /\ Len(b) \in Nat
        /\ \A j \in 1..Len(b) :
             (\A k \in 1..j : ~Stops(b[k]) /\ (k < j => b[k].op # RestartChip)) => j <= Count(b)
    BY <2>2, CountProperties
  <2>4. \A j \in 1..Len(b) : ~Stops(b[j]) /\ (j < Len(b) => b[j].op # RestartChip)
    BY <2>1 DEF WellFormed
  <2>5. Count(b) = Len(b)
    <3>1. CASE Len(b) = 0
      BY <2>3, <3>1
    <3>2. CASE Len(b) # 0
      <4>1. Len(b) \in 1..Len(b) /\ \A k \in 1..Len(b) : k \in 1..Len(b)
        BY <2>3, <3>2
      <4>2. QED BY <2>3, <2>4, <4>1
    <3>3. QED BY <3>1, <3>2
  <2>6. Len(run.done) >= Count(b)
    BY <1>1, StopStep, ServerAssumption
  <2>7. QED BY <2>5, <2>6
<1>2. IInv /\ [Next]_vars => [run # NoRun /\ run' = NoRun => Len(run.done) >= Len(run.sent)]_vars
  BY <1>1
<1>3. QED BY <1>2, Inductive, PTL DEF Spec

\* A client that ends its batches with a command the parser stops at, such as a
\* byte that is no operation.
Terminated == \A b \in Batches : b # << >> /\ Stops(b[Len(b)])

LEMMA TerminatedCount ==
  ASSUME Terminated, ServerAssumption, NEW b \in Batches
  PROVE  Count(b) \in Nat /\ Len(b) \in Nat /\ Count(b) < Len(b)
<1>1. b \in Seq(Commands) /\ Len(b) \in Nat /\ Len(b) # 0
  BY EmptySeq, LenProperties DEF Terminated, ServerAssumption
<1>2. Count(b) \in 0..Len(b) /\ \A k \in 1..Count(b) : ~Stops(b[k])
  BY <1>1, CountProperties
<1>3. Count(b) # Len(b)
  <2>1. Count(b) = Len(b) => Len(b) \in 1..Count(b)
    BY <1>1, <1>2
  <2>2. QED BY <1>2, <2>1 DEF Terminated
<1>4. QED BY <1>1, <1>2, <1>3

\* For such a client nothing is executed that was not sent: the byte the server
\* appends lies behind a place the parser does not pass, whatever the buffer held
\* (do_retransmit and process_command_batch).
THEOREM TerminatedBatches == Terminated => (Spec => []OnlySent)
<1> SUFFICES ASSUME Terminated PROVE Spec => []OnlySent
  OBVIOUS
<1>1. IInv => OnlySent
  <2> SUFFICES ASSUME IInv PROVE OnlySent
    OBVIOUS
  <2> DEFINE d == Len(run.done)
             m == Len(run.sent)
             n == Count(run.sent)
  <2>1. CASE run = NoRun
    BY <2>1 DEF NoRun, OnlySent
  <2>2. CASE run # NoRun
    <3>1. run.sent \in Batches
      BY <2>2 DEF IInv, RunOK
    <3>2. n \in Nat /\ m \in Nat /\ n < m
      BY <3>1, TerminatedCount, ServerAssumption
    <3>3. d \in Nat
      BY RunTypes, ServerAssumption DEF IInv
    <3>4. d <= n + (IF n = m THEN 1 ELSE 0)
      BY RunExecutesSent, ServerAssumption DEF ExecutesSent
    <3> HIDE DEF d, m, n
    <3>5. d <= m
      BY <3>2, <3>3, <3>4
    <3>6. QED BY <3>5 DEF OnlySent, d, m
  <2>3. QED BY <2>1, <2>2
<1>2. QED BY Inductive, <1>1, PTL
=============================================================================
