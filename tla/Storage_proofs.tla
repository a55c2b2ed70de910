---------------------------- MODULE Storage_proofs ----------------------------
(***************************************************************************)
(* What the operators of Storage return, for partitions of any size.       *)
(***************************************************************************)
EXTENDS Storage, Induction, FiniteSetTheorems, SequenceTheorems, TLAPS

\* storage_compute_entry_batch_count finds an index a uint32_t can hold, the
\* first that is free, in every partition that is not larger than Capacity.
LEMMA ComputeEntryBatchCountProperties ==
  ASSUME NEW log, StorageAssumption, IsFiniteSet(DOMAIN log),
         Cardinality(DOMAIN log) <= Capacity
  PROVE  LET n == ComputeEntryBatchCount(log)
         IN  n \in 0..(Word - 1) /\ n \notin DOMAIN log /\ 0..(n - 1) \subseteq DOMAIN log
<1> DEFINE D == DOMAIN log
           Free == (0..(Word - 1)) \ D
<1>0. Word \in Nat /\ Capacity \in Nat /\ Capacity + 1 < Word
  BY DEF StorageAssumption
<1>1. Free # {}
  <2> SUFFICES ASSUME 0..(Word - 1) \in SUBSET D PROVE FALSE
    OBVIOUS
  <2>1. Cardinality(0..(Word - 1)) <= Cardinality(D)
    BY FS_Subset
  <2>2. Cardinality(0..(Word - 1)) = Word
    BY <1>0, FS_Interval
  <2>3. Cardinality(D) \in Nat
    BY FS_CardinalityType
  <2>4. QED BY <1>0, <2>1, <2>2, <2>3
<1>2. PICK n \in Free : \A m \in Free : n <= m
  <2>1. Free \in SUBSET Nat
    OBVIOUS
  <2> HIDE DEF Free
  <2>2. QED BY <1>1, <2>1, LeastNatural
<1>3. n \in 0..Word /\ n \notin D /\ 0..(n - 1) \subseteq D
  BY <1>0, <1>2
<1> DEFINE P(k) == k \notin D /\ 0..(k - 1) \subseteq D
           c == CHOOSE k \in 0..Word : P(k)
<1>4. c \in 0..Word /\ P(c)
  BY <1>3
<1>5. c = n
  <2>1. ~ (c < n)
    BY <1>3, <1>4
  <2>2. ~ (n < c)
    BY <1>3, <1>4
  <2>3. QED BY <1>3, <1>4, <2>1, <2>2
<1>6. n \in 0..(Word - 1)
  BY <1>2
<1>7. QED BY <1>3, <1>5, <1>6 DEF ComputeEntryBatchCount

\* What storage_read_entry_batch puts in the buffer: entries of consecutive
\* indices from "from" on, none beyond "to", as many as there are.
LEMMA ReadEntryBatchProperties ==
  ASSUME NEW log, NEW from \in Int, NEW to \in Int,
         NEW b, b = ReadEntryBatch(log, from, to)
  PROVE  /\ Len(b) \in Nat
         /\ b = [j \in 1..Len(b) |-> log[from + j - 1]]
         /\ from > to => b = <<>>
         /\ from <= to => Len(b) <= to - from + 1
         /\ \A j \in 1..Len(b) : from + j - 1 \in DOMAIN log
         /\ from + Len(b) <= to => from + Len(b) \notin DOMAIN log
<1>1. CASE from > to
  <2>1. b = <<>>
    BY <1>1 DEF ReadEntryBatch
  <2>2. Len(b) = 0
    BY <2>1
  <2>3. b = [j \in 1..Len(b) |-> log[from + j - 1]]
    BY <2>1, <2>2
  <2>4. QED BY <1>1, <2>1, <2>2, <2>3
<1>2. CASE from <= to
  <2> DEFINE D == DOMAIN log
             P(k) == from..(k - 1) \subseteq D /\ (k <= to => k \notin D)
             Stops == {d \in Nat : d = to + 1 - from \/ from + d \notin D}
  <2>1. Stops \in SUBSET Nat /\ Stops # {}
    <3>1. to + 1 - from \in Stops
      BY <1>2
    <3>2. QED BY <3>1
  <2>2. PICK d \in Stops : \A m \in Stops : d <= m
    <3> HIDE DEF Stops
    <3>1. QED BY <2>1, LeastNatural
  <2>3. d \in Nat /\ d <= to + 1 - from
    <3>1. to + 1 - from \in Stops
      BY <1>2
    <3>2. d \in Nat
      OBVIOUS
    <3> HIDE DEF Stops
    <3>3. QED BY <2>2, <3>1, <3>2
  <2>4. from + d \in from..(to + 1) /\ P(from + d)
    <3>1. from..(from + d - 1) \subseteq D
      <4> SUFFICES ASSUME NEW i \in from..(from + d - 1), i \notin D PROVE FALSE
        OBVIOUS
      <4>1. i - from \in Stops
        BY <2>3
      <4>2. QED BY <2>2, <2>3, <4>1
    <3>2. from + d <= to => from + d \notin D
      BY <2>2, <2>3
    <3>3. QED BY <2>3, <3>1, <3>2
  <2> DEFINE end == CHOOSE k \in from..(to + 1) : P(k)
  <2>5. end \in from..(to + 1) /\ P(end)
    BY <2>4
  <2>6. b = [j \in 1..(end - from) |-> log[from + j - 1]]
    BY <1>2 DEF ReadEntryBatch
  <2> HIDE DEF end
  <2>7. \A j \in 1..(end - from) : from + j - 1 \in D
    BY <2>5
  <2>8. end - from \in Nat /\ Len(b) = end - from
    <3>1. end - from \in Nat
      BY <2>5
    <3> DEFINE V == {log[from + j - 1] : j \in 1..(end - from)}
    <3>2. b \in [1..(end - from) -> V]
      BY <2>6
    <3>3. b \in Seq(V)
      BY <3>1, <3>2, SeqDef
    <3>4. QED BY <3>1, <3>2, <3>3, LenProperties
  <2>9. b = [j \in 1..Len(b) |-> log[from + j - 1]]
    BY <2>6, <2>8
  <2>10. QED BY <1>2, <2>5, <2>7, <2>8, <2>9
<1>3. QED BY <1>1, <1>2

\* The block consists of entries.
LEMMA ReadEntryBatchType ==
  ASSUME NEW log, NEW Entries, NEW from \in Int, NEW to \in Int,
         \A i \in DOMAIN log : log[i] \in Entries
  PROVE  ReadEntryBatch(log, from, to) \in Seq(Entries)
<1> DEFINE b == ReadEntryBatch(log, from, to)
<1>1. /\ Len(b) \in Nat
      /\ b = [j \in 1..Len(b) |-> log[from + j - 1]]
      /\ \A j \in 1..Len(b) : from + j - 1 \in DOMAIN log
  BY ReadEntryBatchProperties
<1> HIDE DEF b
<1>2. b \in [1..Len(b) -> Entries]
  BY <1>1
<1>3. b \in Seq(Entries)
  BY <1>1, <1>2, SeqDef
<1>4. QED BY <1>3 DEF b
=============================================================================
