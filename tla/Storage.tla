------------------------------- MODULE Storage -------------------------------
(***************************************************************************)
(* The data partition of the sensor module ("storage" in partitions.csv)   *)
(* as components/storage/storage.c uses it: NVS string values under the    *)
(* keys b_0, b_1, ...  The partition is a function from the indices that   *)
(* have a value to the stored entries; an entry (a base64 string of a time *)
(* stamp and three numbers) is opaque.  The functions of storage.c that    *)
(* only read the partition are operators here; the ones that change it are *)
(* made of steps other tasks interleave with, and are actions of DataLog.  *)
(***************************************************************************)
EXTENDS Integers, Sequences, FiniteSets

CONSTANTS
  Word,      \* 2^32, the number of values of a uint32_t
  Capacity   \* how many entries the partition holds

ASSUME StorageAssumption ==
  /\ Word \in Nat
  /\ Capacity \in Nat \ {0}
  /\ Capacity + 1 < Word

Wrap(n) == n % Word

\* An erased partition.
EmptyLog == [i \in {} |-> 0]

IsLog(log, Entries) ==
  /\ DOMAIN log \subseteq 0..(Word - 1)
  /\ log = [i \in DOMAIN log |-> log[i]]
  /\ \A i \in DOMAIN log : log[i] \in Entries

\* Every index below the first missing one has a value: what the scans of
\* storage.c, which stop at the first missing key, can reach.
Contiguous(log) == \E n \in 0..(Word - 1) : DOMAIN log = 0..(n - 1)

\* nvs_set_str needs room for a key it does not replace.
HasRoom(log, key) ==
  key \in DOMAIN log \/ Cardinality(DOMAIN log) < Capacity

SetEntry(log, key, entry) ==
  [i \in DOMAIN log \cup {key} |-> IF i = key THEN entry ELSE log[i]]

\* storage_read_entry_batch: the entries from..to, both ends included, up to
\* the first index that has none.
ReadEntryBatch(log, from, to) ==
  IF from > to THEN <<>>
  ELSE LET end == CHOOSE k \in from..(to + 1) :
                    /\ from..(k - 1) \subseteq DOMAIN log
                    /\ k <= to => k \notin DOMAIN log
       IN  [j \in 1..(end - from) |-> log[from + j - 1]]

\* storage_compute_entry_batch_count: the first index that has no value.
ComputeEntryBatchCount(log) ==
  CHOOSE n \in 0..Word : n \notin DOMAIN log /\ 0..(n - 1) \subseteq DOMAIN log
=============================================================================
