------------------------------ MODULE Recorder -------------------------------
(***************************************************************************)
(* What the data path of the sensor module promises when it transmits a    *)
(* window of the latest values and keeps everything it stored (README,     *)
(* "Data Collection Mode" and "Transmission Mode"): stored values are only *)
(* ever appended, and what goes out is the end of what is stored, oldest   *)
(* first.  Crashes, restarts and deep sleep are invisible at this level.   *)
(***************************************************************************)
EXTENDS Naturals, Sequences

CONSTANTS Readings, Window

VARIABLES stored, out

Last(n) == SubSeq(stored, Len(stored) - n + 1, Len(stored))

Init == stored = <<>> /\ out = <<>>

Store ==
  /\ \E r \in Readings : stored' = Append(stored, r)
  /\ UNCHANGED out

\* One value more than the window may go out (a value stored while the batch
\* is being assembled), and none at all while no more than the window is
\* stored.
Transmit ==
  /\ \/ Len(stored) <= Window /\ out' = <<>>
     \/ \E n \in {Window, Window + 1} : n <= Len(stored) /\ out' = Last(n)
  /\ UNCHANGED stored

Next == Store \/ Transmit

Spec == Init /\ [][Next]_<<stored, out>>
=============================================================================
