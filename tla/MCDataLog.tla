------------------------------ MODULE MCDataLog ------------------------------
(* Small deployments of DataLog for TLC. *)
EXTENDS DataLog

CONSTANTS r1, r2, r3, r4, r5

FourReadings == {r1, r2, r3, r4}
FiveReadings == {r1, r2, r3, r4, r5}
=============================================================================
