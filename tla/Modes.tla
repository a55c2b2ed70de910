-------------------------------- MODULE Modes ---------------------------------
(***************************************************************************)
(* The modes the README's automaton names, as the program keeps them:      *)
(* what the stored configuration says decides the mode a boot ends up in,  *)
(* the button leads nowhere but to a restart that finds it, a transmission *)
(* belongs to a wakeup of the timer, and is over before the module sleeps. *)
(* Collecting and transmitting are one mode, deployed: a boot does both.   *)
(* Lifecycle implements it.                                                *)
(***************************************************************************)

VARIABLES
  mode,        \* "boot", "maintenance", "deployed", "asleep"
  why,         \* what began this boot: "power", "timer", "button"
  due,         \* a transmission is scheduled
  configured   \* the stored configuration is out of maintenance mode

vars == <<mode, why, due, configured>>

Init ==
  /\ mode = "boot" /\ why = "power" /\ due = FALSE /\ configured \in BOOLEAN

Schedule ==
  /\ mode = "boot" /\ why = "timer" /\ ~due
  /\ due' = TRUE
  /\ UNCHANGED <<mode, why, configured>>

Transmit ==
  /\ due
  /\ due' = FALSE
  /\ UNCHANGED <<mode, why, configured>>

Enter ==
  /\ mode = "boot" /\ why # "button"
  /\ mode' = IF configured THEN "deployed" ELSE "maintenance"
  /\ UNCHANGED <<why, due, configured>>

\* A command of the maintenance client.
Configure ==
  /\ mode = "maintenance"
  /\ configured' \in BOOLEAN
  /\ UNCHANGED <<mode, why, due>>

Sleep ==
  /\ mode \in {"maintenance", "deployed"} /\ ~due
  /\ mode' = "asleep"
  /\ UNCHANGED <<why, due, configured>>

Wake ==
  /\ mode = "asleep"
  /\ mode' = "boot" /\ why' \in {"timer", "button"}
  /\ UNCHANGED <<due, configured>>

\* At any time and for any reason.  Only the button and a command being
\* executed change what is stored, the button towards maintenance mode.
Restart ==
  /\ mode' = "boot" /\ why' = "power" /\ due' = FALSE
  /\ \/ UNCHANGED configured
     \/ mode = "maintenance" /\ configured' \in BOOLEAN
     \/ mode = "boot" /\ why = "button" /\ configured' = FALSE

Next ==
  \/ Schedule \/ Transmit \/ Enter \/ Configure \/ Sleep \/ Wake \/ Restart

Spec == Init /\ [][Next]_vars
=============================================================================
