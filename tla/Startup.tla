------------------------------- MODULE Startup --------------------------------
(***************************************************************************)
(* What app_main may rely on when it calls init_protocols: the call ends.  *)
(* A module in maintenance mode may come out of it without a connection, a *)
(* module that is to transmit over WiFi has an address or is restarted.    *)
(* Lifecycle's Connect and ConnectFails are this; Protocols implements it. *)
(***************************************************************************)

VARIABLES state, kind
vars == <<state, kind>>

\* "radio": transmits over WiFi; "server": maintenance mode; "plain": the rest.
Kinds  == {"none", "radio", "server", "plain"}
States == {"booting", "starting", "up", "alone"}

Init == state = "booting" /\ kind = "none"

Begin ==
  /\ state = "booting"
  /\ state' = "starting" /\ kind' \in Kinds \ {"none"}

\* A protocol that waits for nobody.
Start ==
  /\ state = "booting"
  /\ state' = "up" /\ kind' = "plain"

\* No protocol is needed, or none is found.
Skip == state = "booting" /\ state' = "alone" /\ UNCHANGED kind

Succeed == state = "starting" /\ state' = "up" /\ UNCHANGED kind

GoOn == state = "starting" /\ kind # "radio" /\ state' = "alone" /\ UNCHANGED kind

\* Sleep and restarts of every origin.
Boot == state # "booting" /\ state' = "booting" /\ kind' = "none"

Next == Begin \/ Start \/ Skip \/ Succeed \/ GoOn \/ Boot

Safety == Init /\ [][Next]_vars

Spec == Safety /\ WF_vars(Succeed \/ GoOn \/ (Boot /\ state = "starting"))
=============================================================================
