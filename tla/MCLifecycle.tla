------------------------------ MODULE MCLifecycle ------------------------------
(* Small instances of Lifecycle for TLC. *)
EXTENDS Lifecycle

\* config.c with a threshold of 2 for 5.
Factory ==
  [sleep_dur |-> 1, wake_thresh |-> 2, send_x |-> 2, active_prot |-> Wifi,
   deep_sleep |-> 1, config_mode |-> 1, t_wake_thresh |-> 1]

Deployed == [Factory EXCEPT !.config_mode = 0]

Set(k, v) == [op |-> "set", key |-> k, value |-> v]
RestartCmd == [op |-> "restart", key |-> "config_mode", value |-> 0]

Leave       == <<Set("config_mode", 0)>>
LeaveReboot == <<Set("config_mode", 0), RestartCmd>>
ToZigbee    == <<Set("active_prot", Zigbee)>>
SendOften   == <<Set("wake_thresh", 1)>>

DeployedOften == [Deployed EXCEPT !.wake_thresh = 1]
DeployedAwake == [Deployed EXCEPT !.deep_sleep = 0]

FreshOrDeployed == {[k \in {} |-> 0], Deployed}
AnyDeployed     == {Deployed, DeployedOften, DeployedAwake, [k \in {} |-> 0]}
OnlyDeployed    == {Deployed}
Configured      == {Factory}

NoBatches    == {}
OneBatch     == {ToZigbee}
SomeBatches  == {Leave, LeaveReboot, ToZigbee, SendOften}
=============================================================================
