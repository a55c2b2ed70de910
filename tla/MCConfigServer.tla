---------------------------- MODULE MCConfigServer ----------------------------
(* Small instances of ConfigServer for TLC. *)
EXTENDS ConfigServer

Cmd(o, d) == [op |-> o, data |-> d]

\* A short batch, a longer one that fills the buffer, whose parameters look like
\* commands and which ends with an unknown command, a restart after a command.
Leave  == <<Cmd(3, <<4, 0>>)>>
Long   == <<Cmd(1, <<5, 4, 5>>), Cmd(9, <<1>>)>>
Reboot == <<Cmd(5, <<1>>), Cmd(4, <<1>>)>>

SomeBatches == {Leave, Long, Reboot}
TwoBatches  == {Leave, Long}

\* A request that is answered, one that may be, one that is not.
SomeOthers == {<<Echo>>, <<DumpData, 0, 0, 0, 0, 0, 0, 0, 1>>, <<99>>}
NoOthers   == {}
=============================================================================
