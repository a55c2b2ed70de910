------------------------------ MODULE MCProtocols ------------------------------
(* A small instance of Protocols for TLC. *)
EXTENDS Protocols

\* Batch lengths around the byte boundary of the length field, byte sums around
\* those of the checksum and of uint16_t.
Batches == [len : {0, 1, 241, 242, 2048}, sum : {0, 240, 241, 65008, 65009, 522240}]
=============================================================================
