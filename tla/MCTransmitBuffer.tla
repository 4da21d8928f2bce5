--------------------------- MODULE MCTransmitBuffer ----------------------------
(* Instances of TransmitBuffer for TLC. *)
EXTENDS TransmitBuffer
================================================================================
