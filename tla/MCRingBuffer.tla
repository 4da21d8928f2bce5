----------------------------- MODULE MCRingBuffer ------------------------------
(* Instances of RingBuffer for TLC. *)
EXTENDS RingBuffer
================================================================================
