---------------------------- MODULE MCRealtimeLoop -----------------------------
(* Instances of RealtimeLoop for TLC. *)
EXTENDS RealtimeLoop
================================================================================
