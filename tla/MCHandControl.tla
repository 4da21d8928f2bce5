----------------------------- MODULE MCHandControl -----------------------------
(* Instances of HandControl for TLC. *)
EXTENDS HandControl
================================================================================
