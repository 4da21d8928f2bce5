----------------------------- MODULE MCStorageUnit -----------------------------
(* Instances of StorageUnit for TLC. *)
EXTENDS StorageUnit
================================================================================
