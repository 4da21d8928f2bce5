------------------------------- MODULE MCLogging -------------------------------
(* Model values for Logging: two threads, a quiet and a talkative level. *)
EXTENDS Logging

MCThreads == {"main", "user"}
MCLevels == {"INFO", "OFF"}
MCPaths == {"", "logs"}

================================================================================
