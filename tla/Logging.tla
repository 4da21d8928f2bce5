-------------------------------- MODULE Logging --------------------------------
(***************************************************************************)
(* The logger that all threads share (src/utility/logging.hpp) and the     *)
(* singleton that holds it (src/utility/singleton.hpp): it is constructed  *)
(* by whoever asks for it first, from a configuration that other threads   *)
(* may be changing through logging::set_log_* (src/utility/logging.cpp).   *)
(* The sinks, the queue of messages behind them (spdlog, external) and the *)
(* destruction at the end of the process are left out.                     *)
(***************************************************************************)
EXTENDS Integers

CONSTANTS
    Threads, Nobody,
    Levels,    \* values of logging::Level
    Paths,     \* log paths
    EmptyPath, \* the path that no file can be created in
    MaxCalls   \* bound: calls of get_logger and of the setters

ASSUME LoggingAssumption ==
    Nobody \notin Threads /\ EmptyPath \in Paths /\ MaxCalls \in Nat \ {0}

VARIABLES
    config,      \* Config: log_to_console_, log_to_file_, log_level_, log_path_
    path_mutex,  \* log_path_mutex_
    mutex, constructed,  \* SingletonUnit
    logger,      \* Logger: its sinks (absent, on or off), logger_ and the path it took
    pc, arg,     \* threads: where they are, the setting they want to make
    calls, built \* number of calls, and history: of constructor runs

singleton == <<mutex, constructed>>
loggerVars == <<config, path_mutex, singleton, logger, pc, arg, calls, built>>

Settings ==
    [field : {"console", "file"}, to : BOOLEAN] \cup [field : {"level"}, to : Levels]
        \cup [field : {"path"}, to : Paths]

Switch(on) == IF on THEN "on" ELSE "off"
Goto(t, where) == pc' = [pc EXCEPT ![t] = where]

\* The configuration comes from the environment, with defaults.
LoggerInit ==
    /\ config \in [console : BOOLEAN, file : BOOLEAN, level : Levels, path : Paths]
    /\ path_mutex = Nobody /\ mutex = Nobody /\ constructed = FALSE
    /\ logger = [console |-> "absent", file |-> "absent", ready |-> FALSE,
                  level |-> config.level, path |-> EmptyPath]
    /\ pc = [t \in Threads |-> "idle"]
    /\ arg = [t \in Threads |-> [field |-> "path", to |-> EmptyPath]]
    /\ calls = 0 /\ built = 0

--------------------------------------------------------------------------------
\* get_logger and the setters begin.

GetLogger(t) ==
    /\ pc[t] = "idle" /\ calls < MaxCalls
    /\ calls' = calls + 1
    /\ Goto(t, IF constructed THEN "has logger" ELSE "lock to build")
    /\ UNCHANGED <<config, path_mutex, singleton, logger, arg, built>>

Set(t, setting) ==
    /\ pc[t] = "idle" /\ calls < MaxCalls
    /\ calls' = calls + 1
    /\ arg' = [arg EXCEPT ![t] = setting]
    /\ Goto(t, "lock to set")
    /\ UNCHANGED <<config, path_mutex, singleton, logger, built>>

LockOnce(t) ==
    /\ pc[t] \in {"lock to build", "lock to set"} /\ mutex = Nobody
    /\ mutex' = t
    /\ Goto(t, IF pc[t] = "lock to set" THEN "apply" ELSE "console")
    /\ UNCHANGED <<config, path_mutex, constructed, logger, arg, calls, built>>

\* Under the lock it is checked again whether somebody else built the logger.
Lock(t) ==
    /\ pc[t] \in {"lock to build", "lock to set"} /\ mutex = Nobody
    /\ mutex' = t
    /\ Goto(t, CASE pc[t] = "lock to set" -> "apply"
                 [] pc[t] = "lock to build" /\ constructed -> "unlock"
                 [] OTHER -> "console")
    /\ UNCHANGED <<config, path_mutex, constructed, logger, arg, calls, built>>

--------------------------------------------------------------------------------
\* The constructor of Logger.

BuildConsole(t) ==
    /\ pc[t] = "console"
    /\ built' = built + 1
    /\ logger' = [logger EXCEPT !.console = Switch(config.console)]
    /\ Goto(t, "path")
    /\ UNCHANGED <<config, path_mutex, singleton, arg, calls>>

ReadPath(t) ==
    /\ pc[t] = "path" /\ path_mutex = Nobody
    /\ logger' = [logger EXCEPT !.path = config.path]
    /\ Goto(t, "file")
    /\ UNCHANGED <<config, path_mutex, singleton, arg, calls, built>>

\* The file may not come into being.
BuildFile(t) ==
    /\ pc[t] = "file"
    /\ \E sink \in {"absent"} \cup
                   (IF config.file /\ logger.path # EmptyPath THEN {"on"} ELSE {}) :
          logger' = [logger EXCEPT !.file = sink]
    /\ Goto(t, "logger")
    /\ UNCHANGED <<config, path_mutex, singleton, arg, calls, built>>

BuildLogger(t) ==
    /\ pc[t] = "logger"
    /\ logger' = [logger EXCEPT !.ready = TRUE, !.level = config.level]
    /\ Goto(t, "publish")
    /\ UNCHANGED <<config, path_mutex, singleton, arg, calls, built>>

\* An exception (no thread, no memory) leaves a Logger that drops every message.
GiveUp(t) ==
    /\ pc[t] \in {"console", "logger"}
    /\ built' = IF pc[t] = "console" THEN built + 1 ELSE built
    /\ Goto(t, "publish")
    /\ UNCHANGED <<config, path_mutex, singleton, logger, arg, calls>>

Publish(t) ==
    /\ pc[t] = "publish"
    /\ constructed' = TRUE
    /\ Goto(t, "unlock")
    /\ UNCHANGED <<config, path_mutex, mutex, logger, arg, calls, built>>

Unlock(t) ==
    /\ pc[t] = "unlock"
    /\ mutex' = Nobody
    /\ Goto(t, "has logger")
    /\ UNCHANGED <<config, path_mutex, constructed, logger, arg, calls, built>>

Release(t) ==
    /\ pc[t] = "has logger"
    /\ Goto(t, "idle")
    /\ UNCHANGED <<config, path_mutex, singleton, logger, arg, calls, built>>

--------------------------------------------------------------------------------
\* The setters, once they hold the lock.

\* A sink or a logger that is absent is left so.
Applied(setting) ==
    CASE setting.field = "level" ->
            IF logger.ready THEN [logger EXCEPT !.level = setting.to] ELSE logger
      [] setting.field \in {"console", "file"} ->
            IF logger[setting.field] = "absent" THEN logger
            ELSE [logger EXCEPT ![setting.field] = Switch(setting.to)]

ApplyAndUnlock(t) ==
    /\ pc[t] = "apply" /\ arg[t].field # "path"
    /\ logger' = IF constructed THEN Applied(arg[t]) ELSE logger
    /\ mutex' = Nobody
    /\ Goto(t, "store")
    /\ UNCHANGED <<config, path_mutex, constructed, arg, calls, built>>

Apply(t) ==
    /\ pc[t] = "apply" /\ arg[t].field # "path"
    /\ logger' = IF constructed THEN Applied(arg[t]) ELSE logger
    /\ Goto(t, "store")
    /\ UNCHANGED <<config, path_mutex, singleton, arg, calls, built>>

Store(t) ==
    /\ pc[t] = "store"
    /\ config' = [config EXCEPT ![arg[t].field] = arg[t].to]
    /\ mutex' = Nobody
    /\ Goto(t, "idle")
    /\ UNCHANGED <<path_mutex, constructed, logger, arg, calls, built>>

\* set_log_path throws once there is a Logger.
TooLate(t) ==
    /\ pc[t] = "apply" /\ arg[t].field = "path" /\ constructed
    /\ mutex' = Nobody
    /\ Goto(t, "idle")
    /\ UNCHANGED <<config, path_mutex, constructed, logger, arg, calls, built>>

LockPath(t) ==
    /\ pc[t] = "apply" /\ arg[t].field = "path" /\ ~constructed
    /\ path_mutex = Nobody
    /\ path_mutex' = t
    /\ Goto(t, "set path")
    /\ UNCHANGED <<config, singleton, logger, arg, calls, built>>

SetPath(t) ==
    /\ pc[t] = "set path"
    /\ config' = [config EXCEPT !.path = arg[t].to]
    /\ mutex' = Nobody /\ path_mutex' = Nobody
    /\ Goto(t, "idle")
    /\ UNCHANGED <<constructed, logger, arg, calls, built>>

Step(t) ==
    \/ Lock(t) \/ BuildConsole(t) \/ ReadPath(t) \/ BuildFile(t) \/ BuildLogger(t)
    \/ GiveUp(t) \/ Publish(t) \/ Unlock(t) \/ Release(t)
    \/ Apply(t) \/ Store(t) \/ TooLate(t) \/ LockPath(t) \/ SetPath(t)

LoggerNext ==
    \E t \in Threads : GetLogger(t) \/ (\E setting \in Settings : Set(t, setting)) \/ Step(t)

LoggerSpec == LoggerInit /\ [][LoggerNext]_loggerVars

--------------------------------------------------------------------------------
\* Properties.

Stages ==
    {"idle", "has logger", "lock to build", "lock to set", "console", "path", "file", "logger",
     "publish", "unlock", "apply", "store", "set path"}

\* Each variable stays in its domain.
LoggerTypeOK ==
    /\ config \in [console : BOOLEAN, file : BOOLEAN, level : Levels, path : Paths]
    /\ path_mutex \in Threads \cup {Nobody} /\ mutex \in Threads \cup {Nobody}
    /\ constructed \in BOOLEAN
    /\ logger \in [console : {"absent", "on", "off"}, file : {"absent", "on", "off"},
                   ready : BOOLEAN, level : Levels, path : Paths]
    /\ pc \in [Threads -> Stages] /\ arg \in [Threads -> Settings]
    /\ calls \in 0..MaxCalls /\ built \in 0..1

\* Whenever nobody holds the instance mutex, the logger does what the configuration says,
\* however the setters and the constructor interleaved: no setting is lost between the
\* constructor that reads it and the setter that finds no logger yet.  An absent sink
\* is excepted: without a log file when it is built, the logger never gets one.
LoggerFollowsConfig ==
    constructed /\ mutex = Nobody =>
        /\ logger.ready => logger.level = config.level /\ logger.path = config.path
        /\ logger.console # "absent" => logger.console = Switch(config.console)
        /\ logger.file # "absent" => logger.file = Switch(config.file)

\* The constructor runs once, and nobody is handed the logger before it is done.
OneLogger ==
    /\ built =< 1
    /\ \A t \in Threads : pc[t] = "has logger" =>
          constructed /\ \A s \in Threads : pc[s] \notin {"console", "path", "file", "logger"}

================================================================================
