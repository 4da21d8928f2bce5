---------------------------- MODULE Lifecycle_proofs ----------------------------
(* Theorems about the two things that are set up once and then shared: the event *)
(* loop of the driver, for any set of devices, and the logger of the process, for *)
(* any set of threads, levels and paths.                                          *)
EXTENDS EventLoop, Logging, TLAPS

--------------------------------------------------------------------------------
\* The inductive invariant: where the event thread and the destructor are tells what
\* libusb holds and how the two flags are set.
IndInv ==
    /\ TypeOK
    /\ ipc \in {"context", "select", "claim", "submit", "failed"} =>
           epc = "none" /\ dpc = "none" /\ transfer = "none"
    /\ ipc = "buffers" =>
           epc = "none" /\ dpc = "none" /\ transfer \in {"submitted", "completed"}
    /\ ipc = "storage" => epc # "none" /\ dpc = "none"
    /\ ipc = "ready" => epc # "none"
    /\ ipc = "thrown" => IF epc = "none" THEN dpc \in {"release", "destroyed"} ELSE dpc = "join"
    /\ open \subseteq Matching
    /\ ipc \in {"claim", "submit"} => Cardinality(open) = 1
    /\ InitAllOrNothing
    /\ handling_events_ <=> ~(ipc = "ready" /\ dpc # "none")
    /\ ~receive_transfer_busy_ =>
           ~handling_events_ /\ epc \in {"wait", "ended"} /\ transfer \in {"idle", "freed"}
    /\ transfer = "freed" => dpc = "destroyed"
    /\ epc = "ended" => ~receive_transfer_busy_
    /\ epc = "process" => transfer = "idle"
    /\ epc = "wait" /\ receive_transfer_busy_ =>
           transfer \in {"submitted", "cancelling", "completed"}
    /\ FreedAtRest /\ NothingHandledLate /\ StuckOnlyByRace

--------------------------------------------------------------------------------
\* Every step of init keeps the inductive invariant: nothing runs yet.
LEMMA AcquireStep ==
    ASSUME IndInv, Acquire
    PROVE  IndInv'
<1> USE EventLoopAssumption DEF IndInv, TypeOK, InitAllOrNothing, FreedAtRest,
        NothingHandledLate, StuckOnlyByRace, InitOver, flags, acquired
<1>1. CASE InitContext BY <1>1 DEF InitContext
<1>2. CASE \E d \in Devices : Examine(d) BY <1>2 DEF Examine
<1>3. CASE Select BY <1>3 DEF Select
<1>4. CASE SelectFails BY <1>4 DEF SelectFails, Unwind
<1>5. CASE ClaimInterface BY <1>5 DEF ClaimInterface
<1>6. CASE SubmitReceive BY <1>6 DEF SubmitReceive
<1>7. CASE SubmitFails BY <1>7 DEF SubmitFails
<1>8. CASE InitStepFails BY <1>8 DEF InitStepFails, Unwind
<1> QED BY <1>1, <1>2, <1>3, <1>4, <1>5, <1>6, <1>7, <1>8 DEF Acquire

\* So does every step of the rest of it, with the transfer submitted and, from one of them
\* on, the event thread running.
LEMMA ConstructStep ==
    ASSUME IndInv, Construct
    PROVE  IndInv'
<1> USE EventLoopAssumption DEF IndInv, TypeOK, InitAllOrNothing, FreedAtRest,
        NothingHandledLate, StuckOnlyByRace, flags, acquired
<1>1. CASE StartEventThread BY <1>1 DEF StartEventThread
<1>2. CASE FinishConstructor BY <1>2 DEF FinishConstructor
<1>3. CASE BuffersThrow BY <1>3 DEF BuffersThrow
<1>4. CASE StorageThrows BY <1>4 DEF StorageThrows
<1> QED BY <1>1, <1>2, <1>3, <1>4 DEF Construct

\* So does every step of libusb and of the event thread.
LEMMA EventThreadStep ==
    ASSUME IndInv, FrameArrives \/ CancelCompletes \/ EventThread \/ ResubmitFails
    PROVE  IndInv'
<1> USE EventLoopAssumption DEF IndInv, TypeOK, InitAllOrNothing, FreedAtRest,
        NothingHandledLate, StuckOnlyByRace, flags, acquired
<1>1. CASE FrameArrives BY <1>1 DEF FrameArrives
<1>2. CASE CancelCompletes BY <1>2 DEF CancelCompletes
<1>3. CASE LeaveLoop BY <1>3 DEF LeaveLoop
<1>4. CASE Callback BY <1>4 DEF Callback
<1>5. CASE Resubmit BY <1>5 DEF Resubmit
<1>6. CASE ResubmitFails BY <1>6 DEF ResubmitFails
<1> QED BY <1>1, <1>2, <1>3, <1>4, <1>5, <1>6 DEF EventThread

\* And every step of the shutdown.
LEMMA DestructorStep ==
    ASSUME IndInv, StopHandlingEvents \/ Destructor
    PROVE  IndInv'
<1> USE EventLoopAssumption DEF IndInv, TypeOK, InitAllOrNothing, FreedAtRest,
        NothingHandledLate, StuckOnlyByRace, flags, acquired
<1>1. CASE StopHandlingEvents BY <1>1 DEF StopHandlingEvents
<1>2. CASE Cancel BY <1>2 DEF Cancel
<1>3. CASE JoinEventThread BY <1>3 DEF JoinEventThread
<1>4. CASE ReleaseAll BY <1>4 DEF ReleaseAll
<1> QED BY <1>1, <1>2, <1>3, <1>4 DEF Destructor

\* The inductive invariant of the driver's life, from init to the destructor.
THEOREM Invariance == Spec => []IndInv
<1>1. Init => IndInv
    BY EventLoopAssumption DEF Init, IndInv, TypeOK, InitAllOrNothing, FreedAtRest,
       NothingHandledLate, StuckOnlyByRace
<1>2. IndInv /\ [Next]_vars => IndInv'
    <2> SUFFICES ASSUME IndInv, [Next]_vars PROVE IndInv'
        OBVIOUS
    <2>1. CASE UNCHANGED vars
        BY <2>1 DEF vars, acquired, flags, IndInv, TypeOK, InitAllOrNothing, FreedAtRest,
           NothingHandledLate, StuckOnlyByRace
    <2> QED BY <2>1, AcquireStep, ConstructStep, EventThreadStep, DestructorStep DEF Next
<1> QED BY <1>1, <1>2, PTL DEF Spec

\* An init that failed keeps no handle, no context and no interface; one that succeeded
\* keeps exactly one device.
THEOREM InitSafe == Spec => []InitAllOrNothing
<1>1. IndInv => InitAllOrNothing BY DEF IndInv
<1> QED BY <1>1, Invariance, PTL

\* A driver that was constructed frees the receive transfer only when libusb does not hold
\* it; a constructor that threw frees it only if it had not started the event thread.
THEOREM FreeSafe == Spec => []FreedAtRest
<1>1. IndInv => FreedAtRest BY DEF IndInv
<1> QED BY <1>1, Invariance, PTL

\* No frame whose callback begins after the stop reaches the handler.
THEOREM LateSafe == Spec => []NothingHandledLate
<1>1. IndInv => NothingHandledLate BY DEF IndInv
<1> QED BY <1>1, Invariance, PTL

\* The event thread is joined on a submitted transfer only by the race of the cancel, or by
\* a constructor that threw.
THEOREM RaceOnly == Spec => []StuckOnlyByRace
<1>1. IndInv => StuckOnlyByRace BY DEF IndInv
<1> QED BY <1>1, Invariance, PTL

--------------------------------------------------------------------------------
\* The logger.

\* The thread holds the instance mutex, and the thread is in the constructor.
InMutex(t) ==
    pc[t] \in {"console", "path", "file", "logger", "publish", "unlock", "apply", "store",
               "set path"}
Building(t) == pc[t] \in {"path", "file", "logger", "publish"}

\* The logger does what a configuration says, as far as it does anything.
Agrees(c) ==
    /\ logger.ready => logger.level = c.level /\ logger.path = c.path
    /\ logger.console # "absent" => logger.console = Switch(c.console)
    /\ logger.file # "absent" => logger.file = Switch(c.file)

\* The configuration that the thread is about to store.
Coming(t) == [config EXCEPT ![arg[t].field] = arg[t].to]

\* The two mutexes are held where the code holds them.
MutexesHeld ==
    \A t \in Threads : (mutex = t <=> InMutex(t)) /\ (path_mutex = t <=> pc[t] = "set path")

\* The constructor has run, is running or has not begun.
BuiltOnce ==
    /\ built = 1 => constructed \/ (mutex \in Threads /\ Building(mutex))
    /\ \A t \in Threads :
           /\ pc[t] = "console" => built = 0
           /\ pc[t] \in {"console", "set path"} \/ Building(t) => ~constructed
           /\ pc[t] \in {"unlock", "has logger"} => constructed

\* Until it is built the logger is empty, so that no setting can be missed; from then on it
\* agrees with the configuration, or with the one that a setter is about to store.
Followed ==
    /\ ~constructed /\ (\A t \in Threads : ~Building(t)) =>
           logger.console = "absent" /\ logger.file = "absent" /\ ~logger.ready
    /\ (\A t \in Threads : pc[t] # "store") => Agrees(config)
    /\ \A t \in Threads :
           /\ pc[t] = "store" => arg[t].field # "path" /\ Agrees(Coming(t))
           /\ pc[t] = "set path" => arg[t].field = "path"
           /\ pc[t] \in {"file", "logger"} => logger.path = config.path

LogInv == LoggerTypeOK /\ MutexesHeld /\ BuiltOnce /\ Followed

\* What a setting can be.
LEMMA SettingKinds ==
    ASSUME NEW s \in Settings
    PROVE  /\ s.field \in {"console", "file", "level", "path"}
           /\ s.field \in {"console", "file"} => s.to \in BOOLEAN
           /\ s.field = "level" => s.to \in Levels
           /\ s.field = "path" => s.to \in Paths
  BY DEF Settings

\* Every variable stays in its domain.
LEMMA LogTypeStep ==
    ASSUME LogInv, [LoggerNext]_loggerVars
    PROVE  LoggerTypeOK'
  <1> USE DEF LogInv, LoggerTypeOK, Stages, Goto, singleton
  <1>1. ASSUME NEW t \in Threads, GetLogger(t)
        PROVE  LoggerTypeOK'
    <2>a. calls \in 0..MaxCalls
      OBVIOUS
    <2>b. calls < MaxCalls /\ calls' = calls + 1
      BY <1>1 DEF GetLogger
    <2>1. calls' \in 0..MaxCalls
      <3> HIDE DEF LogInv
      <3> QED
        BY <2>a, <2>b, LoggingAssumption
    <2>2. pc' \in [Threads -> Stages]
      BY <1>1 DEF GetLogger
    <2> QED
      BY <1>1, <2>1, <2>2 DEF GetLogger
  <1>2. ASSUME NEW t \in Threads, NEW s \in Settings, Set(t, s)
        PROVE  LoggerTypeOK'
    <2>a. calls \in 0..MaxCalls
      OBVIOUS
    <2>b. calls < MaxCalls /\ calls' = calls + 1
      BY <1>2 DEF Set
    <2>1. calls' \in 0..MaxCalls
      <3> HIDE DEF LogInv
      <3> QED
        BY <2>a, <2>b, LoggingAssumption
    <2>2. pc' \in [Threads -> Stages]
      BY <1>2 DEF Set
    <2>3. arg' \in [Threads -> Settings]
      BY <1>2 DEF Set
    <2> QED
      BY <1>2, <2>1, <2>2, <2>3 DEF Set
  <1>3. ASSUME NEW t \in Threads, Lock(t)
        PROVE  LoggerTypeOK'
    BY <1>3 DEF Lock
  <1>4. ASSUME NEW t \in Threads, BuildConsole(t)
        PROVE  LoggerTypeOK'
    <2>a. built = 0 /\ built' = built + 1
      BY <1>4 DEF BuildConsole, BuiltOnce
    <2>1. built' \in 0..1
      <3> HIDE DEF LogInv
      <3> QED
        BY <2>a
    <2>2. logger' \in [console : {"absent", "on", "off"}, file : {"absent", "on", "off"},
                       ready : BOOLEAN, level : Levels, path : Paths]
      BY <1>4 DEF BuildConsole, Switch
    <2>3. pc' \in [Threads -> Stages]
      BY <1>4 DEF BuildConsole
    <2> QED
      BY <1>4, <2>1, <2>2, <2>3 DEF BuildConsole
  <1>5. ASSUME NEW t \in Threads, ReadPath(t)
        PROVE  LoggerTypeOK'
    BY <1>5 DEF ReadPath
  <1>6. ASSUME NEW t \in Threads, BuildFile(t)
        PROVE  LoggerTypeOK'
    <2>1. logger' \in [console : {"absent", "on", "off"}, file : {"absent", "on", "off"},
                       ready : BOOLEAN, level : Levels, path : Paths]
      BY <1>6 DEF BuildFile
    <2>2. pc' \in [Threads -> Stages]
      BY <1>6 DEF BuildFile
    <2> QED
      BY <1>6, <2>1, <2>2 DEF BuildFile
  <1>7. ASSUME NEW t \in Threads, BuildLogger(t)
        PROVE  LoggerTypeOK'
    BY <1>7 DEF BuildLogger
  <1>8. ASSUME NEW t \in Threads, GiveUp(t)
        PROVE  LoggerTypeOK'
    <2>a. \/ pc[t] = "console" /\ built = 0 /\ built' = built + 1
          \/ built' = built
      BY <1>8 DEF GiveUp, BuiltOnce
    <2>b. built \in 0..1
      OBVIOUS
    <2>1. built' \in 0..1
      <3> HIDE DEF LogInv
      <3> QED
        BY <2>a, <2>b, LoggingAssumption
    <2>2. pc' \in [Threads -> Stages]
      BY <1>8 DEF GiveUp
    <2> QED
      BY <1>8, <2>1, <2>2 DEF GiveUp
  <1>9. ASSUME NEW t \in Threads, Publish(t)
        PROVE  LoggerTypeOK'
    BY <1>9 DEF Publish
  <1>10. ASSUME NEW t \in Threads, Unlock(t)
         PROVE  LoggerTypeOK'
    BY <1>10 DEF Unlock
  <1>11. ASSUME NEW t \in Threads, Release(t)
         PROVE  LoggerTypeOK'
    BY <1>11 DEF Release
  <1>12. ASSUME NEW t \in Threads, Apply(t)
         PROVE  LoggerTypeOK'
    <2>1. arg[t] \in Settings
      OBVIOUS
    <2>2. arg[t].field \in {"console", "file", "level"}
      BY <1>12, <2>1, SettingKinds DEF Apply
    <2>3. logger' \in [console : {"absent", "on", "off"}, file : {"absent", "on", "off"},
                       ready : BOOLEAN, level : Levels, path : Paths]
      BY <1>12, <2>1, <2>2, SettingKinds DEF Apply, Applied, Switch
    <2> QED
      BY <1>12, <2>3 DEF Apply
  <1>13. ASSUME NEW t \in Threads, Store(t)
         PROVE  LoggerTypeOK'
    <2>1. arg[t] \in Settings
      OBVIOUS
    <2>2. config' \in [console : BOOLEAN, file : BOOLEAN, level : Levels, path : Paths]
      BY <1>13, <2>1, SettingKinds DEF Store
    <2> QED
      BY <1>13, <2>2 DEF Store
  <1>14. ASSUME NEW t \in Threads, TooLate(t)
         PROVE  LoggerTypeOK'
    BY <1>14 DEF TooLate
  <1>15. ASSUME NEW t \in Threads, LockPath(t)
         PROVE  LoggerTypeOK'
    BY <1>15 DEF LockPath
  <1>16. ASSUME NEW t \in Threads, SetPath(t)
         PROVE  LoggerTypeOK'
    <2>1. arg[t] \in Settings /\ arg[t].field = "path"
      BY <1>16 DEF SetPath, Followed
    <2>2. config' \in [console : BOOLEAN, file : BOOLEAN, level : Levels, path : Paths]
      BY <1>16, <2>1, SettingKinds DEF SetPath
    <2> QED
      BY <1>16, <2>2 DEF SetPath
  <1>17. CASE UNCHANGED loggerVars
    BY <1>17 DEF loggerVars
  <1> QED
    BY <1>1, <1>2, <1>3, <1>4, <1>5, <1>6, <1>7, <1>8, <1>9, <1>10, <1>11, <1>12, <1>13,
       <1>14, <1>15, <1>16, <1>17 DEF LoggerNext, Step

\* The mutexes are taken and released where the code does it.
LEMMA MutexStep ==
    ASSUME LogInv, [LoggerNext]_loggerVars
    PROVE  MutexesHeld'
  <1>a. MutexesHeld /\ pc \in [Threads -> Stages] /\ Nobody \notin Threads
    BY LoggingAssumption DEF LogInv, LoggerTypeOK
  <1> USE DEF MutexesHeld, InMutex, Goto, singleton
  <1>1. ASSUME NEW t \in Threads, GetLogger(t)
        PROVE  MutexesHeld'
    BY <1>a, <1>1 DEF GetLogger
  <1>2. ASSUME NEW t \in Threads, Lock(t)
        PROVE  MutexesHeld'
    BY <1>a, <1>2 DEF Lock
  <1>3. ASSUME NEW t \in Threads, BuildConsole(t)
        PROVE  MutexesHeld'
    BY <1>a, <1>3 DEF BuildConsole
  <1>4. ASSUME NEW t \in Threads, ReadPath(t)
        PROVE  MutexesHeld'
    BY <1>a, <1>4 DEF ReadPath
  <1>5. ASSUME NEW t \in Threads, BuildFile(t)
        PROVE  MutexesHeld'
    BY <1>a, <1>5 DEF BuildFile
  <1>6. ASSUME NEW t \in Threads, BuildLogger(t)
        PROVE  MutexesHeld'
    BY <1>a, <1>6 DEF BuildLogger
  <1>7. ASSUME NEW t \in Threads, GiveUp(t)
        PROVE  MutexesHeld'
    BY <1>a, <1>7 DEF GiveUp
  <1>8. ASSUME NEW t \in Threads, Publish(t)
        PROVE  MutexesHeld'
    BY <1>a, <1>8 DEF Publish
  <1>9. ASSUME NEW t \in Threads, Unlock(t)
        PROVE  MutexesHeld'
    BY <1>a, <1>9 DEF Unlock
  <1>10. ASSUME NEW t \in Threads, Release(t)
        PROVE  MutexesHeld'
    BY <1>a, <1>10 DEF Release
  <1>11. ASSUME NEW t \in Threads, Apply(t)
        PROVE  MutexesHeld'
    BY <1>a, <1>11 DEF Apply
  <1>12. ASSUME NEW t \in Threads, Store(t)
        PROVE  MutexesHeld'
    BY <1>a, <1>12 DEF Store
  <1>13. ASSUME NEW t \in Threads, TooLate(t)
        PROVE  MutexesHeld'
    BY <1>a, <1>13 DEF TooLate
  <1>14. ASSUME NEW t \in Threads, LockPath(t)
        PROVE  MutexesHeld'
    BY <1>a, <1>14 DEF LockPath
  <1>15. ASSUME NEW t \in Threads, SetPath(t)
        PROVE  MutexesHeld'
    BY <1>a, <1>15 DEF SetPath
  <1>16. ASSUME NEW t \in Threads, NEW s \in Settings, Set(t, s)
        PROVE  MutexesHeld'
    BY <1>a, <1>16 DEF Set
  <1>17. CASE UNCHANGED loggerVars
    BY <1>a, <1>17 DEF loggerVars
  <1> QED
    BY <1>1, <1>2, <1>3, <1>4, <1>5, <1>6, <1>7, <1>8, <1>9, <1>10, <1>11, <1>12, <1>13,
       <1>14, <1>15, <1>16, <1>17 DEF LoggerNext, Step

\* No two threads are inside the instance mutex.
LEMMA MutexExcludes ==
    ASSUME MutexesHeld, NEW s \in Threads, NEW t \in Threads, InMutex(s), InMutex(t)
    PROVE  s = t
  BY DEF MutexesHeld

\* The constructor runs once, and the logger is published when it is through.
LEMMA BuiltStep ==
    ASSUME LogInv, [LoggerNext]_loggerVars
    PROVE  BuiltOnce'
  <1> USE LoggingAssumption
      DEF LogInv, LoggerTypeOK, MutexesHeld, InMutex, BuiltOnce, Building, Goto, singleton
  <1>1. ASSUME NEW t \in Threads, GetLogger(t)
        PROVE  BuiltOnce'
    BY <1>1 DEF GetLogger
  <1>2. ASSUME NEW t \in Threads, NEW s \in Settings, Set(t, s)
        PROVE  BuiltOnce'
    BY <1>2 DEF Set
  <1>3. ASSUME NEW t \in Threads, Lock(t)
        PROVE  BuiltOnce'
    <2>1. mutex = Nobody /\ pc[t] \in {"lock to build", "lock to set"}
      BY <1>3 DEF Lock
    <2>2. built = 0 \/ constructed
      <3>1. built \in 0..1
        OBVIOUS
      <3>2. built = 1 => constructed
        BY <2>1
      <3> HIDE DEF LogInv
      <3> QED
        BY <3>1, <3>2
    <2>3. \A s \in Threads : ~InMutex(s)
      BY <2>1
    <2>4. pc'[t] = "console" => ~constructed
      BY <1>3, <2>1 DEF Lock
    <2>5. /\ pc'[t] \in {"console", "apply", "unlock"}
          /\ pc'[t] = "unlock" => constructed
      BY <1>3, <2>1 DEF Lock
    <2> QED
      BY <1>3, <2>2, <2>3, <2>4, <2>5 DEF Lock
  <1>4. ASSUME NEW t \in Threads, BuildConsole(t) \/ GiveUp(t)
        PROVE  BuiltOnce'
    <2>1. mutex = t /\ \A s \in Threads \ {t} : ~InMutex(s)
      BY <1>4 DEF BuildConsole, GiveUp
    <2>2. ~constructed
      BY <1>4 DEF BuildConsole, GiveUp
    <2>3. /\ pc' = [pc EXCEPT ![t] = pc'[t]] /\ pc'[t] \in {"path", "publish"}
          /\ constructed' = constructed /\ mutex' = mutex
      BY <1>4 DEF BuildConsole, GiveUp
    <2> QED
      BY <2>1, <2>2, <2>3
  <1>5. ASSUME NEW t \in Threads, ReadPath(t) \/ BuildFile(t) \/ BuildLogger(t)
        PROVE  BuiltOnce'
    <2>1. mutex = t /\ \A s \in Threads \ {t} : ~InMutex(s)
      BY <1>5 DEF ReadPath, BuildFile, BuildLogger
    <2>2. ~constructed
      BY <1>5 DEF ReadPath, BuildFile, BuildLogger
    <2>3. /\ pc' = [pc EXCEPT ![t] = pc'[t]] /\ pc'[t] \in {"file", "logger", "publish"}
          /\ constructed' = constructed /\ mutex' = mutex /\ built' = built
      BY <1>5 DEF ReadPath, BuildFile, BuildLogger
    <2> QED
      BY <2>1, <2>2, <2>3
  <1>6. ASSUME NEW t \in Threads, Publish(t)
        PROVE  BuiltOnce'
    <2>1. mutex = t /\ \A s \in Threads \ {t} : ~InMutex(s)
      BY <1>6 DEF Publish
    <2> QED
      BY <1>6, <2>1 DEF Publish
  <1>7. ASSUME NEW t \in Threads, Unlock(t) \/ Release(t)
        PROVE  BuiltOnce'
    <2>1. constructed /\ constructed' = constructed /\ built' = built
      BY <1>7 DEF Unlock, Release
    <2>2. pc' = [pc EXCEPT ![t] = pc'[t]] /\ pc'[t] \in {"has logger", "idle"}
      BY <1>7 DEF Unlock, Release
    <2> QED
      BY <2>1, <2>2
  <1>8. ASSUME NEW t \in Threads, Apply(t) \/ Store(t) \/ TooLate(t)
        PROVE  BuiltOnce'
    <2>1. mutex = t /\ ~Building(t)
      BY <1>8 DEF Apply, Store, TooLate
    <2>2. built = 1 => constructed
      BY <2>1
    <2>3. /\ pc' = [pc EXCEPT ![t] = pc'[t]] /\ pc'[t] \in {"store", "idle"}
          /\ constructed' = constructed /\ built' = built
      BY <1>8 DEF Apply, Store, TooLate
    <2> QED
      BY <2>2, <2>3
  <1>9. ASSUME NEW t \in Threads, LockPath(t) \/ SetPath(t)
        PROVE  BuiltOnce'
    <2>1. mutex = t /\ ~Building(t) /\ ~constructed
      BY <1>9 DEF LockPath, SetPath
    <2>2. built # 1
      BY <2>1
    <2>3. /\ pc' = [pc EXCEPT ![t] = pc'[t]] /\ pc'[t] \in {"set path", "idle"}
          /\ constructed' = constructed /\ built' = built
      BY <1>9 DEF LockPath, SetPath
    <2> QED
      BY <2>1, <2>2, <2>3
  <1>10. CASE UNCHANGED loggerVars
    BY <1>10 DEF loggerVars
  <1> QED
    BY <1>1, <1>2, <1>3, <1>4, <1>5, <1>6, <1>7, <1>8, <1>9, <1>10 DEF LoggerNext, Step

\* A thread that is in the mutex is alone there.
LEMMA Alone ==
    ASSUME LogInv, NEW t \in Threads, InMutex(t)
    PROVE  mutex = t /\ \A s \in Threads \ {t} : ~InMutex(s)
  BY DEF LogInv, MutexesHeld

\* Storing the setting that was applied makes the configuration the one that was coming.
LEMMA StoreAgrees ==
    ASSUME LogInv, NEW t \in Threads, Store(t)
    PROVE  Followed'
  <1>1. mutex = t /\ \A s \in Threads \ {t} : ~InMutex(s)
    BY Alone DEF Store, InMutex
  <1>2. config' = Coming(t) /\ Agrees(Coming(t))
    BY DEF Store, Coming, LogInv, Followed
  <1>3. pc' = [pc EXCEPT ![t] = "idle"] /\ logger' = logger /\ constructed' = constructed
    BY DEF Store, Goto
  <1>4. Agrees(config)'
    BY <1>2, <1>3 DEF Agrees, Switch
  <1>5. pc \in [Threads -> Stages]
    BY DEF LogInv, LoggerTypeOK
  <1>6. /\ pc'[t] = "idle"
        /\ \A s \in Threads \ {t} : pc'[s] = pc[s]
    BY <1>3, <1>5
  <1>7. \A s \in Threads : ~InMutex(s)'
    BY <1>1, <1>6 DEF InMutex
  <1>8. ~constructed' => logger'.console = "absent" /\ logger'.file = "absent" /\ ~logger'.ready
    <2>1. \A s \in Threads : ~Building(s)
      BY <1>1 DEF Store, Building, InMutex
    <2> QED
      BY <1>3, <2>1 DEF LogInv, Followed
  <1> QED
    BY <1>4, <1>7, <1>8 DEF Followed, InMutex

\* Steps that leave the logger, the configuration and the stages of the constructor alone.
LEMMA AsideFollowed ==
    ASSUME LogInv, NEW t \in Threads,
           \/ GetLogger(t) \/ Unlock(t) \/ Release(t)
           \/ TooLate(t) \/ LockPath(t) \/ Lock(t)
           \/ \E s \in Settings : Set(t, s)
    PROVE  Followed'
  <1>1. config' = config /\ logger' = logger /\ constructed' = constructed
    BY DEF GetLogger, Unlock, Release, TooLate, LockPath, Lock,
           Set, singleton
  <1>2. pc \in [Threads -> Stages] /\ arg \in [Threads -> Settings]
    BY DEF LogInv, LoggerTypeOK
  <1>3. /\ pc' = [pc EXCEPT ![t] = pc'[t]]
        /\ pc[t] \notin {"store", "set path", "file", "logger"} /\ ~Building(t)
        /\ pc'[t] \notin {"store", "file", "logger"} /\ ~Building(t)'
        /\ pc'[t] = "set path" => arg'[t].field = "path"
        /\ \A s \in Threads \ {t} : arg'[s] = arg[s]
    BY <1>2 DEF GetLogger, Unlock, Release, TooLate, LockPath, Lock,
                Set, Goto, Building
  <1>4. \A s \in Threads \ {t} : pc'[s] = pc[s] /\ Building(s)' = Building(s)
    BY <1>2, <1>3 DEF Building
  <1>5. \A s \in Threads \ {t} : pc[s] = "store" => Agrees(Coming(s))'
    <2> SUFFICES ASSUME NEW s \in Threads \ {t}, pc[s] = "store" PROVE Agrees(Coming(s))'
      OBVIOUS
    <2>1. Agrees(Coming(s))
      BY DEF LogInv, Followed
    <2>2. Coming(s)' = Coming(s)
      BY <1>1, <1>3 DEF Coming
    <2> QED
      BY <1>1, <2>1, <2>2 DEF Agrees, Switch
  <1>6. Agrees(config)' <=> Agrees(config)
    BY <1>1 DEF Agrees, Switch
  <1>7. \A s \in Threads :
            /\ pc'[s] = "store" => arg'[s].field # "path" /\ Agrees(Coming(s))'
            /\ pc'[s] = "set path" => arg'[s].field = "path"
            /\ pc'[s] \in {"file", "logger"} => logger'.path = config'.path
    BY <1>1, <1>3, <1>4, <1>5 DEF LogInv, Followed
  <1>8. (\A s \in Threads : pc'[s] # "store") => Agrees(config)'
    BY <1>3, <1>4, <1>6 DEF LogInv, Followed
  <1>9. ~constructed' /\ (\A s \in Threads : ~Building(s)') =>
            logger'.console = "absent" /\ logger'.file = "absent" /\ ~logger'.ready
    BY <1>1, <1>3, <1>4 DEF LogInv, Followed
  <1> QED
    BY <1>7, <1>8, <1>9 DEF Followed

\* A thread that is in the mutex and not about to store sees a logger that agrees with the
\* configuration, and an empty one as long as nobody builds it.
LEMMA SeenInside ==
    ASSUME LogInv, NEW t \in Threads, InMutex(t), pc[t] # "store"
    PROVE  /\ Agrees(config)
           /\ ~constructed /\ ~Building(t) =>
                  logger.console = "absent" /\ logger.file = "absent" /\ ~logger.ready
  <1>1. \A s \in Threads \ {t} : ~InMutex(s)
    BY Alone
  <1>2. \A s \in Threads : pc[s] # "store" /\ (s # t => ~Building(s))
    BY <1>1 DEF InMutex, Building
  <1> QED
    BY <1>2 DEF LogInv, Followed

\* A thread in the mutex keeps what it must by making the logger agree with the
\* configuration, if it leaves the constructor only to publish it.
LEMMA InsideFollowed ==
    ASSUME LogInv, NEW t \in Threads, InMutex(t),
           pc' = [pc EXCEPT ![t] = pc'[t]], pc'[t] \notin {"store", "set path"},
           pc'[t] \in {"file", "logger"} => logger'.path = config'.path,
           Agrees(config)',
           ~constructed' => \/ Building(t)'
                            \/ logger'.console = "absent" /\ logger'.file = "absent"
                                   /\ ~logger'.ready
    PROVE  Followed'
  <1>1. \A s \in Threads \ {t} : ~InMutex(s)
    BY Alone
  <1>2. pc \in [Threads -> Stages]
    BY DEF LogInv, LoggerTypeOK
  <1>3. \A s \in Threads \ {t} : pc'[s] \notin {"store", "set path", "file", "logger"}
    BY <1>1, <1>2 DEF InMutex
  <1> QED
    BY <1>3 DEF Followed

\* The constructor makes the logger agree with the configuration it reads.
LEMMA BuildFollowed ==
    ASSUME LogInv, NEW t \in Threads,
           \/ BuildConsole(t) \/ ReadPath(t) \/ BuildFile(t)
           \/ BuildLogger(t) \/ GiveUp(t) \/ Publish(t)
    PROVE  Followed'
  <1>1. InMutex(t) /\ pc[t] # "store"
    BY DEF BuildConsole, ReadPath, BuildFile, BuildLogger, GiveUp,
           Publish, InMutex
  <1>2. /\ pc \in [Threads -> Stages]
        /\ config \in [console : BOOLEAN, file : BOOLEAN, level : Levels, path : Paths]
        /\ logger \in [console : {"absent", "on", "off"}, file : {"absent", "on", "off"},
                       ready : BOOLEAN, level : Levels, path : Paths]
    BY DEF LogInv, LoggerTypeOK
  <1>3. Agrees(config)
    BY <1>1, SeenInside
  <1>4. /\ config' = config
        /\ pc' = [pc EXCEPT ![t] = pc'[t]]
        /\ pc'[t] \in {"path", "file", "logger", "publish", "unlock"}
        /\ pc'[t] = "unlock" => constructed'
    BY <1>2 DEF BuildConsole, ReadPath, BuildFile, BuildLogger, GiveUp,
                Publish, Goto, singleton
  <1>5. pc'[t] \in {"file", "logger"} => logger'.path = config'.path
    BY <1>2, <1>4 DEF BuildConsole, ReadPath, BuildFile, BuildLogger,
           GiveUp, Publish, Goto, LogInv, Followed
  <1>6. Agrees(config)'
    <2>1. CASE BuildConsole(t)
      BY <1>2, <1>3, <2>1 DEF BuildConsole, Agrees, Switch
    <2>2. CASE ReadPath(t)
      BY <1>2, <1>3, <2>2 DEF ReadPath, Agrees, Switch
    <2>3. CASE BuildFile(t)
      BY <1>2, <1>3, <2>3 DEF BuildFile, Agrees, Switch
    <2>4. CASE BuildLogger(t)
      <3>1. logger.path = config.path
        BY <2>4 DEF BuildLogger, LogInv, Followed
      <3> QED
        BY <1>2, <1>3, <2>4, <3>1 DEF BuildLogger, Agrees, Switch
    <2>5. CASE GiveUp(t) \/ Publish(t)
      BY <1>3, <2>5 DEF GiveUp, Publish, Agrees, Switch
    <2> QED
      BY <2>1, <2>2, <2>3, <2>4, <2>5
  <1>7. ~constructed' => Building(t)'
    BY <1>4 DEF Building
  <1> QED
    BY <1>1, <1>4, <1>5, <1>6, <1>7, InsideFollowed

\* The path can still change while the logger is empty.
LEMMA PathFollowed ==
    ASSUME LogInv, NEW t \in Threads, SetPath(t)
    PROVE  Followed'
  <1>1. InMutex(t) /\ pc[t] = "set path"
    BY DEF SetPath, InMutex
  <1>2. ~constructed /\ ~Building(t)
    BY <1>1 DEF LogInv, BuiltOnce, Building
  <1>3. /\ logger' = logger /\ constructed' = constructed
        /\ logger.console = "absent" /\ logger.file = "absent" /\ ~logger.ready
    BY <1>1, <1>2, SeenInside DEF SetPath
  <1>4. Agrees(config)'
    BY <1>3 DEF Agrees
  <1>5. pc' = [pc EXCEPT ![t] = "idle"] /\ pc'[t] = "idle"
    BY DEF SetPath, Goto, LogInv, LoggerTypeOK
  <1> QED
    BY <1>1, <1>3, <1>4, <1>5, InsideFollowed

\* A setting is applied to the logger that is there, or there is none that could miss it.
LEMMA ApplyFollowed ==
    ASSUME LogInv, NEW t \in Threads, Apply(t)
    PROVE  Followed'
  <1>1. InMutex(t) /\ pc[t] = "apply" /\ ~Building(t)
    BY DEF Apply, InMutex, Building
  <1>2. \A s \in Threads \ {t} : ~InMutex(s)
    BY <1>1, Alone
  <1>3. /\ pc \in [Threads -> Stages] /\ arg[t] \in Settings
        /\ config \in [console : BOOLEAN, file : BOOLEAN, level : Levels, path : Paths]
        /\ logger \in [console : {"absent", "on", "off"}, file : {"absent", "on", "off"},
                       ready : BOOLEAN, level : Levels, path : Paths]
    BY DEF LogInv, LoggerTypeOK
  <1>4. /\ Agrees(config)
        /\ ~constructed => logger.console = "absent" /\ logger.file = "absent" /\ ~logger.ready
    BY <1>1, SeenInside
  <1>5. arg[t].field \in {"console", "file", "level"}
    BY <1>3, SettingKinds DEF Apply
  <1>6. /\ config' = config /\ constructed' = constructed /\ arg' = arg
        /\ pc' = [pc EXCEPT ![t] = "store"]
        /\ logger' = IF constructed THEN Applied(arg[t]) ELSE logger
    BY DEF Apply, Goto, singleton
  <1>7. Agrees(Coming(t))'
    <2>1. CASE constructed /\ arg[t].field = "level"
      BY <1>3, <1>4, <1>6, <2>1 DEF Agrees, Coming, Applied, Switch
    <2>2. CASE constructed /\ arg[t].field = "console"
      BY <1>3, <1>4, <1>6, <2>2 DEF Agrees, Coming, Applied, Switch
    <2>3. CASE constructed /\ arg[t].field = "file"
      BY <1>3, <1>4, <1>6, <2>3 DEF Agrees, Coming, Applied, Switch
    <2>4. CASE ~constructed
      BY <1>4, <1>6, <2>4 DEF Agrees
    <2> QED
      BY <1>5, <2>1, <2>2, <2>3, <2>4
  <1>8. /\ pc'[t] = "store"
        /\ \A s \in Threads \ {t} : pc'[s] \notin {"store", "set path", "file", "logger"}
    BY <1>2, <1>3, <1>6 DEF InMutex
  <1>9. ~constructed' => logger'.console = "absent" /\ logger'.file = "absent" /\ ~logger'.ready
    BY <1>4, <1>6
  <1> QED
    BY <1>5, <1>6, <1>7, <1>8, <1>9 DEF Followed

\* Every step keeps the logger in agreement with the configuration.
LEMMA FollowedStep ==
    ASSUME LogInv, [LoggerNext]_loggerVars
    PROVE  Followed'
  <1>1. CASE UNCHANGED loggerVars
    <2>1. /\ config' = config /\ logger' = logger /\ constructed' = constructed
          /\ pc' = pc /\ arg' = arg
      BY <1>1 DEF loggerVars, singleton
    <2> QED
      BY <2>1 DEF LogInv, Followed, Agrees, Coming, Building, Switch
  <1>2. CASE LoggerNext
    BY <1>2, StoreAgrees, AsideFollowed, BuildFollowed, PathFollowed, ApplyFollowed
       DEF LoggerNext, Step
  <1> QED
    BY <1>1, <1>2

\* The logger's invariant.
THEOREM LogInvariance == LoggerSpec => []LogInv
  <1>1. LoggerInit => LogInv
    <2> SUFFICES ASSUME LoggerInit PROVE LogInv
      OBVIOUS
    <2>1. [field |-> "path", to |-> EmptyPath] \in Settings
      BY LoggingAssumption DEF Settings
    <2>2. LoggerTypeOK
      <3>1. calls \in 0..MaxCalls /\ built \in 0..1
        BY LoggingAssumption DEF LoggerInit
      <3> QED
        BY <2>1, <3>1, LoggingAssumption DEF LoggerInit, LoggerTypeOK, Stages
    <2>3. MutexesHeld /\ BuiltOnce
      BY LoggingAssumption DEF LoggerInit, MutexesHeld, InMutex, BuiltOnce, Building
    <2>4. Followed
      BY DEF LoggerInit, Followed, Agrees
    <2> QED
      BY <2>2, <2>3, <2>4 DEF LogInv
  <1>2. LogInv /\ [LoggerNext]_loggerVars => LogInv'
    <2> SUFFICES ASSUME LogInv, [LoggerNext]_loggerVars PROVE LogInv'
      OBVIOUS
    <2>1. LoggerTypeOK'
      BY LogTypeStep
    <2> QED
      BY <2>1, MutexStep, BuiltStep, FollowedStep DEF LogInv
  <1> QED
    BY <1>1, <1>2, PTL DEF LoggerSpec

\* Whoever finds the instance mutex free finds a logger that does what the configuration
\* says: no setting is lost between the setters and the constructor (logging.cpp).
THEOREM LoggerSafe == LoggerSpec => []LoggerFollowsConfig
  <1>1. LogInv => LoggerFollowsConfig
    <2> SUFFICES ASSUME LogInv, mutex = Nobody PROVE LoggerFollowsConfig
      BY DEF LoggerFollowsConfig
    <2>1. \A t \in Threads : pc[t] # "store"
      BY LoggingAssumption DEF LogInv, MutexesHeld, InMutex
    <2>2. Agrees(config)
      BY <2>1 DEF LogInv, Followed
    <2> QED
      BY <2>2 DEF Agrees, LoggerFollowsConfig
  <1> QED
    BY <1>1, LogInvariance, PTL

\* The constructor runs once, and nobody is handed a logger that is still being built
\* (Singleton::get_instance in singleton.hpp).
THEOREM OneLoggerSafe == LoggerSpec => []OneLogger
  <1>1. LogInv => OneLogger
    <2> SUFFICES ASSUME LogInv PROVE OneLogger
      OBVIOUS
    <2>1. built =< 1
      BY DEF LogInv, LoggerTypeOK
    <2>2. ASSUME NEW t \in Threads, pc[t] = "has logger"
          PROVE  constructed /\ \A s \in Threads :
                                    pc[s] \notin {"console", "path", "file", "logger"}
      <3>1. constructed
        BY <2>2 DEF LogInv, BuiltOnce
      <3> QED
        BY <3>1 DEF LogInv, BuiltOnce, Building
    <2> QED
      BY <2>1, <2>2 DEF OneLogger
  <1> QED
    BY <1>1, LogInvariance, PTL

================================================================================
