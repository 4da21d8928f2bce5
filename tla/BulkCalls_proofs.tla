---------------------------- MODULE BulkCalls_proofs -----------------------------
(* Theorems about BulkCalls, for every set of calls over the units of the hand, every *)
(* set of masks, and every number of calls and of frames on the way.                 *)
EXTENDS BulkCalls, FiniteSetTheorems, SequenceTheorems, TLAPS

--------------------------------------------------------------------------------
\* The inductive invariant, part by part.

\* The units that the call in progress has come past.
Started == {call.units[k] : k \in 1..(todo - 1)}

\* What the latch counts, as long as no visit strayed.  A unit of the call in progress
\* either owes its report or, if it failed, is among those that did; and the one whose
\* callback has yet to count down is not started again meanwhile.
LatchBalanced ==
    ~strayed /\ upc # "idle" =>
        /\ count = Cardinality(Owed) /\ errors = Cardinality(failed)
        /\ failed \cap Owed = {} /\ failed \cup Owed \subseteq Started
        /\ ~call.latched => Owed = {}
        /\ \A u \in Used : CountingFor(u) => ~(Busy(u) /\ unit[u].call = serial)

\* The inductive invariant.
IndInv ==
    /\ TypeOK /\ LatchBalanced /\ LatchOutlivesCalls
    /\ upc # "idle" => serial > 0

--------------------------------------------------------------------------------
\* Units.

\* The units of the calls are units of the hand, and there are finitely many.
LEMMA UsedUnits ==
    /\ IsFiniteSet(Used) /\ Used \subseteq 0..(StorageUnitCount - 1) /\ Nobody \notin Used
    /\ StorageUnitCount = 292
    /\ \A c \in Calls : /\ c.units \in Seq(Used) /\ Len(c.units) \in Nat /\ Len(c.units) > 0
                        /\ DOMAIN c.units = 1..Len(c.units)
                        /\ \A k \in 1..Len(c.units) : c.units[k] \in Used
  <1>1. StorageUnitCount = 292
    BY DEF StorageUnitCount, FingerDataCount, JointDataCount, HandDatas, JointDatas, Data
  <1>2. \A c \in Calls : /\ Len(c.units) \in Nat /\ Len(c.units) > 0
                         /\ DOMAIN c.units = 1..Len(c.units)
                         /\ \A k \in 1..Len(c.units) : c.units[k] \in 0..(StorageUnitCount - 1)
    <2> TAKE c \in Calls
    <2> DEFINE s == c.units
    <2>1. s \in Seq(0..(StorageUnitCount - 1)) /\ s # <<>>
      BY BulkAssumption
    <2> HIDE DEF s
    <2> DEFINE T == 0..(StorageUnitCount - 1)
    <2>2. s \in Seq(T)
      BY <2>1
    <2> HIDE DEF T
    <2>3. /\ Len(s) \in Nat /\ DOMAIN s = 1..Len(s)
          /\ \A k \in 1..Len(s) : s[k] \in T
      BY <2>2
    <2>4. Len(s) > 0
      BY <2>1, <2>2, <2>3, EmptySeq
    <2> QED
      BY <2>3, <2>4 DEF s, T
  <1>3. Used \subseteq 0..(StorageUnitCount - 1)
    BY <1>2 DEF Used
  <1>4. IsFiniteSet(Used)
    <2>1. \A n \in Int : IsFiniteSet(0..n)
      BY FS_Interval
    <2>2. StorageUnitCount - 1 \in Int
      BY <1>1
    <2>3. IsFiniteSet(0..(StorageUnitCount - 1))
      BY <2>1, <2>2
    <2>4. Used \in SUBSET (0..(StorageUnitCount - 1))
      BY <1>3
    <2> QED
      BY <2>3, <2>4, FS_Subset
  <1>5. \A c \in Calls : \A k \in 1..Len(c.units) : c.units[k] \in Used
    BY <1>2 DEF Used
  <1>6. \A c \in Calls : c.units \in Seq(Used)
    <2> TAKE c \in Calls
    <2>1. c.units \in Seq(0..(StorageUnitCount - 1))
      BY BulkAssumption
    <2> DEFINE s == c.units
    <2>2. /\ s \in Seq(0..(StorageUnitCount - 1))
          /\ \A k \in 1..Len(s) : s[k] \in Used
      BY <2>1, <1>5
    <2> HIDE DEF s
    <2>3. s \in Seq(Used)
      BY <2>2
    <2> QED
      BY <2>3 DEF s
  <1> QED
    BY <1>1, <1>2, <1>3, <1>4, <1>5, <1>6 DEF Nobody

--------------------------------------------------------------------------------
\* The types, a group of variables at a time.

UnitTypes == [mode : {"NONE", "READ", "WRITE"},
              state : {"WAITING", "READING", "WRITING", "WRITING_CONFIRMING", "SUCCESS"},
              timer : {"raw", "pending", "passed"}, call : 0..serial]

UserTypes ==
    /\ upc \in {"idle", "iterate", "wait"} /\ call \in Calls /\ serial \in Nat
    /\ todo \in Nat \ {0} /\ (upc = "iterate" => todo =< Len(call.units))

LatchTypes ==
    /\ count \in Int /\ errors \in Nat /\ failed \subseteq Used
    /\ strayed \in BOOLEAN /\ refused \in BOOLEAN /\ dangling \in BOOLEAN

SweepTypes == sweep \subseteq Used /\ retired \in Used \cup {Nobody}

CallbackTypes ==
    /\ callback \in [step : {"none", "count", "notify"}, unit : Used \cup {Nobody},
                     call : 0..serial, success : BOOLEAN]
    /\ callback.step # "none" => callback.unit \in Used

WireTypes == batch \in Seq(SilentRequests) /\ frames \in Seq(Seq(SilentRequests) \ {<<>>})

LEMMA TypeParts ==
    TypeOK <=> /\ mask \in Masks /\ unit \in [Used -> UnitTypes]
               /\ UserTypes /\ LatchTypes /\ SweepTypes /\ CallbackTypes /\ WireTypes
  BY DEF TypeOK, UnitTypes, UserTypes, LatchTypes, SweepTypes, CallbackTypes, WireTypes

\* The unit that a visiting user thread is at.
LEMMA UnitAtHand ==
    ASSUME TypeOK, upc = "iterate"
    PROVE  /\ todo \in 1..Len(call.units) /\ DOMAIN call.units = 1..Len(call.units)
           /\ call.units[todo] \in Used
           /\ call.units[todo] \notin Started
           /\ {call.units[k] : k \in 1..((todo + 1) - 1)} = Started \cup {call.units[todo]}
  <1>1. /\ call \in Calls /\ Len(call.units) \in Nat /\ DOMAIN call.units = 1..Len(call.units)
        /\ \A k \in 1..Len(call.units) : call.units[k] \in Used
        /\ \A i, j \in DOMAIN call.units : call.units[i] = call.units[j] => i = j
    BY UsedUnits, BulkAssumption DEF TypeOK
  <1>2. todo \in 1..Len(call.units) /\ todo \in Nat
    BY <1>1 DEF TypeOK
  <1>3. \A k \in 1..(todo - 1) : k \in 1..Len(call.units) /\ k # todo
    BY <1>1, <1>2
  <1>4. 1..((todo + 1) - 1) = (1..(todo - 1)) \cup {todo}
    BY <1>2
  <1> QED
    BY <1>1, <1>2, <1>3, <1>4 DEF Started

\* Retiring a unit frees it and leaves the others as they are.
LEMMA Retired ==
    ASSUME TypeOK, NEW u \in Used, Retire(u)
    PROVE  /\ unit' \in [Used -> UnitTypes]
           /\ unit'[u].mode = "NONE" /\ unit'[u].call = unit[u].call
           /\ \A v \in Used \ {u} : unit'[v] = unit[v]
  <1>1. unit \in [Used -> UnitTypes]
    BY TypeParts
  <1>2. unit' = [unit EXCEPT ![u] = [unit[u] EXCEPT !.mode = "NONE", !.state = "SUCCESS"]]
    BY <1>1 DEF Retire, UnitTypes
  <1>3. [unit[u] EXCEPT !.mode = "NONE", !.state = "SUCCESS"] \in UnitTypes
    BY <1>1 DEF UnitTypes
  <1> QED
    BY <1>1, <1>2, <1>3 DEF UnitTypes

\* The other steps that change a unit on the way change its state and its timer only.
MovesOn == \A v \in Used : unit'[v].mode = unit[v].mode /\ unit'[v].call = unit[v].call

LEMMA StateChanges ==
    ASSUME TypeOK, NEW u \in Used,
           NEW s \in {"WAITING", "READING", "WRITING", "WRITING_CONFIRMING", "SUCCESS"},
           NEW t \in {"raw", "pending", "passed"},
           unit' = [unit EXCEPT ![u] = [unit[u] EXCEPT !.state = s, !.timer = t]]
    PROVE  unit' \in [Used -> UnitTypes] /\ MovesOn
  <1>1. unit \in [Used -> UnitTypes]
    BY TypeParts
  <1>2. [unit[u] EXCEPT !.state = s, !.timer = t] \in UnitTypes
    BY <1>1 DEF UnitTypes
  <1> QED
    BY <1>1, <1>2 DEF UnitTypes, MovesOn

\* The steps of the threads that neither start nor retire a unit.
Quiet ==
    \/ EventStep \/ Transmit \/ BeginSweep
    \/ \E u \in Used : VisitFree(u) \/ Arm(u) \/ Poll(u) \/ Write(u) \/ DeadlinePasses(u)

LEMMA QuietSteps ==
    ASSUME TypeOK, Quiet
    PROVE  /\ unit' \in [Used -> UnitTypes] /\ MovesOn
           /\ UNCHANGED <<mask, user, latch, callback, strayed, refused>>
  <1>1. unit \in [Used -> UnitTypes]
    BY TypeParts
  <1>2. ASSUME unit' = unit
        PROVE  unit' \in [Used -> UnitTypes] /\ MovesOn
    BY <1>1, <1>2 DEF MovesOn
  <1>3. ASSUME NEW u \in Used, NEW s \in {"READING", "WRITING", "WRITING_CONFIRMING", "SUCCESS"},
               unit' = [unit EXCEPT ![u].state = s]
        PROVE  unit' \in [Used -> UnitTypes] /\ MovesOn
    <2>1. unit[u].timer \in {"raw", "pending", "passed"}
      BY <1>1 DEF UnitTypes
    <2>2. unit' = [unit EXCEPT ![u] = [unit[u] EXCEPT !.state = s, !.timer = unit[u].timer]]
      BY <1>1, <1>3 DEF UnitTypes
    <2> QED
      BY <2>1, <2>2, StateChanges
  <1>4. CASE EventStep
    <2>1. UNCHANGED <<mask, user, latch, callback, strayed, refused>>
      BY <1>4 DEF EventStep, ParseValue, ParseDone, ParseRefused, ParseFault, tick
    <2>2. CASE ParseValue
      BY <1>2, <1>3, <2>1, <2>2 DEF ParseValue, Becomes
    <2>3. CASE ParseDone
      BY <1>2, <1>3, <2>1, <2>3 DEF ParseDone, Becomes
    <2>4. CASE ParseRefused \/ ParseFault
      BY <1>2, <2>1, <2>4 DEF ParseRefused, ParseFault
    <2> QED
      BY <1>4, <2>1, <2>2, <2>3, <2>4 DEF EventStep
  <1>5. CASE Transmit \/ BeginSweep
    BY <1>2, <1>5 DEF Transmit, BeginSweep
  <1>6. CASE \E u \in Used : VisitFree(u) \/ Arm(u) \/ Poll(u) \/ Write(u) \/ DeadlinePasses(u)
    <2>1. PICK u \in Used : VisitFree(u) \/ Arm(u) \/ Poll(u) \/ Write(u) \/ DeadlinePasses(u)
      BY <1>6
    <2>2. UNCHANGED <<mask, user, latch, callback, strayed, refused>>
      BY <2>1 DEF VisitFree, Arm, Poll, Write, DeadlinePasses, tick
    <2>3. CASE VisitFree(u) \/ Poll(u)
      BY <1>2, <2>2, <2>3 DEF VisitFree, Poll
    <2>4. CASE Arm(u)
      <3> DEFINE s == IF unit[u].mode = "READ" THEN "READING" ELSE "WRITING"
      <3>1. unit' = [unit EXCEPT ![u] = [unit[u] EXCEPT !.state = s, !.timer = "pending"]]
        BY <1>1, <2>4 DEF Arm, UnitTypes
      <3> QED
        BY <2>2, <3>1, StateChanges
    <2>5. CASE Write(u)
      BY <1>3, <2>2, <2>5 DEF Write
    <2>6. CASE DeadlinePasses(u)
      <3>1. unit[u].state \in {"WAITING", "READING", "WRITING", "WRITING_CONFIRMING", "SUCCESS"}
        BY <1>1 DEF UnitTypes
      <3>2. unit' = [unit EXCEPT ![u] = [unit[u] EXCEPT !.state = unit[u].state, !.timer = "passed"]]
        BY <1>1, <2>6 DEF DeadlinePasses, UnitTypes
      <3> QED
        BY <2>2, <3>1, <3>2, StateChanges
    <2> QED
      BY <2>1, <2>3, <2>4, <2>5, <2>6
  <1> QED
    BY <1>4, <1>5, <1>6 DEF Quiet

\* The steps that do: the user's, the two visits that retire a unit, and the callback.
LEMMA NextSteps ==
    Next <=> \/ \E c \in Calls : Begin(c)
             \/ UserStep
             \/ \E u \in Used : VisitSuccess(u) \/ AfterSuccess(u) \/ Expire(u)
             \/ CountDown \/ Notify
             \/ Quiet
  BY DEF Next, TickStep, Quiet

\* Each step keeps the types of the units,
LEMMA UnitStep ==
    ASSUME TypeOK, [Next]_vars
    PROVE  unit' \in [Used -> UnitTypes']
  <1>1. unit \in [Used -> UnitTypes] /\ UserTypes
    BY TypeParts
  <1>2. ASSUME serial' = serial, unit' \in [Used -> UnitTypes]
        PROVE  unit' \in [Used -> UnitTypes']
    BY <1>2 DEF UnitTypes
  <1>3. ASSUME NEW c \in Calls, Begin(c)
        PROVE  unit' \in [Used -> UnitTypes']
    <2>1. unit' = unit /\ serial' = serial + 1 /\ serial \in Nat
      BY <1>1, <1>3 DEF Begin, UserTypes
    <2>2. 0..serial \subseteq 0..serial'
      BY <2>1
    <2>3. UnitTypes \subseteq UnitTypes'
      BY <2>2 DEF UnitTypes
    <2> QED
      BY <1>1, <2>1, <2>3
  <1>4. CASE Start
    <2>1. serial' = serial /\ call.units[todo] \in Used /\ serial \in Nat
      BY <1>1, <1>4, UnitAtHand DEF Start, NextUnit, UserTypes
    <2>2. call.mode \in {"READ", "WRITE"}
      BY <1>1, BulkAssumption DEF UserTypes
    <2> DEFINE new == [mode |-> call.mode, state |-> "WAITING", timer |-> "raw",
                       call |-> IF call.latched THEN serial ELSE 0]
    <2>3. new \in UnitTypes
      BY <2>1, <2>2 DEF UnitTypes
    <2>4. unit' = [unit EXCEPT ![call.units[todo]] = new]
      BY <1>4 DEF Start, Publish
    <2> HIDE DEF new
    <2> QED
      BY <1>1, <1>2, <2>1, <2>3, <2>4
  <1>5. CASE Skip \/ Throw \/ Return
    BY <1>1, <1>2, <1>5 DEF Skip, Throw, Return, NextUnit
  <1>6. ASSUME NEW u \in Used, VisitSuccess(u) \/ AfterSuccess(u) \/ Expire(u)
        PROVE  unit' \in [Used -> UnitTypes']
    <2>1. serial' = serial
      BY <1>6 DEF VisitSuccess, AfterSuccess, Expire, user
    <2>2. Retire(u) \/ unit' = unit
      BY <1>6 DEF VisitSuccess, AfterSuccess, Expire
    <2> QED
      BY <1>1, <1>2, <2>1, <2>2, Retired
  <1>7. CASE Quiet
    BY <1>2, <1>7, QuietSteps DEF user
  <1>8. CASE CountDown \/ Notify \/ UNCHANGED vars
    BY <1>1, <1>2, <1>8 DEF CountDown, Notify, TickUnchanged, vars, user
  <1> QED
    BY <1>3, <1>4, <1>5, <1>6, <1>7, <1>8, NextSteps DEF UserStep

\* of the user thread,
LEMMA UserTypesStep ==
    ASSUME TypeOK, [Next]_vars
    PROVE  UserTypes'
  <1>1. UserTypes
    BY TypeParts
  <1>2. ASSUME user' = user
        PROVE  UserTypes'
    BY <1>1, <1>2 DEF UserTypes, user
  <1>3. ASSUME NEW c \in Calls, Begin(c)
        PROVE  UserTypes'
    <2>1. Len(c.units) \in Nat /\ Len(c.units) > 0
      BY UsedUnits
    <2> QED
      BY <1>1, <1>3, <2>1 DEF Begin, UserTypes
  <1>4. CASE Start \/ Skip
    <2>1. NextUnit /\ upc = "iterate"
      BY <1>4 DEF Start, Skip
    <2>2. Len(call.units) \in Nat
      BY <1>1, UsedUnits DEF UserTypes
    <2> QED
      BY <1>1, <2>1, <2>2 DEF NextUnit, UserTypes
  <1>5. CASE Throw \/ Return
    BY <1>1, <1>5 DEF Throw, Return, UserTypes
  <1>6. ASSUME NEW u \in Used, VisitSuccess(u) \/ AfterSuccess(u) \/ Expire(u)
        PROVE  user' = user
    BY <1>6 DEF VisitSuccess, AfterSuccess, Expire
  <1>7. CASE Quiet
    BY <1>2, <1>7, QuietSteps DEF user
  <1>8. CASE CountDown \/ Notify \/ UNCHANGED vars
    BY <1>2, <1>8 DEF CountDown, Notify, TickUnchanged, vars
  <1> QED
    BY <1>2, <1>3, <1>4, <1>5, <1>6, <1>7, <1>8, NextSteps DEF UserStep

\* of the latch,
LEMMA LatchTypesStep ==
    ASSUME TypeOK, [Next]_vars
    PROVE  LatchTypes'
  <1>1. LatchTypes
    BY TypeParts
  <1>2. ASSUME UNCHANGED <<latch, strayed, refused>>
        PROVE  LatchTypes'
    BY <1>1, <1>2 DEF LatchTypes, latch
  <1>3. ASSUME NEW c \in Calls, Begin(c)
        PROVE  LatchTypes'
    BY <1>1, <1>3 DEF Begin, tick, LatchTypes
  <1>4. CASE Start
    BY <1>1, <1>4 DEF Start, tick, LatchTypes
  <1>5. CASE Skip
    BY <1>2, <1>5 DEF Skip, tick
  <1>12. CASE Throw
    <2>1. count' = 0 /\ errors' = 0 /\ failed' = {} /\ dangling' = dangling /\ strayed' = strayed
      BY <1>12 DEF Throw, tick
    <2>2. refused' \in BOOLEAN
      BY <1>12, Zenon DEF Throw
    <2> QED
      BY <1>1, <2>1, <2>2 DEF LatchTypes
  <1>6. CASE Return
    BY <1>1, <1>6 DEF Return, tick, LatchTypes
  <1>7. CASE CountDown
    <2>1. callback.unit \in Used /\ strayed' = strayed /\ refused' = refused
      BY <1>7, TypeParts DEF CountDown, TickUnchanged, CallbackTypes
    <2>2. CASE Alive(callback.call)
      <3>1. /\ count' = count - 1 /\ errors' = errors + (IF callback.success THEN 0 ELSE 1)
            /\ failed' = IF callback.success THEN failed ELSE failed \cup {callback.unit}
            /\ dangling' = dangling
        BY <1>7, <2>2 DEF CountDown
      <3> QED
        BY <1>1, <2>1, <3>1 DEF LatchTypes
    <2>3. CASE ~Alive(callback.call)
      <3>1. dangling' = TRUE /\ UNCHANGED <<count, errors, failed>>
        BY <1>7, <2>3 DEF CountDown
      <3> QED
        BY <1>1, <2>1, <3>1 DEF LatchTypes
    <2> QED
      BY <2>2, <2>3
  <1>8. ASSUME NEW u \in Used, VisitSuccess(u) \/ AfterSuccess(u) \/ Expire(u)
        PROVE  LatchTypes'
    <2>1. UNCHANGED <<latch, refused>> /\ strayed' \in {strayed, TRUE}
      BY <1>8 DEF VisitSuccess, AfterSuccess, Expire
    <2> QED
      BY <1>1, <2>1 DEF latch, LatchTypes
  <1>11. CASE Notify
    BY <1>2, <1>11 DEF Notify, TickUnchanged
  <1>9. CASE Quiet
    BY <1>2, <1>9, QuietSteps
  <1>10. CASE UNCHANGED vars
    BY <1>2, <1>10 DEF vars, tick
  <1> QED
    BY <1>3, <1>4, <1>5, <1>6, <1>7, <1>8, <1>9, <1>10, <1>11, <1>12,
       NextSteps DEF UserStep

\* of the sweep,
LEMMA SweepTypesStep ==
    ASSUME TypeOK, [Next]_vars
    PROVE  SweepTypes'
  <1>1. SweepTypes
    BY TypeParts
  <1>2. ASSUME UNCHANGED <<sweep, retired>>
        PROVE  SweepTypes'
    BY <1>1, <1>2 DEF SweepTypes
  <1>3. ASSUME NEW u \in Used, sweep' = sweep \/ sweep' = sweep \ {u},
               retired' \in {retired, u, Nobody}
        PROVE  SweepTypes'
    BY <1>1, <1>3 DEF SweepTypes
  <1>4. CASE (\E c \in Calls : Begin(c)) \/ UserStep
    BY <1>2, <1>4 DEF Begin, UserStep, Start, Skip, Throw, Return, tick
  <1>5. CASE EventStep
    BY <1>2, <1>5 DEF EventStep, ParseValue, ParseDone, ParseRefused, ParseFault, tick
  <1>6. CASE BeginSweep
    BY <1>1, <1>6 DEF BeginSweep, SweepTypes
  <1>7. CASE Transmit \/ CountDown \/ Notify
    BY <1>2, <1>7 DEF Transmit, CountDown, Notify, TickUnchanged
  <1>8. ASSUME NEW u \in Used,
               \/ VisitFree(u) \/ VisitSuccess(u) \/ AfterSuccess(u) \/ Arm(u)
               \/ Expire(u) \/ Poll(u) \/ Write(u)
        PROVE  SweepTypes'
    <2>1. sweep' = sweep \/ sweep' = sweep \ {u}
      BY <1>8 DEF VisitFree, VisitSuccess, AfterSuccess, Arm, Expire, Poll, Write, Leave
    <2>2. retired' \in {retired, u, Nobody}
      BY <1>8 DEF VisitFree, VisitSuccess, AfterSuccess, Arm, Expire, Poll, Write
    <2> QED
      BY <1>3, <2>1, <2>2
  <1>9. ASSUME NEW u \in Used, DeadlinePasses(u)
        PROVE  SweepTypes'
    BY <1>2, <1>9 DEF DeadlinePasses, tick
  <1>10. CASE UNCHANGED vars
    BY <1>2, <1>10 DEF vars, tick
  <1> QED
    BY <1>4, <1>5, <1>6, <1>7, <1>8, <1>9, <1>10 DEF Next, TickStep

\* of the callback,
LEMMA CallbackTypesStep ==
    ASSUME TypeOK, [Next]_vars
    PROVE  CallbackTypes'
  <1>1. CallbackTypes /\ UserTypes
    BY TypeParts
  <1>2. ASSUME UNCHANGED <<callback, serial>>
        PROVE  CallbackTypes'
    BY <1>1, <1>2 DEF CallbackTypes
  <1>3. ASSUME NEW c \in Calls, Begin(c)
        PROVE  CallbackTypes'
    <2>1. callback' = callback /\ serial' = serial + 1 /\ serial \in Nat
      BY <1>1, <1>3 DEF Begin, tick, UserTypes
    <2>2. 0..serial \subseteq 0..serial'
      BY <2>1
    <2> QED
      BY <1>1, <2>1, <2>2 DEF CallbackTypes
  <1>4. CASE UserStep
    BY <1>2, <1>4 DEF UserStep, Start, Skip, Throw, Return, NextUnit, tick
  <1>5. ASSUME serial' = serial, callback' = NoCallback
        PROVE  CallbackTypes'
    BY <1>1, <1>5 DEF CallbackTypes, UserTypes, NoCallback
  <1>6. ASSUME NEW u \in Used, NEW success \in BOOLEAN, serial' = serial, Tell(u, success)
        PROVE  CallbackTypes'
    <2>1. unit[u].call \in 0..serial
      BY TypeParts DEF UnitTypes
    <2>2. CASE unit[u].call = 0
      BY <1>5, <1>6, <2>2 DEF Tell
    <2>3. CASE unit[u].call # 0
      BY <1>6, <2>1, <2>3 DEF Tell, CallbackTypes
    <2> QED
      BY <2>2, <2>3
  <1>7. ASSUME NEW u \in Used, VisitSuccess(u) \/ AfterSuccess(u) \/ Expire(u)
        PROVE  CallbackTypes'
    <2>1. serial' = serial
      BY <1>7 DEF VisitSuccess, AfterSuccess, Expire, user
    <2>2. callback' = callback \/ Tell(u, TRUE) \/ Tell(u, FALSE)
      BY <1>7 DEF VisitSuccess, AfterSuccess, Expire
    <2> QED
      BY <1>2, <1>6, <2>1, <2>2
  <1>8. CASE CountDown \/ Notify
    <2>1. serial' = serial
      BY <1>8 DEF CountDown, Notify, TickUnchanged, user
    <2>2. \/ callback' = NoCallback
          \/ callback.step = "count" /\ callback' = [callback EXCEPT !.step = "notify"]
      <3>1. CASE CountDown /\ Alive(callback.call)
        <4>1. /\ callback.step = "count"
              /\ callback' = IF count = 1 THEN [callback EXCEPT !.step = "notify"] ELSE NoCallback
          BY <3>1, Zenon DEF CountDown
        <4> QED
          BY <4>1
      <3>2. CASE CountDown /\ ~Alive(callback.call)
        BY <3>2 DEF CountDown
      <3>3. CASE Notify
        BY <3>3 DEF Notify
      <3> QED
        BY <1>8, <3>1, <3>2, <3>3
    <2>3. CASE callback.step = "count" /\ callback' = [callback EXCEPT !.step = "notify"]
      BY <1>1, <2>1, <2>3 DEF CallbackTypes
    <2> QED
      BY <1>5, <2>1, <2>2, <2>3
  <1>9. CASE Quiet
    BY <1>2, <1>9, QuietSteps DEF user
  <1>10. CASE UNCHANGED vars
    BY <1>2, <1>10 DEF vars, tick, user
  <1> QED
    BY <1>3, <1>4, <1>7, <1>8, <1>9, <1>10, NextSteps

\* and of what is gathered and on the wire: the mask is that of the construction.
LEMMA MaskStays ==
    ASSUME [Next]_vars
    PROVE  mask' = mask
  <1>1. CASE (\E c \in Calls : Begin(c)) \/ UserStep
    BY <1>1 DEF Begin, UserStep, Start, Skip, Throw, Return
  <1>2. CASE TickStep
    BY <1>2 DEF TickStep, BeginSweep, Transmit, VisitFree, VisitSuccess, AfterSuccess, Arm,
                Expire, Poll, Write, CountDown, Notify, TickUnchanged
  <1>3. CASE EventStep \/ \E u \in Used : DeadlinePasses(u)
    BY <1>3 DEF EventStep, ParseValue, ParseDone, ParseRefused, ParseFault, DeadlinePasses
  <1> QED
    BY <1>1, <1>2, <1>3 DEF Next, vars

\* Taking the next object off leaves frames, none of them empty.
LEMMA ObjectTaken ==
    ASSUME NEW S, frames \in Seq(Seq(S) \ {<<>>}), frames # <<>>, NextObject
    PROVE  frames' \in Seq(Seq(S) \ {<<>>})
  <1> DEFINE F == Seq(S) \ {<<>>}
             f == Head(frames)
  <1>0. frames \in Seq(F)
    OBVIOUS
  <1>1. f \in F /\ Tail(frames) \in Seq(F)
    <2> HIDE DEF F
    <2> QED
      BY <1>0, HeadTailProperties
  <1>2. CASE Len(f) = 1
    BY <1>1, <1>2 DEF NextObject
  <1>3. CASE Len(f) # 1
    <2>1. f \in Seq(S) /\ f # <<>> /\ Len(f) \in Nat \ {0}
      BY <1>1, EmptySeq
    <2>2. Tail(f) \in Seq(S) /\ Len(Tail(f)) = Len(f) - 1
      BY <2>1, HeadTailProperties
    <2>3. Tail(f) # <<>>
      <3>1. Len(Tail(f)) # 0
        BY <1>3, <2>1, <2>2
      <3> QED
        BY <3>1, EmptySeq
    <2>4. Tail(f) \in F
      BY <2>2, <2>3
    <2>5. frames' = <<Tail(f)>> \o Tail(frames)
      BY <1>3 DEF NextObject
    <2> HIDE DEF F, f
    <2>6. <<Tail(f)>> \in Seq(F)
      BY <2>4
    <2> QED
      BY <1>1, <2>5, <2>6, ConcatProperties DEF F
  <1> QED
    BY <1>2, <1>3

LEMMA WireTypesStep ==
    ASSUME TypeOK, [Next]_vars
    PROVE  WireTypes'
  <1> DEFINE S == SilentRequests
             F == Seq(S) \ {<<>>}
  <1>1. batch \in Seq(S) /\ frames \in Seq(F)
    BY TypeParts DEF WireTypes
  <1>2. SilentRequests' = S
    BY MaskStays DEF SilentRequests, MaskedUnit
  <1> SUFFICES batch' \in Seq(S) /\ frames' \in Seq(F)
    BY <1>2 DEF WireTypes
  <1>3. ASSUME UNCHANGED <<batch, frames>>
        PROVE  batch' \in Seq(S) /\ frames' \in Seq(F)
    BY <1>1, <1>3
  <1>4. CASE (\E c \in Calls : Begin(c)) \/ UserStep
    BY <1>3, <1>4 DEF Begin, UserStep, Start, Skip, Throw, Return, tick
  <1>5. CASE EventStep
    <2>1. batch' = batch /\ frames # <<>>
      BY <1>5 DEF EventStep, ParseValue, ParseDone, ParseRefused, ParseFault, tick
    <2>2. NextObject \/ frames' = Tail(frames)
      BY <1>5 DEF EventStep, ParseValue, ParseDone, ParseRefused, ParseFault
    <2>3. CASE NextObject
      <3> HIDE DEF S
      <3>1. frames' \in Seq(F)
        BY <1>1, <2>1, <2>3, ObjectTaken
      <3> QED
        BY <1>1, <2>1, <3>1
    <2>4. CASE frames' = Tail(frames)
      <3> HIDE DEF F
      <3> QED
        BY <1>1, <2>1, <2>4, HeadTailProperties
    <2> QED
      BY <2>2, <2>3, <2>4
  <1>6. CASE BeginSweep \/ CountDown \/ Notify
    BY <1>3, <1>6 DEF BeginSweep, CountDown, Notify, TickUnchanged
  <1>7. CASE Transmit
    <2>1. batch \in F
      BY <1>1, <1>7 DEF Transmit
    <2>2. batch' = <<>> /\ frames' = Append(frames, batch)
      BY <1>7 DEF Transmit
    <2> HIDE DEF F, S
    <2>3. frames' \in Seq(F)
      BY <1>1, <2>1, <2>2, AppendProperties
    <2> QED
      BY <2>2, <2>3
  <1>8. ASSUME NEW u \in Used,
               VisitFree(u) \/ VisitSuccess(u) \/ AfterSuccess(u) \/ Arm(u) \/ Expire(u)
        PROVE  batch' \in Seq(S) /\ frames' \in Seq(F)
    BY <1>3, <1>8 DEF VisitFree, VisitSuccess, AfterSuccess, Arm, Expire
  <1>9. ASSUME NEW u \in Used, Poll(u) \/ Write(u)
        PROVE  batch' \in Seq(S) /\ frames' \in Seq(F)
    <2>1. ~MaskedUnit(u)
      BY <1>9 DEF Poll, Write, InFlight
    <2>2. PICK k \in {"read", "write"} : batch' = Append(batch, [kind |-> k, of |-> u])
      BY <1>9 DEF Poll, Write
    <2> DEFINE r == [kind |-> k, of |-> u]
    <2>3. r \in S
      BY <2>1 DEF SilentRequests
    <2>4. batch' = Append(batch, r) /\ frames' = frames
      BY <1>9, <2>2 DEF Poll, Write
    <2> HIDE DEF S, r
    <2>5. batch' \in Seq(S)
      BY <1>1, <2>3, <2>4, AppendProperties
    <2> QED
      BY <1>1, <2>4, <2>5
  <1>10. ASSUME NEW u \in Used, DeadlinePasses(u)
         PROVE  batch' \in Seq(S) /\ frames' \in Seq(F)
    BY <1>3, <1>10 DEF DeadlinePasses, tick
  <1>11. CASE UNCHANGED vars
    BY <1>3, <1>11 DEF vars, tick
  <1> QED
    BY <1>4, <1>5, <1>6, <1>7, <1>8, <1>9, <1>10, <1>11 DEF Next, TickStep

LEMMA TypeStep ==
    ASSUME TypeOK, [Next]_vars
    PROVE  TypeOK'
  <1>1. mask' \in Masks
    BY MaskStays DEF TypeOK
  <1>2. unit' \in [Used -> UnitTypes'] /\ UserTypes' /\ LatchTypes' /\ SweepTypes'
        /\ CallbackTypes' /\ WireTypes'
    BY UnitStep, UserTypesStep, LatchTypesStep, SweepTypesStep, CallbackTypesStep, WireTypesStep
  <1> QED
    BY <1>1, <1>2 DEF TypeOK, UnitTypes, UserTypes, LatchTypes, SweepTypes, CallbackTypes,
                      WireTypes

--------------------------------------------------------------------------------
\* The books of the latch.

LEMMA Countable ==
    ASSUME TypeOK
    PROVE  /\ IsFiniteSet(Owed) /\ Cardinality(Owed) \in Nat
           /\ IsFiniteSet(failed) /\ Cardinality(failed) \in Nat
  <1>1. IsFiniteSet(Used)
    BY UsedUnits
  <1>2. Owed \in SUBSET Used /\ failed \in SUBSET Used
    BY DEF Owed, TypeOK
  <1> QED
    BY <1>1, <1>2, FS_Subset, FS_CardinalityType

\* As long as nobody starts, retires or counts down, nothing is booked.
LEMMA NothingBooked ==
    ASSUME LatchBalanced, LatchOutlivesCalls, MovesOn,
           UNCHANGED <<user, latch, callback, strayed, refused>>
    PROVE  LatchBalanced' /\ LatchOutlivesCalls'
  <1>1. Owed' = Owed /\ Started' = Started
    BY DEF Owed, Busy, CountingFor, Started, MovesOn, user
  <1>2. LatchBalanced'
    BY <1>1 DEF LatchBalanced, CountingFor, Busy, MovesOn, user, latch
  <1>3. LatchOutlivesCalls'
    BY DEF LatchOutlivesCalls, Busy, Alive, MovesOn, user, latch
  <1> QED
    BY <1>2, <1>3

\* The visit that retires a unit and calls its callback books nothing yet: the unit is owed
\* as one whose callback has to count down.
LEMMA Told ==
    ASSUME TypeOK, LatchBalanced, LatchOutlivesCalls, upc # "idle" => serial > 0,
           NEW u \in Used, NEW success \in BOOLEAN,
           callback = NoCallback, Busy(u), Retire(u), Tell(u, success),
           UNCHANGED <<user, latch, strayed, refused>>
    PROVE  LatchBalanced' /\ LatchOutlivesCalls'
  <1>1. /\ unit'[u].mode = "NONE" /\ unit'[u].call = unit[u].call
        /\ \A v \in Used \ {u} : unit'[v] = unit[v]
    BY Retired
  <1>2. \A v \in Used : ~CountingFor(v)
    BY DEF CountingFor, NoCallback
  <1>3. ASSUME upc # "idle"
        PROVE  \A v \in Used : CountingFor(v)' <=> v = u /\ unit[u].call = serial
    <2>1. serial > 0 /\ serial' = serial /\ serial \in Nat
      BY <1>3 DEF user, TypeOK
    <2>2. CASE unit[u].call = 0
      BY <2>1, <2>2 DEF Tell, CountingFor, NoCallback
    <2>3. CASE unit[u].call # 0
      BY <2>1, <2>3 DEF Tell, CountingFor
    <2> QED
      BY <2>2, <2>3
  <1>4. ASSUME upc # "idle"
        PROVE  Owed' = Owed
    BY <1>1, <1>2, <1>3, <1>4 DEF Owed, Busy, user
  <1>5. Started' = Started
    BY DEF Started, user
  <1>6. LatchBalanced'
    BY <1>1, <1>3, <1>4, <1>5 DEF LatchBalanced, Busy, user, latch
  <1>7. ASSUME ~strayed, ~refused
        PROVE  /\ ~dangling' /\ (callback'.step = "count" => Alive(callback.call)')
               /\ \A v \in Used : Busy(v)' /\ unit'[v].call # 0 => Alive(unit[v].call)'
    <2>1. ~dangling /\ \A v \in Used : Busy(v) /\ unit[v].call # 0 => Alive(unit[v].call)
      BY <1>7 DEF LatchOutlivesCalls
    <2>2. \A n : Alive(n)' <=> Alive(n)
      BY DEF Alive, user
    <2>3. callback'.step = "count" => unit[u].call # 0 /\ callback'.call = unit[u].call
      BY DEF Tell, NoCallback
    <2>4. ASSUME callback'.step = "count"
          PROVE  Alive(callback.call)'
      BY <2>1, <2>3, <2>4 DEF Alive, user
    <2>5. ASSUME NEW v \in Used, Busy(v)', unit'[v].call # 0
          PROVE  Alive(unit[v].call)'
      BY <1>1, <2>1, <2>5 DEF Busy, Alive, user
    <2>6. dangling' = dangling
      BY DEF latch
    <2> QED
      BY <2>1, <2>4, <2>5, <2>6
  <1>8. LatchOutlivesCalls'
    BY <1>7 DEF LatchOutlivesCalls
  <1> QED
    BY <1>6, <1>8

\* The callback counts down on the latch of its call, which is alive: what was owed is owed
\* no more, and a failure is counted once.
LEMMA CountedDown ==
    ASSUME TypeOK, LatchBalanced, LatchOutlivesCalls, CountDown
    PROVE  LatchBalanced' /\ LatchOutlivesCalls'
  <1> DEFINE u == callback.unit
  <1>1. /\ callback.step = "count" /\ u \in Used /\ callback.success \in BOOLEAN
        /\ UNCHANGED <<unit, user, strayed, refused>>
    BY DEF CountDown, TickUnchanged, TypeOK
  <1>2. callback'.step # "count"
    BY <1>1 DEF CountDown, NoCallback, TypeOK
  <1>3. \A v \in Used : CountingFor(v) <=> v = u /\ callback.call = serial
    BY <1>1 DEF CountingFor
  <1>4. \A v \in Used : ~CountingFor(v)'
    BY <1>2 DEF CountingFor
  <1>5. Started' = Started /\ \A v \in Used : Busy(v)' <=> Busy(v)
    BY <1>1 DEF Started, Busy, user
  <1> HIDE DEF u
  <1>6. ASSUME ~strayed, upc # "idle"
        PROVE  /\ count' = Cardinality(Owed') /\ errors' = Cardinality(failed')
               /\ failed' \cap Owed' = {} /\ failed' \cup Owed' \subseteq Started'
               /\ ~call'.latched => Owed' = {}
    <2>1. /\ count = Cardinality(Owed) /\ errors = Cardinality(failed)
          /\ failed \cap Owed = {} /\ failed \cup Owed \subseteq Started
          /\ ~call.latched => Owed = {}
      BY <1>6 DEF LatchBalanced
    <2>2. Alive(callback.call) <=> callback.call = serial
      BY <1>6 DEF Alive, TypeOK
    <2>3. CASE callback.call = serial
      <3>1. u \in Owed /\ CountingFor(u)
        BY <1>1, <1>3, <2>3 DEF Owed
      <3>2. ~(Busy(u) /\ unit[u].call = serial)
        BY <1>1, <1>6, <3>1 DEF LatchBalanced
      <3>3. Owed' = Owed \ {u}
        BY <1>1, <1>3, <1>4, <1>5, <3>2 DEF Owed, user
      <3>4. count' = Cardinality(Owed')
        <4>1. Cardinality(Owed') = Cardinality(Owed) - 1
          BY <3>1, <3>3, Countable, FS_RemoveElement
        <4>2. count' = count - 1
          BY <2>2, <2>3 DEF CountDown
        <4> QED
          BY <2>1, <4>1, <4>2
      <3>5. errors' = Cardinality(failed') /\ failed' \subseteq failed \cup {u}
        <4>1. CASE callback.success
          BY <2>1, <2>2, <2>3, <4>1, Countable DEF CountDown
        <4>2. CASE ~callback.success
          <5>1. failed' = failed \cup {u} /\ errors' = errors + 1 /\ u \notin failed
            BY <2>1, <2>2, <2>3, <3>1, <4>2 DEF CountDown, u
          <5>2. Cardinality(failed') = Cardinality(failed) + 1
            BY <5>1, Countable, FS_AddElement
          <5> QED
            BY <2>1, <5>1, <5>2
        <4> QED
          BY <4>1, <4>2
      <3> QED
        BY <1>1, <1>5, <2>1, <3>1, <3>3, <3>4, <3>5 DEF user
    <2>4. CASE callback.call # serial
      <3>1. UNCHANGED <<count, errors, failed>>
        BY <2>2, <2>4 DEF CountDown
      <3>2. Owed' = Owed
        BY <1>1, <1>3, <1>4, <1>5, <2>4 DEF Owed, user
      <3> QED
        BY <1>1, <1>5, <2>1, <3>1, <3>2 DEF user
    <2> QED
      BY <2>3, <2>4
  <1>7. LatchBalanced'
    BY <1>1, <1>4, <1>6 DEF LatchBalanced, user
  <1>8. LatchOutlivesCalls'
    <2>1. ASSUME ~strayed, ~refused
          PROVE  Alive(callback.call) /\ ~dangling'
      BY <1>1, <2>1 DEF LatchOutlivesCalls, CountDown
    <2> QED
      BY <1>1, <1>2, <1>5, <2>1 DEF LatchOutlivesCalls, Alive, user
  <1> QED
    BY <1>7, <1>8

\* The notify books nothing, whether the latch is there or not.
LEMMA Notified ==
    ASSUME TypeOK, LatchBalanced, LatchOutlivesCalls, Notify
    PROVE  LatchBalanced' /\ LatchOutlivesCalls'
  <1>1. /\ callback.step = "notify" /\ callback'.step = "none"
        /\ UNCHANGED <<unit, user, latch, strayed, refused>>
    BY DEF Notify, TickUnchanged, NoCallback, latch
  <1>2. \A v \in Used : ~CountingFor(v) /\ ~CountingFor(v)'
    BY <1>1 DEF CountingFor
  <1>3. Owed' = Owed /\ Started' = Started
    BY <1>1, <1>2 DEF Owed, Busy, Started, user
  <1>4. LatchBalanced'
    BY <1>1, <1>2, <1>3 DEF LatchBalanced, user, latch
  <1>5. LatchOutlivesCalls'
    BY <1>1 DEF LatchOutlivesCalls, Busy, Alive, user, latch
  <1> QED
    BY <1>4, <1>5

\* Starting a unit books it: it was not one of those that failed, for the walk reaches a
\* unit once.
LEMMA StartBooked ==
    ASSUME IndInv, Start
    PROVE  LatchBalanced' /\ LatchOutlivesCalls'
  <1> DEFINE u == call.units[todo]
  <1>1. /\ TypeOK /\ LatchBalanced /\ LatchOutlivesCalls /\ serial \in Nat /\ serial > 0
        /\ upc = "iterate" /\ ~Busy(u) /\ NextUnit
        /\ UNCHANGED <<errors, failed, dangling, callback, strayed, refused, call, serial>>
    BY DEF IndInv, TypeOK, Start, NextUnit, tick
  <1>2. u \in Used /\ u \notin Started
    BY <1>1, UnitAtHand
  <1>3. Started' = Started \cup {u}
    BY <1>1, UnitAtHand DEF Started, NextUnit
  <1>4. /\ unit'[u].mode # "NONE"
        /\ unit'[u].call = (IF call.latched THEN serial ELSE 0)
        /\ \A v \in Used \ {u} : unit'[v] = unit[v]
    <2>1. call.mode \in {"READ", "WRITE"} /\ unit \in [Used -> UnitTypes]
      BY <1>1, TypeParts, BulkAssumption DEF UserTypes
    <2> QED
      BY <1>2, <2>1 DEF Start, Publish
  <1>5. Owed' = IF call.latched THEN Owed \cup {u} ELSE Owed
    BY <1>1, <1>2, <1>4 DEF Owed, Busy, CountingFor
  <1>6. ~strayed => u \notin Owed
    BY <1>1, <1>2 DEF LatchBalanced
  <1> HIDE DEF u
  <1>7. ASSUME ~strayed
        PROVE  /\ count' = Cardinality(Owed') /\ errors' = Cardinality(failed')
               /\ failed' \cap Owed' = {} /\ failed' \cup Owed' \subseteq Started'
               /\ ~call'.latched => Owed' = {}
    <2>1. /\ count = Cardinality(Owed) /\ errors = Cardinality(failed)
          /\ failed \cap Owed = {} /\ failed \cup Owed \subseteq Started
          /\ ~call.latched => Owed = {}
      BY <1>1, <1>7 DEF LatchBalanced
    <2>2. Cardinality(Owed \cup {u}) = Cardinality(Owed) + 1
      BY <1>1, <1>6, <1>7, Countable, FS_AddElement
    <2>3. count' = Cardinality(Owed')
      BY <1>1, <1>5, <2>1, <2>2, Countable DEF Start
    <2> QED
      BY <1>1, <1>2, <1>3, <1>5, <2>1, <2>3
  <1>11. ASSUME ~strayed, NEW v \in Used, CountingFor(v)'
         PROVE  ~(Busy(v)' /\ unit'[v].call = serial')
    <2>1. CountingFor(v) /\ v \in Owed
      BY <1>1, <1>11 DEF CountingFor, Owed
    <2>2. v # u /\ ~(Busy(v) /\ unit[v].call = serial)
      BY <1>1, <1>6, <1>11, <2>1 DEF LatchBalanced
    <2> QED
      BY <1>1, <1>4, <2>2 DEF Busy
  <1>8. LatchBalanced'
    BY <1>1, <1>7, <1>11 DEF LatchBalanced
  <1>9. ASSUME ~strayed, ~refused
        PROVE  /\ ~dangling' /\ (callback'.step = "count" => Alive(callback.call)')
               /\ \A v \in Used : Busy(v)' /\ unit'[v].call # 0 => Alive(unit[v].call)'
    <2>1. /\ ~dangling
          /\ \A v \in Used : Busy(v) /\ unit[v].call # 0 => unit[v].call = serial /\ v \in Owed
      BY <1>1, <1>9 DEF LatchOutlivesCalls, Alive, Owed
    <2>4. callback.step = "count" => callback.call = serial /\ callback.unit \in Owed
      BY <1>1, <1>9 DEF LatchOutlivesCalls, Alive, Owed, CountingFor, TypeOK
    <2>2. CASE call.latched
      <3>1. upc' \in {"iterate", "wait"}
        BY <1>1, <2>2 DEF NextUnit
      <3>2. ASSUME NEW v \in Used, Busy(v)', unit'[v].call # 0
            PROVE  unit'[v].call = serial
        BY <1>4, <2>1, <2>2, <3>2 DEF Busy
      <3> QED
        BY <1>1, <2>1, <2>4, <3>1, <3>2 DEF Alive
    <2>3. CASE ~call.latched
      <3>1. Owed = {}
        BY <1>1, <1>9, <2>3 DEF LatchBalanced
      <3>2. ASSUME NEW v \in Used, Busy(v)'
            PROVE  unit'[v].call = 0
        BY <1>4, <2>1, <2>3, <3>1, <3>2 DEF Busy
      <3> QED
        BY <1>1, <2>1, <2>4, <3>1, <3>2
    <2> QED
      BY <2>2, <2>3
  <1>10. LatchOutlivesCalls'
    BY <1>1, <1>9 DEF LatchOutlivesCalls
  <1> QED
    BY <1>8, <1>10

\* A call begins with nothing owed to it; one that passes over a unit, throws or returns
\* leaves nobody behind who could tell it, unless it throws half-way.
LEMMA UserBooked ==
    ASSUME IndInv, (\E c \in Calls : Begin(c)) \/ Skip \/ Throw \/ Return
    PROVE  LatchBalanced' /\ LatchOutlivesCalls'
  <1>1. /\ TypeOK /\ LatchBalanced /\ LatchOutlivesCalls /\ serial \in Nat /\ (upc # "idle" => serial > 0)
        /\ UNCHANGED <<unit, callback, strayed, dangling>>
    BY DEF IndInv, TypeOK, Begin, Skip, Throw, Return, tick, latch
  <1>2. ASSUME ~strayed, ~refused
        PROVE  /\ ~dangling
               /\ callback.step = "count" => upc # "idle" /\ callback.unit \in Owed
               /\ \A u \in Used : Busy(u) /\ unit[u].call # 0 => upc # "idle" /\ u \in Owed
    BY <1>1, <1>2 DEF LatchOutlivesCalls, Alive, Owed, CountingFor, TypeOK
  <1>6. ASSUME Owed = {} \/ upc = "idle" \/ strayed \/ refused \/ strayed' \/ refused'
        PROVE  LatchOutlivesCalls'
    <2>1. ASSUME ~strayed', ~refused', ~strayed, ~refused
          PROVE  /\ ~dangling' /\ callback'.step # "count"
                 /\ \A u \in Used : ~(Busy(u)' /\ unit'[u].call # 0)
      BY <1>1, <1>2, <1>6, <2>1 DEF Busy
    <2>2. (strayed => strayed') /\ (refused => refused')
      <3>1. strayed' = strayed
        BY <1>1
      <3>2. refused' = refused \/ Throw
        BY DEF Begin, Skip, Return
      <3>3. Throw => (refused => refused')
        BY Zenon DEF Throw
      <3> QED
        BY <3>1, <3>2, <3>3
    <2> QED
      BY <2>1, <2>2 DEF LatchOutlivesCalls
  <1>3. ASSUME NEW c \in Calls, Begin(c)
        PROVE  LatchBalanced' /\ LatchOutlivesCalls'
    <2>1. serial' = serial + 1 /\ upc = "idle" /\ count' = 0 /\ errors' = 0 /\ failed' = {}
          /\ refused' = refused
      BY <1>3 DEF Begin
    <2>2. Owed' = {}
      <3>1. \A u \in Used : unit[u].call \in 0..serial
        BY <1>1 DEF TypeOK
      <3>2. \A u \in Used : unit[u].call # serial + 1
        BY <1>1, <3>1
      <3>3. callback.call # serial + 1
        BY <1>1 DEF TypeOK
      <3> QED
        BY <1>1, <2>1, <3>2, <3>3 DEF Owed, CountingFor
    <2>3. LatchBalanced'
      BY <2>1, <2>2, FS_EmptySet DEF LatchBalanced, Owed
    <2>4. LatchOutlivesCalls'
      BY <1>6, <2>1
    <2> QED
      BY <2>3, <2>4
  <1>4. CASE Skip
    <2>1. /\ upc = "iterate" /\ ~call.latched /\ NextUnit
          /\ UNCHANGED <<count, errors, failed, call, serial, refused>>
      BY <1>4 DEF Skip, NextUnit, latch
    <2>2. Owed' = Owed /\ Started \subseteq Started'
      <3>1. todo \in Nat /\ todo' = todo + 1
        BY <1>1, <2>1 DEF NextUnit, TypeOK
      <3>2. 1..(todo - 1) \subseteq 1..(todo' - 1)
        BY <3>1
      <3> QED
        BY <1>1, <2>1, <3>2 DEF Owed, Busy, CountingFor, Started
    <2>3. LatchBalanced'
      BY <1>1, <2>1, <2>2 DEF LatchBalanced, CountingFor, Busy
    <2>4. LatchOutlivesCalls'
      <3>1. ~strayed => Owed = {}
        BY <1>1, <2>1 DEF LatchBalanced
      <3> QED
        BY <1>6, <3>1
    <2> QED
      BY <2>3, <2>4
  <1>5. CASE Throw
    <2>1. upc = "iterate" /\ upc' = "idle" /\ refused' = (refused \/ Owed # {})
      BY <1>5 DEF Throw
    <2>2. LatchBalanced'
      BY <2>1 DEF LatchBalanced
    <2>3. LatchOutlivesCalls'
      BY <1>6, <2>1
    <2> QED
      BY <2>2, <2>3
  <1>7. CASE Return
    <2>1. upc = "wait" /\ count = 0 /\ upc' = "idle" /\ refused' = refused
      BY <1>7 DEF Return
    <2>2. LatchBalanced'
      BY <2>1 DEF LatchBalanced
    <2>3. ~strayed => Owed = {}
      <3>1. ~strayed => Cardinality(Owed) = 0
        BY <1>1, <2>1 DEF LatchBalanced
      <3> QED
        BY <1>1, <3>1, Countable, FS_EmptySet
    <2>4. LatchOutlivesCalls'
      BY <1>6, <2>3
    <2> QED
      BY <2>2, <2>4
  <1> QED
    BY <1>3, <1>4, <1>5, <1>7

--------------------------------------------------------------------------------
\* The inductive invariant.

LEMMA InitInv ==
    ASSUME Init
    PROVE  IndInv
  <1>1. (CHOOSE c \in Calls : TRUE) \in Calls
    BY BulkAssumption
  <1>2. unit \in [Used -> UnitTypes] /\ mask \in Masks
    BY DEF Init, UnitTypes, Free
  <1>3. UserTypes
    BY <1>1 DEF Init, UserTypes
  <1>6. SweepTypes
    BY DEF Init, SweepTypes
  <1>7. LatchTypes
    <2>1. count \in Int /\ errors \in Nat /\ failed \subseteq Used
      BY DEF Init
    <2>2. strayed \in BOOLEAN /\ refused \in BOOLEAN /\ dangling \in BOOLEAN
      BY Zenon DEF Init
    <2> QED
      BY <2>1, <2>2 DEF LatchTypes
  <1>4. WireTypes
    BY EmptySeq DEF Init, WireTypes
  <1>5. \A u \in Used : ~Busy(u)
    BY DEF Init, Busy, Free
  <1>8. CallbackTypes /\ callback.step # "count"
    BY DEF Init, CallbackTypes, NoCallback
  <1> QED
    BY <1>2, <1>3, <1>4, <1>5, <1>6, <1>7, <1>8, TypeParts
       DEF IndInv, Init, LatchBalanced, LatchOutlivesCalls

LEMMA StepInv ==
    ASSUME IndInv, [Next]_vars
    PROVE  IndInv'
  <1>1. TypeOK /\ LatchBalanced /\ LatchOutlivesCalls /\ (upc # "idle" => serial > 0)
    BY DEF IndInv
  <1>2. TypeOK'
    BY <1>1, TypeStep
  <1>3. LatchBalanced' /\ LatchOutlivesCalls'
    <2>1. CASE (\E c \in Calls : Begin(c)) \/ Skip \/ Throw \/ Return
      BY <2>1, UserBooked
    <2>2. CASE Start
      BY <2>2, StartBooked
    <2>3. ASSUME NEW u \in Used, VisitSuccess(u) \/ AfterSuccess(u) \/ Expire(u)
          PROVE  LatchBalanced' /\ LatchOutlivesCalls'
      <3>1. CASE VisitSuccess(u)
        BY <1>1, <3>1, Told DEF VisitSuccess, At
      <3>2. CASE AfterSuccess(u) /\ Due(u)
        BY <3>2 DEF AfterSuccess, LatchBalanced, LatchOutlivesCalls
      <3>3. CASE AfterSuccess(u) /\ ~Due(u)
        BY <1>1, <3>3, NothingBooked DEF AfterSuccess, MovesOn
      <3>4. CASE Expire(u)
        BY <1>1, <3>4, Told DEF Expire, InFlight, At
      <3> QED
        BY <2>3, <3>1, <3>2, <3>3, <3>4
    <2>4. CASE Quiet
      BY <1>1, <2>4, QuietSteps, NothingBooked
    <2>5. CASE UNCHANGED vars
      BY <1>1, <2>5, NothingBooked DEF vars, tick, MovesOn
    <2>6. CASE CountDown
      BY <1>1, <2>6, CountedDown
    <2>7. CASE Notify
      BY <1>1, <2>7, Notified
    <2> QED
      BY <2>1, <2>2, <2>3, <2>4, <2>5, <2>6, <2>7, NextSteps DEF UserStep
  <1>4. upc' # "idle" => serial' > 0
    <2>1. CASE \E c \in Calls : Begin(c)
      BY <1>1, <2>1 DEF Begin, TypeOK
    <2>2. CASE UserStep
      BY <1>1, <2>2 DEF UserStep, Start, Skip, Throw, Return, NextUnit
    <2>3. ASSUME NEW u \in Used, VisitSuccess(u) \/ AfterSuccess(u) \/ Expire(u)
          PROVE  user' = user
      BY <2>3 DEF VisitSuccess, AfterSuccess, Expire
    <2>4. CASE Quiet
      BY <1>1, <2>4, QuietSteps DEF user
    <2>5. CASE CountDown \/ Notify
      BY <1>1, <2>5 DEF CountDown, Notify, TickUnchanged, user
    <2> QED
      BY <1>1, <2>1, <2>2, <2>3, <2>4, <2>5, NextSteps DEF user, vars
  <1> QED
    BY <1>2, <1>3, <1>4 DEF IndInv

\* IndInv is an invariant: however the threads interleave, and whatever happens to the
\* frames, the latch counts exactly the units that have still to report.
THEOREM Invariance == Spec => []IndInv
  <1>1. Init => IndInv
    BY InitInv
  <1>2. IndInv /\ [Next]_vars => IndInv'
    BY StepInv
  <1> QED
    BY <1>1, <1>2, PTL DEF Spec

\* A callback that counts down on a latch that is gone is the work of a call that threw
\* half-way, or of a visit that strayed past a success; in every other case only the
\* notify_one of the callback that counted down last can come too late.
THEOREM OutlivesSafe == Spec => []LatchOutlivesCalls
  <1>1. IndInv => LatchOutlivesCalls
    BY DEF IndInv
  <1> QED
    BY <1>1, Invariance, PTL

\* While a call starts its units and waits for them, the latch counts the ones that owe
\* their report and the ones that failed, once each.
THEOREM WaitSafe == Spec => []WaitMeansDone
  <1>1. IndInv => WaitMeansDone
    BY DEF IndInv, LatchBalanced, WaitMeansDone
  <1> QED
    BY <1>1, Invariance, PTL

--------------------------------------------------------------------------------
\* Masks.

\* The 14 units of joint j of finger f, of which the first follows the 12 of the hand.
LEMMA JointOfUnit ==
    ASSUME NEW u \in Used, u >= 12
    PROVE  /\ Place[u].shape # 0
           /\ FlatIndex(Place[u]) = (u - 12) \div 14
  <1>1. Len(HandDatas) = 12 /\ JointDataCount = 14 /\ FingerDataCount = 56
    BY DEF HandDatas, JointDataCount, FingerDataCount, JointDatas, Data
  <1>2. u \in 12..291 /\ u \in 0..(StorageUnitCount - 1)
    <2>1. u \in 0..(StorageUnitCount - 1) /\ StorageUnitCount = 292
      BY UsedUnits, Zenon
    <2> QED
      BY <2>1
  <1>3. \A f \in Fingers, j \in Joints : StorageOffset(f, j) = 12 + 56 * f + 14 * j
    BY <1>1 DEF StorageOffset, Fingers, Joints
  <1>4. \E n \in StorageInfos : n.id = u
    <2> DEFINE f == (u - 12) \div 56
               j == ((u - 12) % 56) \div 14
               k == ((u - 12) % 14) + 1
    <2>1. f \in 0..4 /\ j \in 0..3 /\ k \in 1..14 /\ u = 12 + 56 * f + 14 * j + k - 1
      BY <1>2
    <2> HIDE DEF f, j, k
    <2>2. Info(StorageOffset(f, j) + k - 1, JointDatas[k], JointPlace(f, j), IndexOffset(f, j))
             \in StorageInfos
      BY <1>1, <2>1 DEF StorageInfos, Fingers, Joints
    <2>3. StorageOffset(f, j) + k - 1 = u
      BY <1>3, <2>1 DEF Fingers, Joints
    <2> QED
      BY <2>2, <2>3 DEF Info
  <1>5. InfoOf[u] \in StorageInfos /\ InfoOf[u].id = u
    BY <1>2, <1>4 DEF InfoOf
  <1>6. PICK f \in Fingers, j \in Joints, k \in 1..14 :
             InfoOf[u] = Info(StorageOffset(f, j) + k - 1, JointDatas[k], JointPlace(f, j),
                              IndexOffset(f, j))
    <2>1. ASSUME NEW k \in 1..12, InfoOf[u] = Info(k - 1, HandDatas[k], HandPlace, 0)
          PROVE  FALSE
      <3>1. InfoOf[u].id = k - 1
        BY <2>1 DEF Info
      <3> QED
        BY <1>2, <1>5, <3>1
    <2> QED
      BY <1>1, <1>5, <2>1 DEF StorageInfos
  <1>7. u = 12 + 56 * f + 14 * j + k - 1 /\ Place[u] = JointPlace(f, j)
    BY <1>3, <1>5, <1>6 DEF Info, Place
  <1>8. /\ JointPlace(f, j).i = 256 * f + j /\ JointPlace(f, j).shape = 256 * 5 + 4
    BY DEF JointPlace, Sub, HandPlace, Fingers, Joints
  <1>9. FlatIndex(JointPlace(f, j)) = 4 * f + j
    BY <1>8 DEF FlatIndex, Fingers, Joints
  <1>10. 4 * f + j = (u - 12) \div 14
    BY <1>7 DEF Fingers, Joints
  <1> QED
    BY <1>7, <1>8, <1>9, <1>10

\* No joint that the mask names is ever put on the wire, whatever the calls ask for.
THEOREM SilentSafe == Spec => []SilentJoints
  <1>1. ASSUME IndInv
        PROVE  SilentJoints
    <2> DEFINE S == SilentRequests
               F == Seq(S) \ {<<>>}
    <2>1. batch \in Seq(S) /\ frames \in Seq(F)
      BY <1>1 DEF IndInv, TypeOK
    <2>2. \A k \in DOMAIN batch : batch[k] \in S
      <3> HIDE DEF S
      <3> QED
        BY <2>1, ElementOfSeq, LenProperties
    <2>3. \A n \in DOMAIN frames : frames[n] \in Seq(S)
      <3>1. \A n \in DOMAIN frames : frames[n] \in F
        <4> HIDE DEF F
        <4> QED
          BY <2>1, ElementOfSeq, LenProperties
      <3> QED
        BY <3>1
    <2>4. \A n \in DOMAIN frames : \A k \in DOMAIN frames[n] : frames[n][k] \in S
      <3> HIDE DEF S
      <3> QED
        BY <2>3, ElementOfSeq, LenProperties
    <2>5. ASSUME NEW m \in S, m.of >= 12
          PROVE  (m.of - 12) \div 14 \notin mask
      <3>1. m.of \in Used /\ ~Masked(Place[m.of], mask)
        BY DEF SilentRequests, MaskedUnit
      <3> QED
        BY <2>5, <3>1, JointOfUnit DEF Masked
    <2> QED
      BY <2>2, <2>4, <2>5 DEF SilentJoints
  <1> QED
    BY <1>1, Invariance, PTL

--------------------------------------------------------------------------------
\* Conversions.

\* Division as the conversions use it: the quotient of a positive divisor.
LEMMA Quotient ==
    ASSUME NEW x \in Int, NEW d \in Nat \ {0}
    PROVE  /\ x \div d \in Int
           /\ d * (x \div d) =< x /\ x < d * (x \div d) + d
  OBVIOUS

\* A rounded angle is within half a raw unit of the angle.
LEMMA RoundNearest ==
    ASSUME NEW a \in Int
    PROVE  Round(a) \in Int /\ 2 * (Round(a) * Scale) - 2 * a \in (-Scale)..Scale
  <1>1. Scale \in Nat \ {0} /\ 2 * Scale \in Nat \ {0}
    BY LayoutAssumption
  <1>2. CASE a >= 0
    <2> DEFINE q == (2 * a + Scale) \div (2 * Scale)
    <2>1. q \in Int /\ (2 * Scale) * q =< 2 * a + Scale /\ 2 * a + Scale < (2 * Scale) * q + 2 * Scale
      <3> DEFINE x == 2 * a + Scale
                 d == 2 * Scale
      <3>1. x \in Int /\ d \in Nat \ {0}
        BY <1>1
      <3> HIDE DEF x, d
      <3>2. x \div d \in Int /\ d * (x \div d) =< x /\ x < d * (x \div d) + d
        BY <3>1, Quotient, Zenon
      <3> QED
        BY <3>2 DEF x, d
    <2>2. Round(a) = q
      BY <1>2 DEF Round
    <2> HIDE DEF q
    <2> DEFINE p == q * Scale
    <2>3. (2 * Scale) * q = 2 * p /\ p \in Int
      BY <1>1, <2>1
    <2>4. Round(a) * Scale = p
      BY <2>2
    <2> HIDE DEF p
    <2>5. 2 * p =< 2 * a + Scale /\ 2 * a + Scale < 2 * p + 2 * Scale
      BY <2>1, <2>3
    <2>6. 2 * p - 2 * a \in (-Scale)..Scale
      BY <1>1, <2>3, <2>5
    <2> QED
      BY <2>1, <2>2, <2>4, <2>6
  <1>3. CASE a < 0
    <2> DEFINE q == (Scale - 2 * a) \div (2 * Scale)
    <2>1. q \in Int /\ (2 * Scale) * q =< Scale - 2 * a /\ Scale - 2 * a < (2 * Scale) * q + 2 * Scale
      <3> DEFINE x == Scale - 2 * a
                 d == 2 * Scale
      <3>1. x \in Int /\ d \in Nat \ {0}
        BY <1>1
      <3> HIDE DEF x, d
      <3>2. x \div d \in Int /\ d * (x \div d) =< x /\ x < d * (x \div d) + d
        BY <3>1, Quotient, Zenon
      <3> QED
        BY <3>2 DEF x, d
    <2>2. Round(a) = -q
      BY <1>3 DEF Round
    <2> HIDE DEF q
    <2> DEFINE p == q * Scale
    <2>3. (2 * Scale) * q = 2 * p /\ (-q) * Scale = -p /\ p \in Int
      BY <1>1, <2>1
    <2>4. Round(a) * Scale = -p
      BY <2>2, <2>3
    <2> HIDE DEF p
    <2>5. 2 * p =< Scale - 2 * a /\ Scale - 2 * a < 2 * p + 2 * Scale
      BY <2>1, <2>3
    <2>6. 2 * (-p) - 2 * a \in (-Scale)..Scale
      BY <1>1, <2>3, <2>5
    <2> QED
      BY <2>1, <2>2, <2>4, <2>6
  <1> QED
    BY <1>2, <1>3

\* Within a turn nothing is clamped, and the raw position can be negated.
LEMMA RawWithinTurn ==
    ASSUME NEW a \in (-RawMax * Scale)..(RawMax * Scale)
    PROVE  /\ ToRawPosition(a) \in Int
           /\ 2 * (ToRawPosition(a) * Scale) - 2 * a \in (-Scale)..Scale
           /\ Negate(ToRawPosition(a)) = -ToRawPosition(a)
  <1> DEFINE t == ToRawPosition(a)
             turn == RawMax * Scale
  <1>1. /\ Scale \in Nat \ {0} /\ RawMax \in Nat \ {0} /\ turn \in Int
        /\ -RawMax * Scale = -turn /\ RawMin * Scale = -turn - Scale
    BY LayoutAssumption DEF RawMin
  <1>2. a \in Int /\ -turn =< a /\ a =< turn
    BY <1>1
  <1>3. t = Round(a)
    <2>1. ~(a < RawMin * Scale) /\ ~(a > RawMax * Scale)
      <3> HIDE DEF turn
      <3>1. RawMax * Scale = turn
        BY DEF turn
      <3> QED
        BY <1>1, <1>2, <3>1
    <2> QED
      BY <2>1 DEF ToRawPosition
  <1>4. t \in Int /\ 2 * (t * Scale) - 2 * a \in (-Scale)..Scale
    BY <1>2, <1>3, RoundNearest
  <1>5. t # RawMin
    <2> SUFFICES ASSUME t = RawMin
                 PROVE  FALSE
      OBVIOUS
    <2>1. t * Scale = -turn - Scale
      BY <1>1
    <2> HIDE DEF t, turn
    <2> QED
      BY <1>1, <1>2, <1>4, <2>1
  <1> QED
    BY <1>4, <1>5 DEF Negate

\* The data of a joint by name.
Number(name) == CHOOSE k \in 1..JointDataCount : JointDatas[k].name = name

LEMMA JointDataNumbers ==
    /\ JointDataCount = 14
    /\ Number("Enabled") = 10 /\ Number("ActualPosition") = 11
    /\ Number("TargetPosition") = 12 /\ Number("UpperLimit") = 13 /\ Number("LowerLimit") = 14
  <1>1. JointDataCount = 14
    BY DEF JointDataCount, JointDatas, Data
  <1>2. \A k \in 1..14 :
           /\ JointDatas[k].name = "Enabled" <=> k = 10
           /\ JointDatas[k].name = "ActualPosition" <=> k = 11
           /\ JointDatas[k].name = "TargetPosition" <=> k = 12
           /\ JointDatas[k].name = "UpperLimit" <=> k = 13
           /\ JointDatas[k].name = "LowerLimit" <=> k = 14
    <2>1. /\ JointDatas[1].name = "HardwareVersion" /\ JointDatas[2].name = "HardwareDate"
          /\ JointDatas[3].name = "ControlMode" /\ JointDatas[4].name = "SinLevel"
          /\ JointDatas[5].name = "CurrentLimit" /\ JointDatas[6].name = "BusVoltage"
          /\ JointDatas[7].name = "Temperature" /\ JointDatas[8].name = "ResetError"
          /\ JointDatas[9].name = "ErrorCode" /\ JointDatas[10].name = "Enabled"
          /\ JointDatas[11].name = "ActualPosition" /\ JointDatas[12].name = "TargetPosition"
          /\ JointDatas[13].name = "UpperLimit" /\ JointDatas[14].name = "LowerLimit"
      BY DEF JointDatas, Data
    <2>2. \A k \in 1..14 : \/ k = 1 \/ k = 2 \/ k = 3 \/ k = 4 \/ k = 5 \/ k = 6 \/ k = 7
                           \/ k = 8 \/ k = 9 \/ k = 10 \/ k = 11 \/ k = 12 \/ k = 13 \/ k = 14
      OBVIOUS
    <2> QED
      BY <2>1, <2>2
  <1> QED
    BY <1>1, <1>2 DEF Number

\* What the unit of a joint is initialised with.
LEMMA JointInfo ==
    ASSUME NEW f \in Fingers, NEW j \in Joints, NEW name, Number(name) \in 1..14
    PROVE  /\ InfoOf[JointUnit(name, f, j)].policy = JointDatas[Number(name)].policy
           /\ InfoOf[JointUnit(name, f, j)].place = JointPlace(f, j)
           /\ InfoOf[JointUnit(name, f, j)].sub_index =
                  SubIndex(JointDatas[Number(name)], JointPlace(f, j))
  <1>1. Len(HandDatas) = 12 /\ JointDataCount = 14 /\ FingerDataCount = 56
    BY DEF HandDatas, JointDataCount, FingerDataCount, JointDatas, Data
  <1>2. \A g \in Fingers, h \in Joints : StorageOffset(g, h) = 12 + 56 * g + 14 * h
    BY <1>1 DEF StorageOffset, Fingers, Joints
  <1> DEFINE id == JointUnit(name, f, j)
             k == Number(name)
             info(g, h, m) == Info(StorageOffset(g, h) + m - 1, JointDatas[m],
                                   JointPlace(g, h), IndexOffset(g, h))
  <1>3. k \in 1..14 /\ id = StorageOffset(f, j) + k - 1 /\ id = 12 + 56 * f + 14 * j + k - 1
    BY <1>2 DEF JointUnit, Number
  <1>4. id \in 0..(StorageUnitCount - 1)
    BY <1>1, <1>3 DEF StorageUnitCount, Fingers, Joints
  <1>5. info(f, j, k) \in StorageInfos /\ info(f, j, k).id = id
    BY <1>1, <1>3 DEF StorageInfos, Info
  <1>6. InfoOf[id] \in StorageInfos /\ InfoOf[id].id = id
    <2>1. InfoOf[id] = CHOOSE n \in StorageInfos : n.id = id
      BY <1>4 DEF InfoOf
    <2> QED
      BY <1>5, <2>1, Zenon
  <1>7. ASSUME NEW m \in 1..12, InfoOf[id] = Info(m - 1, HandDatas[m], HandPlace, 0)
        PROVE  FALSE
    <2>1. InfoOf[id].id = m - 1
      BY <1>7 DEF Info
    <2> HIDE DEF id
    <2> QED
      BY <1>3, <1>6, <2>1 DEF Fingers, Joints
  <1>8. PICK g \in Fingers, h \in Joints, m \in 1..14 : InfoOf[id] = info(g, h, m)
    BY <1>1, <1>6, <1>7 DEF StorageInfos
  <1>9. info(g, h, m).id = 12 + 56 * g + 14 * h + m - 1
    BY <1>2 DEF Info
  <1>10. g = f /\ h = j /\ m = k
    <2>1. 12 + 56 * f + 14 * j + k - 1 = 12 + 56 * g + 14 * h + m - 1
      BY <1>3, <1>6, <1>8, <1>9
    <2> HIDE DEF k
    <2> QED
      BY <1>3, <2>1 DEF Fingers, Joints
  <1>11. InfoOf[id] = Info(id, JointDatas[k], JointPlace(f, j), IndexOffset(f, j))
    BY <1>3, <1>8, <1>10
  <1> QED
    BY <1>11 DEF Info

\* The joints whose angles run the other way, told from the place and from the arrays of a
\* PDO frame alike.
LEMMA ReversedJoints ==
    ASSUME NEW f \in Fingers, NEW j \in Joints
    PROVE  IsReversed(JointPlace(f, j)) <=> j = 0 /\ f # 0
  BY DEF IsReversed, JointPlace, Sub, HandPlace, Fingers, Joints

\* Written by either path a position arrives the same, is read back as written, and so are
\* the limits, in their order, and Enabled: for every width of a raw position and every scale.
LEMMA PathsAlwaysAgree == PathsAgree
  <1> SUFFICES ASSUME NEW f \in Fingers, NEW j \in Joints
               PROVE  LET info_of(name) == InfoOf[JointUnit(name, f, j)]
                      IN  /\ \A a \in Angles :
                                /\ StoreData(info_of("TargetPosition"), a) = PdoTarget(f, j, a)
                                /\ a \in (-RawMax * Scale)..(RawMax * Scale) =>
                                      2 * (LoadData(info_of("TargetPosition"),
                                                    PdoTarget(f, j, a)) - a)
                                          \in (-Scale)..Scale
                          /\ \A r \in Raws :
                                LoadData(info_of("ActualPosition"), r) = PdoActual(f, j, r)
                          /\ \A low, high \in Raws :
                                LET register(info) == IF info.sub_index = 27 THEN high ELSE low
                                    limit(name) == LoadData(info_of(name), register(info_of(name)))
                                IN  low =< high => limit("LowerLimit") =< limit("UpperLimit")
                          /\ \A v \in BOOLEAN :
                                LoadData(info_of("Enabled"), StoreData(info_of("Enabled"), v)) = v
    BY DEF PathsAgree
  <1> DEFINE info_of(name) == InfoOf[JointUnit(name, f, j)]
             reversed == j = 0 /\ f # 0
  <1>1. /\ \A k \in {11, 12, 13, 14} : JointDatas[k].policy = "position"
        /\ JointDatas[10].policy = "control word"
        /\ JointDatas[13].name = "UpperLimit" /\ JointDatas[13].sub_index = 27
        /\ JointDatas[14].name = "LowerLimit" /\ JointDatas[14].sub_index = 28
    <2>1. /\ JointDatas[10].policy = "control word" /\ JointDatas[11].policy = "position"
          /\ JointDatas[12].policy = "position" /\ JointDatas[13].policy = "position"
          /\ JointDatas[14].policy = "position"
          /\ JointDatas[13].name = "UpperLimit" /\ JointDatas[13].sub_index = 27
          /\ JointDatas[14].name = "LowerLimit" /\ JointDatas[14].sub_index = 28
      BY DEF JointDatas, Data
    <2> QED
      BY <2>1
  <1>2. \A name \in {"ActualPosition", "TargetPosition", "UpperLimit", "LowerLimit"} :
           /\ info_of(name).policy = "position"
           /\ IsReversed(info_of(name).place) <=> reversed
    <2> TAKE name \in {"ActualPosition", "TargetPosition", "UpperLimit", "LowerLimit"}
    <2>1. Number(name) \in {11, 12, 13, 14} /\ Number(name) \in 1..14
      BY JointDataNumbers
    <2>2. /\ info_of(name).policy = JointDatas[Number(name)].policy
          /\ info_of(name).place = JointPlace(f, j)
      BY <2>1, JointInfo, Zenon
    <2> QED
      BY <1>1, <2>1, <2>2, ReversedJoints
  <1>3. info_of("Enabled").policy = "control word"
    <2>1. Number("Enabled") = 10 /\ Number("Enabled") \in 1..14
      BY JointDataNumbers
    <2>2. info_of("Enabled").policy = JointDatas[Number("Enabled")].policy
      BY <2>1, JointInfo, Zenon
    <2> QED
      BY <1>1, <2>1, <2>2
  <1>4. /\ info_of("UpperLimit").sub_index = IF reversed THEN 28 ELSE 27
        /\ info_of("LowerLimit").sub_index = IF reversed THEN 27 ELSE 28
    <2>1. /\ info_of("UpperLimit").sub_index = SubIndex(JointDatas[13], JointPlace(f, j))
          /\ info_of("LowerLimit").sub_index = SubIndex(JointDatas[14], JointPlace(f, j))
      <3>1. /\ Number("UpperLimit") = 13 /\ Number("UpperLimit") \in 1..14
            /\ Number("LowerLimit") = 14 /\ Number("LowerLimit") \in 1..14
        BY JointDataNumbers
      <3>2. /\ info_of("UpperLimit").sub_index =
                   SubIndex(JointDatas[Number("UpperLimit")], JointPlace(f, j))
            /\ info_of("LowerLimit").sub_index =
                   SubIndex(JointDatas[Number("LowerLimit")], JointPlace(f, j))
        BY <3>1, JointInfo, Zenon
      <3> QED
        BY <3>1, <3>2
    <2>2. IsReversed(JointPlace(f, j)) <=> reversed
      BY ReversedJoints
    <2> QED
      BY <1>1, <2>1, <2>2 DEF SubIndex
  <1> HIDE DEF info_of, reversed
  <1>5. ASSUME NEW a \in Angles
        PROVE  StoreData(info_of("TargetPosition"), a) = PdoTarget(f, j, a)
    BY <1>2 DEF StoreData, PdoTarget, reversed
  <1>6. ASSUME NEW a \in (-RawMax * Scale)..(RawMax * Scale)
        PROVE  2 * (LoadData(info_of("TargetPosition"), PdoTarget(f, j, a)) - a)
                   \in (-Scale)..Scale
    <2> DEFINE t == ToRawPosition(a)
               p == t * Scale
    <2>1. t \in Int /\ 2 * p - 2 * a \in (-Scale)..Scale /\ Negate(t) = -t
      BY RawWithinTurn
    <2>2. Scale \in Nat /\ a \in Int
      BY LayoutAssumption
    <2>3. p \in Int /\ (-t) * Scale = -p
      BY <2>1, <2>2
    <2>4. LoadData(info_of("TargetPosition"), PdoTarget(f, j, a)) = p
      <3>1. CASE reversed
        <4>1. PdoTarget(f, j, a) = -t
          BY <2>1, <3>1 DEF PdoTarget, reversed
        <4>2. LoadData(info_of("TargetPosition"), -t) = -((-t) * Scale)
          BY <1>2, <3>1 DEF LoadData, ExtractRawPosition
        <4> QED
          BY <2>3, <4>1, <4>2
      <3>2. CASE ~reversed
        BY <1>2, <3>2 DEF LoadData, ExtractRawPosition, PdoTarget, reversed
      <3> QED
        BY <3>1, <3>2
    <2> HIDE DEF p
    <2> QED
      BY <2>1, <2>2, <2>3, <2>4
  <1>7. ASSUME NEW r \in Raws
        PROVE  LoadData(info_of("ActualPosition"), r) = PdoActual(f, j, r)
    BY <1>2 DEF LoadData, PdoActual, reversed
  <1>8. ASSUME NEW low \in Raws, NEW high \in Raws, low =< high
        PROVE  LET register(info) == IF info.sub_index = 27 THEN high ELSE low
                   limit(name) == LoadData(info_of(name), register(info_of(name)))
               IN  limit("LowerLimit") =< limit("UpperLimit")
    <2> DEFINE register(info) == IF info.sub_index = 27 THEN high ELSE low
               limit(name) == LoadData(info_of(name), register(info_of(name)))
    <2>0. \A s \in {low, high} : \A name \in {"UpperLimit", "LowerLimit"} :
              LoadData(info_of(name), s) = IF reversed THEN -(s * Scale) ELSE s * Scale
      BY <1>2 DEF LoadData, ExtractRawPosition
    <2>1. low * Scale \in Int /\ high * Scale \in Int /\ low * Scale =< high * Scale
      BY <1>8, LayoutAssumption DEF Raws, RawMin
    <2>2. CASE reversed
      <3>1. limit("LowerLimit") = -(high * Scale) /\ limit("UpperLimit") = -(low * Scale)
        BY <1>4, <2>0, <2>2
      <3> QED
        BY <2>1, <3>1
    <2>3. CASE ~reversed
      <3>1. limit("LowerLimit") = low * Scale /\ limit("UpperLimit") = high * Scale
        BY <1>4, <2>0, <2>3
      <3> QED
        BY <2>1, <3>1
    <2> QED
      BY <2>2, <2>3
  <1>9. ASSUME NEW v \in BOOLEAN
        PROVE  LoadData(info_of("Enabled"), StoreData(info_of("Enabled"), v)) = v
    <2>1. CASE v
      BY <1>3, <2>1 DEF LoadData, StoreData
    <2>2. CASE v = FALSE
      <3>1. StoreData(info_of("Enabled"), v) = 5
        BY <1>3, <2>2 DEF StoreData
      <3>2. LoadData(info_of("Enabled"), 5) = (5 = 1)
        BY <1>3 DEF LoadData
      <3>3. ~(5 = 1)
        OBVIOUS
      <3> QED
        BY <2>2, <3>1, <3>2, <3>3, Zenon
    <2> QED
      BY <2>1, <2>2
  <1> QED
    BY <1>5, <1>6, <1>7, <1>8, <1>9 DEF info_of

\* The two paths to the device convert alike, for every width and every scale.
THEOREM PathsSafe == Spec => []ConversionsSound
  <1>1. ConversionsSound
    BY PathsAlwaysAgree DEF ConversionsSound
  <1> QED
    BY <1>1, PTL

--------------------------------------------------------------------------------
\* The layout of the storage.

\* The units of the hand and of a joint, as the walk initialises them.
HandInfo(k) == Info(k - 1, HandDatas[k], HandPlace, 0)
InfoAt(f, j, k) ==
    Info(StorageOffset(f, j) + k - 1, JointDatas[k], JointPlace(f, j), IndexOffset(f, j))

\* Their numbers, and that there are no others.
LEMMA LayoutNumbers ==
    /\ Len(HandDatas) = 12 /\ JointDataCount = 14 /\ StorageUnitCount = 292
    /\ \A f \in Fingers, j \in Joints : StorageOffset(f, j) = 12 + 56 * f + 14 * j
    /\ \A n \in StorageInfos :
           \/ \E k \in 1..12 : n = HandInfo(k)
           \/ \E f \in Fingers, j \in Joints, k \in 1..14 : n = InfoAt(f, j, k)
    /\ \A k \in 1..12 : HandInfo(k) \in StorageInfos
    /\ \A f \in Fingers, j \in Joints, k \in 1..14 : InfoAt(f, j, k) \in StorageInfos
  <1>1. Len(HandDatas) = 12 /\ JointDataCount = 14 /\ FingerDataCount = 56
    BY DEF HandDatas, JointDataCount, FingerDataCount, JointDatas, Data
  <1>2. StorageUnitCount = 292
    BY <1>1 DEF StorageUnitCount
  <1>3. \A f \in Fingers, j \in Joints : StorageOffset(f, j) = 12 + 56 * f + 14 * j
    BY <1>1 DEF StorageOffset, Fingers, Joints
  <1>4. StorageInfos = {HandInfo(k) : k \in 1..12}
                           \cup {InfoAt(f, j, k) : f \in Fingers, j \in Joints, k \in 1..14}
    BY <1>1 DEF StorageInfos, HandInfo, InfoAt
  <1> QED
    BY <1>1, <1>2, <1>3, <1>4

\* The walk gives every id once.
LEMMA IdsOfUnits ==
    /\ \A n \in StorageInfos : n.id \in Nat /\ n.id < StorageUnitCount
    /\ \A id \in Nat : id < StorageUnitCount => \E n \in StorageInfos : n.id = id
    /\ \A n, m \in StorageInfos : n.id = m.id => n = m
  <1>1. \A k \in 1..12 : HandInfo(k).id = k - 1 /\ k - 1 < 12 /\ k - 1 \in Nat
    BY DEF HandInfo, Info
  <1>2. \A f \in Fingers, j \in Joints, k \in 1..14 :
            InfoAt(f, j, k).id = 12 + 56 * f + 14 * j + k - 1
    BY LayoutNumbers DEF InfoAt, Info
  <1>3. ASSUME NEW f \in Fingers, NEW j \in Joints, NEW k \in 1..14
        PROVE  InfoAt(f, j, k).id \in Nat /\ 12 =< InfoAt(f, j, k).id /\ InfoAt(f, j, k).id < 292
    <2> DEFINE x == InfoAt(f, j, k).id
    <2>1. x = 12 + 56 * f + 14 * j + k - 1
      BY <1>2
    <2>2. /\ f \in Int /\ 0 =< f /\ f =< 4 /\ j \in Int /\ 0 =< j /\ j =< 3
          /\ k \in Int /\ 1 =< k /\ k =< 14
      BY DEF Fingers, Joints
    <2> HIDE DEF x
    <2>3. x \in Nat /\ 12 =< x /\ x < 292
      BY <2>1, <2>2
    <2> QED
      BY <2>3 DEF x
  <1>4. ASSUME NEW n \in StorageInfos
        PROVE  /\ n.id \in Nat /\ n.id < 292
               /\ n.id < 12 => \E k \in 1..12 : n = HandInfo(k)
               /\ ~(n.id < 12) =>
                      \E f \in Fingers, j \in Joints, k \in 1..14 : n = InfoAt(f, j, k)
    <2>1. CASE \E k \in 1..12 : n = HandInfo(k)
      <3>1. n.id \in Nat /\ n.id < 12
        BY <1>1, <2>1
      <3> QED
        BY <2>1, <3>1
    <2>2. CASE \E f \in Fingers, j \in Joints, k \in 1..14 : n = InfoAt(f, j, k)
      <3>1. n.id \in Nat /\ 12 =< n.id /\ n.id < 292
        BY <1>3, <2>2
      <3> QED
        BY <2>2, <3>1
    <2> QED
      BY <2>1, <2>2, LayoutNumbers
  <1>5. ASSUME NEW id \in Nat, id < 292
        PROVE  \E n \in StorageInfos : n.id = id
    <2>1. CASE id < 12
      <3>1. id + 1 \in 1..12 /\ (id + 1) - 1 = id
        BY <2>1
      <3>2. HandInfo(id + 1).id = id /\ HandInfo(id + 1) \in StorageInfos
        BY <1>1, <3>1, LayoutNumbers
      <3> QED
        BY <3>2
    <2>2. CASE ~(id < 12)
      <3> DEFINE f == (id - 12) \div 56
                 j == ((id - 12) % 56) \div 14
                 k == ((id - 12) % 14) + 1
      <3>1. f \in Fingers /\ j \in Joints /\ k \in 1..14 /\ id = 12 + 56 * f + 14 * j + k - 1
        BY <1>5, <2>2 DEF Fingers, Joints
      <3> HIDE DEF f, j, k
      <3>2. InfoAt(f, j, k).id = id /\ InfoAt(f, j, k) \in StorageInfos
        BY <1>2, <3>1, LayoutNumbers
      <3> QED
        BY <3>2
    <2> QED
      BY <2>1, <2>2
  <1>6. ASSUME NEW n \in StorageInfos, NEW m \in StorageInfos, n.id = m.id
        PROVE  n = m
    <2>1. CASE n.id < 12
      <3>1. PICK k \in 1..12 : n = HandInfo(k)
        BY <1>4, <2>1
      <3>2. PICK l \in 1..12 : m = HandInfo(l)
        BY <1>4, <1>6, <2>1
      <3>3. k - 1 = l - 1
        BY <1>1, <1>6, <3>1, <3>2
      <3>4. k = l
        BY <3>3
      <3> QED
        BY <3>1, <3>2, <3>4
    <2>2. CASE ~(n.id < 12)
      <3>1. PICK f \in Fingers, j \in Joints, k \in 1..14 : n = InfoAt(f, j, k)
        BY <1>4, <2>2
      <3>2. PICK g \in Fingers, h \in Joints, l \in 1..14 : m = InfoAt(g, h, l)
        BY <1>4, <1>6, <2>2
      <3>3. 12 + 56 * f + 14 * j + k - 1 = 12 + 56 * g + 14 * h + l - 1
        BY <1>2, <1>6, <3>1, <3>2
      <3>4. f = g /\ j = h /\ k = l
        BY <3>3 DEF Fingers, Joints
      <3> QED
        BY <3>1, <3>2, <3>4
    <2> QED
      BY <2>1, <2>2
  <1> QED
    BY <1>4, <1>5, <1>6, LayoutNumbers

\* The number of the units, and of their ids.
LEMMA UnitsCounted ==
    /\ {n.id : n \in StorageInfos} = 0..(StorageUnitCount - 1)
    /\ Cardinality(StorageInfos) = StorageUnitCount
  <1> DEFINE total == StorageUnitCount
             ids == 0..(total - 1)
             infos == StorageInfos
             info_of == [id \in ids |-> CHOOSE n \in infos : n.id = id]
             id_of == [n \in infos |-> n.id]
  <1>1. total \in Nat
    BY LayoutNumbers
  <1>2. /\ \A n \in infos : n.id \in ids
        /\ \A id \in ids : \E n \in infos : n.id = id
        /\ \A n, m \in infos : n.id = m.id => n = m
    <2>1. \A n \in infos : n.id \in Nat /\ n.id < total
      BY IdsOfUnits
    <2>2. \A id \in Nat : id < total => \E n \in infos : n.id = id
      BY IdsOfUnits
    <2>3. \A n, m \in infos : n.id = m.id => n = m
      BY IdsOfUnits
    <2> HIDE DEF infos, total
    <2> QED
      BY <1>1, <2>1, <2>2, <2>3
  <1> HIDE DEF infos, total
  <1>3. IsFiniteSet(ids) /\ Cardinality(ids) = total
    <2>1. total - 1 \in Int /\ 0 \in Int
      BY <1>1
    <2>2. /\ IsFiniteSet(0..(total - 1))
          /\ Cardinality(0..(total - 1)) = IF 0 > total - 1 THEN 0 ELSE (total - 1) - 0 + 1
      BY <2>1, FS_Interval
    <2> QED
      BY <1>1, <2>2
  <1> HIDE DEF ids
  <1>4. info_of \in Surjection(ids, infos)
    <2>1. \A id \in ids : info_of[id] \in infos /\ info_of[id].id = id
      BY <1>2
    <2>2. \A n \in infos : info_of[n.id] = n
      BY <1>2, <2>1
    <2> QED
      BY <1>2, <2>1, <2>2 DEF Surjection
  <1>5. id_of \in Surjection(infos, ids)
    BY <1>2 DEF Surjection
  <1> HIDE DEF info_of, id_of
  <1>6. IsFiniteSet(infos) /\ Cardinality(infos) =< total
    BY <1>3, <1>4, FS_Surjection
  <1>7. total =< Cardinality(infos)
    BY <1>3, <1>5, <1>6, FS_Surjection
  <1>8. Cardinality(infos) \in Nat
    BY <1>6, FS_CardinalityType
  <1>9. {n.id : n \in infos} = ids
    BY <1>2
  <1>10. Cardinality(infos) = total
    BY <1>1, <1>6, <1>7, <1>8
  <1> QED
    BY <1>9, <1>10 DEF infos, ids, total

\* The indices of the data of the hand, and the two of them that share theirs.
LEMMA HandDataIndices ==
    /\ \A k \in 1..12 : /\ HandDatas[k].index \in Int
                        /\ HandDatas[k].index >= 20000 /\ HandDatas[k].index < 30000
                        /\ HandDatas[k].name \notin {"UpperLimit", "LowerLimit"}
                        /\ HandDatas[k].name = "RPdoId" <=> k = 8
    /\ HandDatas[9].name = "TPdoId" /\ HandDatas[8].index = HandDatas[9].index
    /\ HandDatas[8].sub_index = HandDatas[9].sub_index
  <1> DEFINE d == HandDatas
  <1>1. /\ d[1].index = 20624 /\ d[2].index = 20993 /\ d[3].index = 20993
        /\ d[4].index = 21002 /\ d[5].index = 21002 /\ d[6].index = 21002
        /\ d[7].index = 21152 /\ d[8].index = 21156 /\ d[9].index = 21156
        /\ d[10].index = 21156 /\ d[11].index = 21156 /\ d[12].index = 21156
    BY DEF HandDatas, Data
  <1>2. /\ d[1].sub_index = 0 /\ d[2].sub_index = 1 /\ d[3].sub_index = 2
        /\ d[4].sub_index = 1 /\ d[5].sub_index = 9 /\ d[6].sub_index = 10
        /\ d[7].sub_index = 5 /\ d[8].sub_index = 2 /\ d[9].sub_index = 2
        /\ d[10].sub_index = 5 /\ d[11].sub_index = 6 /\ d[12].sub_index = 7
    BY DEF HandDatas, Data
  <1>3. /\ d[1].name = "Handedness" /\ d[2].name = "FirmwareVersion"
        /\ d[3].name = "FirmwareDate" /\ d[4].name = "SystemTime"
        /\ d[5].name = "HandTemperature" /\ d[6].name = "InputVoltage"
        /\ d[7].name = "PdoEnabled" /\ d[8].name = "RPdoId"
        /\ d[9].name = "TPdoId" /\ d[10].name = "PdoInterval"
        /\ d[11].name = "RPdoTriggerOffset" /\ d[12].name = "TPdoTriggerOffset"
    BY DEF HandDatas, Data
  <1>4. \A k \in 1..12 : \/ k = 1 \/ k = 2 \/ k = 3 \/ k = 4 \/ k = 5 \/ k = 6 \/ k = 7
                         \/ k = 8 \/ k = 9 \/ k = 10 \/ k = 11 \/ k = 12
    OBVIOUS
  <1> HIDE DEF d
  <1>5. \A k \in 1..12 : d[k].index \in Int /\ d[k].index >= 20000 /\ d[k].index < 30000
    BY <1>1, <1>4
  <1>6. \A k \in 1..12 : /\ d[k].name \notin {"UpperLimit", "LowerLimit"}
                         /\ d[k].name = "RPdoId" <=> k = 8
    BY <1>3, <1>4
  <1>7. d[9].name = "TPdoId" /\ d[8].index = d[9].index /\ d[8].sub_index = d[9].sub_index
    BY <1>1, <1>2, <1>3
  <1> QED
    BY <1>5, <1>6, <1>7 DEF d

\* No other two share an index on the wire.
LEMMA HandIndices ==
    ASSUME NEW k \in 1..12, NEW l \in 1..12, HandDatas[k].index = HandDatas[l].index,
           HandDatas[k].sub_index = HandDatas[l].sub_index
    PROVE  k = l \/ (k \in {8, 9} /\ l \in {8, 9})
  <1> DEFINE d == HandDatas
  <1>1. /\ d[1].index = 20624 /\ d[2].index = 20993 /\ d[3].index = 20993
        /\ d[4].index = 21002 /\ d[5].index = 21002 /\ d[6].index = 21002
        /\ d[7].index = 21152 /\ d[8].index = 21156 /\ d[9].index = 21156
        /\ d[10].index = 21156 /\ d[11].index = 21156 /\ d[12].index = 21156
    BY DEF HandDatas, Data
  <1>2. /\ d[1].sub_index = 0 /\ d[2].sub_index = 1 /\ d[3].sub_index = 2
        /\ d[4].sub_index = 1 /\ d[5].sub_index = 9 /\ d[6].sub_index = 10
        /\ d[7].sub_index = 5 /\ d[8].sub_index = 2 /\ d[9].sub_index = 2
        /\ d[10].sub_index = 5 /\ d[11].sub_index = 6 /\ d[12].sub_index = 7
    BY DEF HandDatas, Data
  <1>3. \A n \in 1..12 : \/ n = 1 \/ n = 2 \/ n = 3 \/ n = 4 \/ n = 5 \/ n = 6 \/ n = 7
                         \/ n = 8 \/ n = 9 \/ n = 10 \/ n = 11 \/ n = 12
    OBVIOUS
  <1>4. d[k].index = d[l].index /\ d[k].sub_index = d[l].sub_index
    OBVIOUS
  <1> HIDE DEF d
  <1> QED
    BY <1>1, <1>2, <1>3, <1>4

\* No two data of a joint share an index, whichever way it turns.
LEMMA JointIndices ==
    /\ \A k \in 1..14 : /\ JointDatas[k].index \in Nat /\ JointDatas[k].index < 123
                         /\ JointDatas[k].name # "RPdoId"
    /\ \A place : \A k, l \in 1..14 :
           /\ JointDatas[k].index = JointDatas[l].index
           /\ SubIndex(JointDatas[k], place) = SubIndex(JointDatas[l], place)
           => k = l
  <1> DEFINE d == JointDatas
  <1>1. /\ d[1].index = 1 /\ d[2].index = 1 /\ d[3].index = 2
        /\ d[4].index = 5 /\ d[5].index = 7 /\ d[6].index = 11
        /\ d[7].index = 11 /\ d[8].index = 13 /\ d[9].index = 63
        /\ d[10].index = 64 /\ d[11].index = 100 /\ d[12].index = 122
        /\ d[13].index = 14 /\ d[14].index = 14
    BY DEF JointDatas, Data
  <1>2. /\ d[1].sub_index = 1 /\ d[2].sub_index = 2 /\ d[6].sub_index = 8
        /\ d[7].sub_index = 9 /\ d[13].sub_index = 27 /\ d[14].sub_index = 28
    BY DEF JointDatas, Data
  <1>3. /\ d[1].name = "HardwareVersion" /\ d[2].name = "HardwareDate"
        /\ d[3].name = "ControlMode" /\ d[4].name = "SinLevel"
        /\ d[5].name = "CurrentLimit" /\ d[6].name = "BusVoltage"
        /\ d[7].name = "Temperature" /\ d[8].name = "ResetError"
        /\ d[9].name = "ErrorCode" /\ d[10].name = "Enabled"
        /\ d[11].name = "ActualPosition" /\ d[12].name = "TargetPosition"
        /\ d[13].name = "UpperLimit" /\ d[14].name = "LowerLimit"
    BY DEF JointDatas, Data
  <1>4. \A k \in 1..14 : \/ k = 1 \/ k = 2 \/ k = 3 \/ k = 4 \/ k = 5 \/ k = 6 \/ k = 7
                         \/ k = 8 \/ k = 9 \/ k = 10 \/ k = 11 \/ k = 12 \/ k = 13 \/ k = 14
    OBVIOUS
  <1> HIDE DEF d
  <1>5. \A k \in 1..14 : d[k].index \in Nat /\ d[k].index < 123 /\ d[k].name # "RPdoId"
    BY <1>1, <1>3, <1>4
  <1>6. ASSUME NEW place
        PROVE  /\ SubIndex(d[1], place) # SubIndex(d[2], place)
               /\ SubIndex(d[6], place) # SubIndex(d[7], place)
               /\ SubIndex(d[13], place) # SubIndex(d[14], place)
    BY <1>2, <1>3 DEF SubIndex
  <1>7. \A k, l \in 1..14 : d[k].index = d[l].index =>
            \/ k = l
            \/ k \in {1, 2} /\ l \in {1, 2}
            \/ k \in {6, 7} /\ l \in {6, 7}
            \/ k \in {13, 14} /\ l \in {13, 14}
    BY <1>1, <1>4
  <1>8. ASSUME NEW place, NEW k \in 1..14, NEW l \in 1..14, d[k].index = d[l].index,
               SubIndex(d[k], place) = SubIndex(d[l], place)
        PROVE  k = l
    BY <1>6, <1>7, <1>8
  <1> QED
    BY <1>5, <1>8 DEF d

\* The index of a unit fits in two bytes, whose order is swapped twice.
LEMMA IndexRoundTrip ==
    ASSUME NEW i \in Nat, i < 65536
    PROVE  SwapEndian(SwapEndian(i)) = i
  <1> DEFINE q == i \div 256
             r == i % 256
  <1>1. q \in Nat /\ q < 256 /\ r \in Nat /\ r < 256 /\ i = 256 * q + r
    OBVIOUS
  <1>2. SwapEndian(i) = 256 * r + q
    BY DEF SwapEndian
  <1> HIDE DEF q, r
  <1>3. (256 * r + q) % 256 = q /\ (256 * r + q) \div 256 = r
    BY <1>1
  <1> QED
    BY <1>1, <1>2, <1>3 DEF SwapEndian

\* Two units with the same index are the same, or the two that share one.
LEMMA SharedIndex ==
    ASSUME NEW n \in StorageInfos, NEW m \in StorageInfos,
           n.index = m.index, n.sub_index = m.sub_index
    PROVE  n = m \/ (n \in {HandInfo(8), HandInfo(9)} /\ m \in {HandInfo(8), HandInfo(9)})
  <1>1. \A k \in 1..12 : /\ HandInfo(k).index = HandDatas[k].index
                         /\ HandInfo(k).index \in Int /\ HandInfo(k).index >= 20000
                         /\ HandInfo(k).sub_index = HandDatas[k].sub_index
    <2> TAKE k \in 1..12
    <2>1. /\ HandInfo(k).index = HandDatas[k].index + 0
          /\ HandInfo(k).sub_index = SubIndex(HandDatas[k], HandPlace)
      BY DEF HandInfo, Info
    <2>2. /\ HandDatas[k].index \in Int /\ HandDatas[k].index >= 20000
          /\ HandDatas[k].name \notin {"UpperLimit", "LowerLimit"}
      BY HandDataIndices
    <2>3. SubIndex(HandDatas[k], HandPlace) = HandDatas[k].sub_index
      BY <2>2 DEF SubIndex
    <2>4. HandDatas[k].index + 0 = HandDatas[k].index
      BY <2>2
    <2> QED
      BY <2>1, <2>2, <2>3, <2>4
  <1>2. \A f \in Fingers, j \in Joints, k \in 1..14 :
            /\ JointDatas[k].index \in Nat /\ JointDatas[k].index < 123
            /\ InfoAt(f, j, k).index = JointDatas[k].index + 8192 + 2048 * f + 256 * j
            /\ InfoAt(f, j, k).sub_index = SubIndex(JointDatas[k], JointPlace(f, j))
    <2> TAKE f \in Fingers, j \in Joints, k \in 1..14
    <2>1. /\ InfoAt(f, j, k).index = JointDatas[k].index + IndexOffset(f, j)
          /\ InfoAt(f, j, k).sub_index = SubIndex(JointDatas[k], JointPlace(f, j))
      BY DEF InfoAt, Info
    <2>2. JointDatas[k].index \in Nat /\ JointDatas[k].index < 123
      BY JointIndices
    <2>3. IndexOffset(f, j) = 8192 + 2048 * f + 256 * j
      BY DEF IndexOffset
    <2> QED
      BY <2>1, <2>2, <2>3 DEF Fingers, Joints
  <1>3. \A f \in Fingers, j \in Joints, k \in 1..14 :
            InfoAt(f, j, k).index \in Int /\ InfoAt(f, j, k).index < 20000
    <2> TAKE f \in Fingers, j \in Joints, k \in 1..14
    <2> DEFINE a == JointDatas[k].index
               x == InfoAt(f, j, k).index
    <2>1. a \in Nat /\ a < 123 /\ x = a + 8192 + 2048 * f + 256 * j
      BY <1>2
    <2>2. f \in Int /\ 0 =< f /\ f =< 4 /\ j \in Int /\ 0 =< j /\ j =< 3
      BY DEF Fingers, Joints
    <2> HIDE DEF a, x
    <2>3. x \in Int /\ x < 20000
      BY <2>1, <2>2
    <2> QED
      BY <2>3 DEF x
  <1>4. CASE n.index >= 20000
    <2>1. PICK k \in 1..12, l \in 1..12 : n = HandInfo(k) /\ m = HandInfo(l)
      <3>1. \A i \in StorageInfos : i.index >= 20000 => \E k \in 1..12 : i = HandInfo(k)
        <4>1. ASSUME NEW f \in Fingers, NEW j \in Joints, NEW k \in 1..14,
                     InfoAt(f, j, k).index >= 20000
              PROVE  FALSE
          <5> DEFINE x == InfoAt(f, j, k).index
          <5>1. x \in Int /\ x < 20000
            BY <1>3
          <5>2. x >= 20000
            BY <4>1
          <5> HIDE DEF x
          <5> QED
            BY <5>1, <5>2
        <4>2. \A i \in StorageInfos :
                  \/ \E k \in 1..12 : i = HandInfo(k)
                  \/ \E f \in Fingers, j \in Joints, k \in 1..14 : i = InfoAt(f, j, k)
          BY LayoutNumbers
        <4> QED
          BY <4>1, <4>2
      <3> QED
        BY <1>4, <3>1
    <2>2. /\ HandDatas[k].index = HandDatas[l].index
          /\ HandDatas[k].sub_index = HandDatas[l].sub_index
      <3>1. /\ HandInfo(k).index = HandInfo(l).index
            /\ HandInfo(k).sub_index = HandInfo(l).sub_index
        BY <2>1
      <3>2. /\ HandInfo(k).index = HandDatas[k].index
            /\ HandInfo(k).sub_index = HandDatas[k].sub_index
            /\ HandInfo(l).index = HandDatas[l].index
            /\ HandInfo(l).sub_index = HandDatas[l].sub_index
        BY <1>1
      <3> QED
        BY <3>1, <3>2
    <2>3. k = l \/ (k \in {8, 9} /\ l \in {8, 9})
      BY <2>2, HandIndices, Zenon
    <2> QED
      BY <2>1, <2>3
  <1>5. CASE ~(n.index >= 20000)
    <2>1. \A i \in StorageInfos : ~(i.index >= 20000) =>
              \E f \in Fingers, j \in Joints, k \in 1..14 : i = InfoAt(f, j, k)
      <3>1. \A k \in 1..12 : HandInfo(k).index >= 20000
        BY <1>1
      <3> QED
        BY <3>1, LayoutNumbers
    <2>2. PICK f \in Fingers, j \in Joints, k \in 1..14 : n = InfoAt(f, j, k)
      BY <1>5, <2>1
    <2>3. PICK g \in Fingers, h \in Joints, l \in 1..14 : m = InfoAt(g, h, l)
      BY <1>5, <2>1
    <2> DEFINE a == JointDatas[k].index
               b == JointDatas[l].index
    <2>4. a \in Nat /\ a < 123 /\ b \in Nat /\ b < 123
          /\ a + 8192 + 2048 * f + 256 * j = b + 8192 + 2048 * g + 256 * h
      <3>1. /\ a \in Nat /\ a < 123
            /\ InfoAt(f, j, k).index = a + 8192 + 2048 * f + 256 * j
        BY <1>2
      <3>2. /\ b \in Nat /\ b < 123
            /\ InfoAt(g, h, l).index = b + 8192 + 2048 * g + 256 * h
        BY <1>2
      <3>3. InfoAt(f, j, k).index = InfoAt(g, h, l).index
        BY <2>2, <2>3
      <3> HIDE DEF a, b
      <3> QED
        BY <3>1, <3>2, <3>3
    <2> HIDE DEF a, b
    <2>5. f = g /\ j = h /\ a = b
      BY <2>4 DEF Fingers, Joints
    <2>6. SubIndex(JointDatas[k], JointPlace(f, j)) = SubIndex(JointDatas[l], JointPlace(f, j))
      BY <1>2, <2>2, <2>3, <2>5
    <2>7. k = l
      BY <2>5, <2>6, JointIndices DEF a, b
    <2> QED
      BY <2>2, <2>3, <2>5, <2>7
  <1> QED
    BY <1>4, <1>5

\* A reply is credited to the unit that its request was sent for.
LEMMA RepliesAlwaysNameTheirUnit == RepliesNameTheirUnit
  <1>1. /\ {n.id : n \in StorageInfos} = 0..(StorageUnitCount - 1)
        /\ Cardinality(StorageInfos) = StorageUnitCount
    BY UnitsCounted
  <1>2. /\ HandInfo(8) \in StorageInfos /\ HandInfo(9) \in StorageInfos
        /\ HandInfo(8).id = 7 /\ HandInfo(9).id = 8
        /\ HandInfo(8).name = "RPdoId" /\ HandInfo(9).name = "TPdoId"
        /\ HandInfo(8).index = HandInfo(9).index /\ HandInfo(8).sub_index = HandInfo(9).sub_index
    <2>1. HandInfo(8) \in StorageInfos /\ HandInfo(9) \in StorageInfos
      BY LayoutNumbers
    <2>2. /\ HandDatas[8].name = "RPdoId" /\ HandDatas[9].name = "TPdoId"
          /\ HandDatas[8].index = HandDatas[9].index
          /\ HandDatas[8].sub_index = HandDatas[9].sub_index
      BY HandDataIndices
    <2> QED
      BY <2>1, <2>2 DEF HandInfo, Info, SubIndex
  <1>3. \A n \in StorageInfos : n.name = "RPdoId" <=> n = HandInfo(8)
    <2>1. \A k \in 1..12 : HandInfo(k).name = "RPdoId" <=> k = 8
      BY HandDataIndices DEF HandInfo, Info
    <2>2. \A f \in Fingers, j \in Joints, k \in 1..14 : InfoAt(f, j, k).name # "RPdoId"
      BY JointIndices DEF InfoAt, Info
    <2> QED
      BY <1>2, <2>1, <2>2, LayoutNumbers
  <1>4. ASSUME NEW n \in StorageInfos
        PROVE  Found(Key(n), StorageUnitCount) =
                   {m \in StorageInfos : m.index = n.index /\ m.sub_index = n.sub_index}
    <2>1. n.index \in Nat /\ n.index < 65536
      <3>1. \A k \in 1..12 : HandInfo(k).index \in Nat /\ HandInfo(k).index < 65536
        BY HandDataIndices DEF HandInfo, Info
      <3>2. \A f \in Fingers, j \in Joints, k \in 1..14 :
                InfoAt(f, j, k).index \in Nat /\ InfoAt(f, j, k).index < 65536
        BY JointIndices DEF InfoAt, Info, IndexOffset, Fingers, Joints
      <3>3. CASE \E k \in 1..12 : n = HandInfo(k)
        BY <3>1, <3>3
      <3>4. CASE \E f \in Fingers, j \in Joints, k \in 1..14 : n = InfoAt(f, j, k)
        BY <3>2, <3>4
      <3> QED
        BY <3>3, <3>4, LayoutNumbers
    <2>2. SwapEndian(Key(n)[1]) = n.index /\ Key(n)[2] = n.sub_index
      BY <2>1, IndexRoundTrip DEF Key
    <2>3. \A m \in StorageInfos : m.id < StorageUnitCount
      BY IdsOfUnits, LayoutNumbers
    <2> QED
      BY <2>2, <2>3 DEF Found
  <1>5. ASSUME NEW n \in StorageInfos, n \notin {HandInfo(8), HandInfo(9)}
        PROVE  FindStorage(Key(n), StorageUnitCount) = n
    <2>1. Found(Key(n), StorageUnitCount) = {n}
      BY <1>4, <1>5, SharedIndex
    <2>2. n.id =< n.id
      BY IdsOfUnits
    <2> QED
      BY <2>1, <2>2 DEF FindStorage
  <1>6. ASSUME NEW n \in {HandInfo(8), HandInfo(9)}
        PROVE  FindStorage(Key(n), StorageUnitCount) = HandInfo(9)
    <2> DEFINE found == Found(Key(n), StorageUnitCount)
    <2>1. found = {HandInfo(8), HandInfo(9)}
      <3>1. n \in StorageInfos /\ n.index = HandInfo(9).index
            /\ n.sub_index = HandInfo(9).sub_index
        BY <1>2
      <3>2. found \subseteq {HandInfo(8), HandInfo(9)}
        BY <1>2, <1>4, <3>1, SharedIndex
      <3>3. HandInfo(8) \in found /\ HandInfo(9) \in found
        BY <1>2, <1>4, <3>1
      <3> QED
        BY <3>2, <3>3
    <2> HIDE DEF found
    <2>2. /\ \A m \in found : m.id =< HandInfo(9).id
          /\ ~(\A m \in found : m.id =< HandInfo(8).id)
      BY <1>2, <2>1
    <2>3. \A x \in found : (\A m \in found : m.id =< x.id) <=> x = HandInfo(9)
      BY <2>1, <2>2
    <2>4. HandInfo(9) \in found
      BY <2>1
    <2>5. (CHOOSE x \in found : \A m \in found : m.id =< x.id) = HandInfo(9)
      BY <2>3, <2>4
    <2> QED
      BY <2>5 DEF FindStorage, found
  <1>7. ASSUME NEW n \in StorageInfos
        PROVE  LET found == FindStorage(Key(n), StorageUnitCount)
               IN  found.name = (IF n.name = "RPdoId" THEN "TPdoId" ELSE n.name)
                   /\ (n.name # "RPdoId" => found = n)
    <2>1. CASE n \in {HandInfo(8), HandInfo(9)}
      BY <1>2, <1>3, <1>6, <2>1
    <2>2. CASE n \notin {HandInfo(8), HandInfo(9)}
      BY <1>3, <1>5, <2>2
    <2> QED
      BY <2>1, <2>2
  <1> QED
    BY <1>1, <1>7 DEF RepliesNameTheirUnit

\* A reply finds the unit of its request again (find_storage_by_index in handler.cpp), but
\* for the one index that two units share.
THEOREM LayoutSafe == Spec => []LayoutSound
  <1>1. LayoutSound
    BY RepliesAlwaysNameTheirUnit DEF LayoutSound
  <1> QED
    BY <1>1, PTL

================================================================================
