--------------------------- MODULE StorageUnit_proofs ---------------------------
(* Theorems about StorageUnit, for every value of its constants. *)
EXTENDS StorageUnit, TLAPS

--------------------------------------------------------------------------------
\* The inductive invariant behind CompletedOnce, RetireLosesNothing and ReadDelivers, part
\* by part.

Preparing == upc \in {"timeout", "callback", "publish"}
InFlight == {"READING", "WRITING", "WRITING_CONFIRMING"}
ReadUnit == \A c \in Calls : ~IsWrite(c)

\* The state fits the mode, in the word and in the copies of it.
Fits(o) ==
    /\ o.mode = "READ" => ReadUnit /\ o.state \in {"SUCCESS", "WAITING", "READING"}
    /\ o.mode = "WRITE" => o.state # "READING"

\* What the event thread holds fits the step it is about to take.
HandlerFits ==
    /\ epc = "value" => eop.mode = "READ" /\ reply.kind = "read"
    /\ epc = "compare" => eop.mode = "WRITE"
    /\ epc = "store" => eop.mode # "NONE" /\ eop.state \in {"SUCCESS", "WRITING"}
    /\ epc = "store" /\ eop.mode = "READ" =>
          eop.state = "SUCCESS" /\ reply.kind = "read" /\ value = reply.val /\ version # 0

\* A masked unit does not get past WAITING, so that nothing is sent or answered.
MaskedIdle ==
    Masked => /\ requests = <<>> /\ replies = <<>>
              /\ epc = "idle" /\ tpc \notin {"unfinished", "send"}

\* The user thread prepares a call only while the unit is free.
UserOwnsFreeUnit ==
    Preparing => op.mode = "NONE" /\ serial > 0

\* The tick thread works on the operation that is in the word.
TickOnCurrent ==
    /\ tpc \in {"succeeded", "retire", "unfinished", "abort", "send"} =>
          Busy /\ seen.mode = op.mode
    /\ tpc \in {"succeeded", "retire"} =>
          seen.state = "SUCCESS" /\ epc = "idle" /\ (~Masked => op.state = "SUCCESS")
    /\ tpc \in {"unfinished", "abort", "send"} => ~Masked /\ seen.state # "SUCCESS"
    /\ tpc = "unfinished" /\ seen.state = "WAITING" => op.state = "WAITING"

\* The event thread works on an operation that is in flight.
EventOnCurrent ==
    epc # "idle" => Busy /\ eop.mode = op.mode /\ op.state \in InFlight

\* Who still has to be told, and who was.
Accounts ==
    /\ \A n \in Serials : completions[n] =< 1
    /\ \A n \in Serials : n > serial => completions[n] = 0
    /\ Preparing => completions[serial] = 0
    /\ upc = "publish" => callback \in {0, serial}
    /\ Busy => callback \in {0, serial} /\ (callback # 0 => completions[callback] = 0)
    /\ tpc \in {"retire", "abort"} => tcb = callback
    /\ tpc \in {"report", "expire"} /\ tcb # 0 =>
          completions[tcb] = 0 /\ tcb =< serial /\ (Busy \/ Preparing => tcb # serial)

\* A read that succeeded has its value in the slot.
ReadStored ==
    op.mode = "READ" /\ op.state = "SUCCESS" /\ ~Masked =>
        evidence.kind = "read" /\ value = evidence.val /\ version # 0

\* The inductive invariant holds in every reachable state.
IndInv ==
    /\ TypeOK
    /\ Fits(op) /\ Fits(seen) /\ Fits(eop)
    /\ HandlerFits
    /\ MaskedIdle
    /\ upc # "idle" => call.name \in Calls
    /\ ~strayed => UserOwnsFreeUnit /\ TickOnCurrent /\ EventOnCurrent /\ Accounts /\ ReadStored

\* The reply holds what the register holds, if that does not change by itself.
Current(m) == Drifts \/ m.val = register

\* With Window = 1 and as long as no visit strayed, at most one message is on the link,
\* between two visits, and belongs to the call under way; an answer to a write finds the
\* unit confirming.
LoneMessage ==
    \/ requests = <<>> /\ replies = <<>>
    \/ \E m \in Messages :
           /\ \/ requests = <<m>> /\ replies = <<>>
              \/ requests = <<>> /\ replies = <<m>> /\ (m.kind = "read" => Current(m))
           /\ tpc = "idle" /\ Busy /\ op.state # "WAITING" /\ m.by = serial
           /\ m.kind = "write" => epc = "idle" /\ op.state = "WRITING_CONFIRMING"

\* The event thread is at rest while a write is being sent, and what it compares is still
\* in the register.
AnswerInHand ==
    /\ epc # "idle" => reply.by = serial
    /\ epc = "compare" => Current(reply)
    /\ Busy /\ op.state = "WRITING" => epc = "idle"
    /\ tpc = "unfinished" /\ seen.state = "WRITING" => op.state = "WRITING"
    /\ tpc = "unfinished" /\ op.state = "WAITING" => seen.state = "WAITING"
    /\ tpc = "send" => epc = "idle" /\ op.state = "WRITING_CONFIRMING"

\* A success rests on an answer to the call, and a write's on the register.
SuccessEarned ==
    /\ Busy /\ op.state = "SUCCESS" => evidence.by = serial
    /\ op.mode = "WRITE" /\ ~Drifts =>
          /\ register = value \/ op.state = "SUCCESS" => held
          /\ epc = "store" /\ eop.state = "SUCCESS" => held

\* The inductive invariant behind OwnReply and HonestWrite.
PromptInv == ~strayed /\ ~Masked => LoneMessage /\ AnswerInHand /\ SuccessEarned

\* When every timeout overflows, the deadline test never succeeds and no visit strays.
Patient ==
    /\ timer \in {"overflow", "max"}
    /\ Preparing \/ upc = "check" => call.timeout = "overflow"
    /\ upc \in {"callback", "publish"} => timer = "overflow"
    /\ Busy /\ op.state = "WAITING" => timer = "overflow"
    /\ tpc = "unfinished" /\ seen.state = "WAITING" => timer = "overflow"
    /\ tpc \notin {"abort", "expire"}
    /\ expired = {} /\ ~strayed

--------------------------------------------------------------------------------
\* The wrapped version counter never takes the value 0 that means "never read".
LEMMA VersionSkipsZero ==
    ASSUME version \in 0..(VersionMod - 1)
    PROVE  NextVersion \in 1..(VersionMod - 1)
  <1>1. VersionMod \in Nat /\ VersionMod > 1
    BY UnitAssumption
  <1>2. (version + 1) % VersionMod \in 0..(VersionMod - 1)
    BY <1>1
  <1> QED
    BY <1>1, <1>2 DEF NextVersion

\* Replacing one field of an operation word leaves an operation word.
LEMMA OperationUpdate ==
    ASSUME NEW o \in Operation
    PROVE  /\ \A s \in States : [o EXCEPT !.state = s] \in Operation
           /\ \A s \in States : [o EXCEPT !.state = s].mode = o.mode
           /\ \A s \in States : [o EXCEPT !.state = s].state = s
           /\ \A m \in Modes : [o EXCEPT !.mode = m] \in Operation
           /\ \A m \in Modes : [o EXCEPT !.mode = m].mode = m
           /\ \A m \in Modes : [o EXCEPT !.mode = m].state = o.state
  BY DEF Operation

\* The first message of a channel and the rest of it.
LEMMA ChannelHead ==
    ASSUME NEW s \in Seq(Messages), s # <<>>
    PROVE  Head(s) \in Messages /\ Tail(s) \in Seq(Messages)
  OBVIOUS

\* The named states and modes.
LEMMA Names ==
    /\ {"NONE", "READ", "WRITE"} = Modes
    /\ {"SUCCESS", "WAITING", "READING", "WRITING", "WRITING_CONFIRMING"} = States
  BY DEF Modes, States

\* Whatever step is taken, every variable stays in its domain.
LEMMA TypeStep ==
    ASSUME TypeOK, [Next]_vars
    PROVE  TypeOK'
  <1> USE UnitAssumption DEF TypeOK, Operation, Modes, States, Serials, Messages, TimerWords,
          NoOp, NoCall, NoReply, unit, user, tick, event, link, history,
          CheckedCalls, AllCalls, AllTimeouts
  <1>1. ASSUME NEW c \in Calls, NEW v \in Values, NEW t \in Timeouts, Begin(c, v, t)
        PROVE  TypeOK'
    BY <1>1 DEF Begin, Accept
  <1>2. ASSUME NEW v \in Values, NEW t \in Timeouts, StoreUnchecked(v, t)
        PROVE  TypeOK'
    BY <1>2 DEF StoreUnchecked
  <1>3. CASE CheckUnchecked
    BY <1>3, SMTT(30) DEF CheckUnchecked, Accept
  <1>4. CASE SetTimeout
    BY <1>4 DEF SetTimeout
  <1>5. CASE SetCallback
    BY <1>5 DEF SetCallback
  <1>6. CASE Publish
    BY <1>6 DEF Publish
  <1>7. CASE TickLoad
    <2>1. seen' \in Operation
      BY <1>7, OperationUpdate, Names DEF TickLoad
    <2> QED
      BY <1>7, <2>1 DEF TickLoad
  <1>8. CASE TickTakeCallback
    BY <1>8 DEF TickTakeCallback
  <1>9. CASE TickRetire
    BY <1>9 DEF TickRetire
  <1>10. CASE TickReportSuccess
    BY <1>10 DEF TickReportSuccess, Complete
  <1>11. CASE TickLeave
    BY <1>11 DEF TickLeave
  <1>12. CASE TickArm
    <2>1. op' \in Operation
      BY <1>12, OperationUpdate, Names DEF TickArm
    <2> QED
      BY <1>12, <2>1 DEF TickArm, Armed
  <1>13. CASE TickTakeExpired
    BY <1>13 DEF TickTakeExpired
  <1>14. CASE TickAbort
    <2>1. op' \in Operation
      BY <1>14, OperationUpdate, Names DEF TickAbort
    <2> QED
      BY <1>14, <2>1 DEF TickAbort
  <1>15. CASE TickReportFailure
    BY <1>15, SMTT(30) DEF TickReportFailure, Complete
  <1>16. CASE TickPoll
    BY <1>16 DEF TickPoll, Request
  <1>17. CASE TickWrite
    <2>1. op' \in Operation
      BY <1>17, OperationUpdate, Names DEF TickWrite
    <2> QED
      BY <1>17, <2>1 DEF TickWrite
  <1>18. CASE TickSend
    BY <1>18 DEF TickSend, Request
  <1>19. CASE EventLoad
    <2>1. Head(replies) \in Messages /\ Tail(replies) \in Seq(Messages)
      BY <1>19, ChannelHead DEF EventLoad
    <2>2. reply' \in Messages
      <3>1. reply' = Head(replies) \/ reply' = NoReply \/ reply' = reply
        BY <1>19 DEF EventLoad, Done
      <3>2. NoReply \in Messages
        OBVIOUS
      <3> QED
        BY <2>1, <3>1, <3>2
    <2>3. [op EXCEPT !.state = "SUCCESS"] \in Operation
      BY OperationUpdate, Names
    <2>4. eop' \in Operation
      <3>1. eop' = [op EXCEPT !.state = "SUCCESS"] \/ eop' = op \/ eop' = NoOp
        BY <1>19 DEF EventLoad, Done
      <3>2. NoOp \in Operation
        OBVIOUS
      <3> QED
        BY <2>3, <3>1, <3>2
    <2>5. epc' \in {"idle", "value", "compare", "store"}
      BY <1>19 DEF EventLoad, Handling, Done
    <2>6. /\ replies' \in Seq(Messages)
          /\ UNCHANGED <<unit, user, tick, requests, register, history>>
      BY <1>19, <2>1 DEF EventLoad
    <2> QED
      BY <2>2, <2>4, <2>5, <2>6
  <1>20. CASE EventValue
    <2>1. eop' \in Operation
      BY <1>20, OperationUpdate, Names DEF EventValue
    <2>2. version' \in 0..(VersionMod - 1)
      BY <1>20, VersionSkipsZero DEF EventValue
    <2>3. value' \in Values
      BY <1>20 DEF EventValue
    <2> QED
      BY <1>20, <2>1, <2>2, <2>3 DEF EventValue
  <1>21. CASE EventCompare
    <2>1. eop' \in Operation
      BY <1>21, OperationUpdate, Names DEF EventCompare
    <2> QED
      BY <1>21, <2>1 DEF EventCompare
  <1>22. CASE EventStore
    BY <1>22 DEF EventStore, Done
  <1>23. ASSUME NEW q \in Messages, NEW r \in Values, Answer(q, r), requests # <<>>
         PROVE  TypeOK'
    <2>1. [q EXCEPT !.val = r] \in Messages
      BY <1>23
    <2>2. requests' \in Seq(Messages) /\ replies' \in Seq(Messages)
      BY <1>23, <2>1 DEF Answer
    <2> QED
      BY <1>23, <2>2 DEF Answer
  <1>24. CASE DeviceRead
    <2>1. Head(requests) \in Messages
      BY <1>24, ChannelHead DEF DeviceRead
    <2> QED
      BY <1>23, <1>24, <2>1 DEF DeviceRead
  <1>25. CASE DeviceWrite
    <2>1. Head(requests) \in Messages /\ Head(requests).val \in Values
      BY <1>25, ChannelHead DEF DeviceWrite
    <2> QED
      BY <1>23, <1>25, <2>1 DEF DeviceWrite
  <1>26. CASE DeviceRefuse
    BY <1>26 DEF DeviceRefuse
  <1>27. CASE RegisterDrifts
    BY <1>27 DEF RegisterDrifts
  <1>28. CASE DeadlinePasses
    BY <1>28 DEF DeadlinePasses
  <1>29. CASE UNCHANGED vars
    BY <1>29 DEF vars
  <1> QED
    BY <1>1, <1>2, <1>3, <1>4, <1>5, <1>6, <1>7, <1>8, <1>9, <1>10, <1>11, <1>12, <1>13, <1>14,
       <1>15, <1>16, <1>17, <1>18, <1>19, <1>20, <1>21, <1>22, <1>24, <1>25, <1>26, <1>27,
       <1>28, <1>29 DEF Next, StartCall, UserStep, TickStep, EventStep

\* The initial state is in the domains.
LEMMA InitTypes == Init => TypeOK
  <1> SUFFICES ASSUME Init
               PROVE  TypeOK
    OBVIOUS
  <1> USE UnitAssumption DEF Init
  <1>1. NoOp \in Operation /\ NoReply \in Messages
    BY DEF NoOp, NoReply, Operation, Modes, States, Messages
  <1>2. call \in [name : AllCalls \cup {"none"}, timeout : AllTimeouts] /\ timer \in TimerWords
    BY DEF NoCall, AllTimeouts, TimerWords
  <1>3. requests \in Seq(Messages) /\ replies \in Seq(Messages)
    OBVIOUS
  <1>4. completions \in [Serials -> Nat]
    BY DEF Serials
  <1>5. /\ value \in Values /\ version \in 0..(VersionMod - 1) /\ register \in Values
        /\ callback \in 0..MaxCalls /\ serial \in 0..MaxCalls /\ tcb \in 0..MaxCalls
        /\ expired \subseteq Serials
    OBVIOUS
  <1>6. op \in Operation /\ seen \in Operation /\ eop \in Operation
    BY <1>1
  <1>7. reply \in Messages /\ evidence \in Messages
    BY <1>1
  <1> QED
    BY <1>2, <1>3, <1>4, <1>5, <1>6, <1>7 DEF TypeOK

\* The initial state is in the domains, and every step keeps it there.
THEOREM TypeCorrect == Spec => []TypeOK
  <1>1. Init => TypeOK
    BY InitTypes
  <1>2. TypeOK /\ [Next]_vars => TypeOK'
    BY TypeStep
  <1> QED
    BY <1>1, <1>2, PTL DEF Spec

\* The words and the copies of them stay well formed.
LEMMA FitsStep ==
    ASSUME IndInv, [Next]_vars
    PROVE  (Fits(op) /\ Fits(seen) /\ Fits(eop) /\ HandlerFits)'
  <1> USE UnitAssumption DEF IndInv, TypeOK, Operation, Modes, States, Fits, HandlerFits, ReadUnit, IsWrite, NoOp, NoReply,
          unit, user, tick, event, link, history
  <1>1. ASSUME NEW c \in Calls, NEW v \in Values, NEW t \in Timeouts, Begin(c, v, t)
        PROVE  (Fits(op) /\ Fits(seen) /\ Fits(eop) /\ HandlerFits)'
    BY <1>1 DEF Begin, Accept
  <1>2. ASSUME NEW v \in Values, NEW t \in Timeouts, "write_async_unchecked" \in Calls,
               StoreUnchecked(v, t)
        PROVE  (Fits(op) /\ Fits(seen) /\ Fits(eop) /\ HandlerFits)'
    BY <1>2 DEF StoreUnchecked
  <1>3. CASE CheckUnchecked
    BY <1>3 DEF CheckUnchecked, Accept
  <1>4. CASE SetTimeout
    BY <1>4 DEF SetTimeout
  <1>5. CASE SetCallback
    BY <1>5 DEF SetCallback
  <1>6. CASE Publish
    BY <1>6 DEF Publish
  <1>7. CASE TickLoad
    BY <1>7 DEF TickLoad
  <1>8. CASE TickTakeCallback
    BY <1>8 DEF TickTakeCallback
  <1>9. CASE TickRetire
    BY <1>9 DEF TickRetire
  <1>10. CASE TickReportSuccess
    BY <1>10 DEF TickReportSuccess, Complete
  <1>11. CASE TickLeave
    BY <1>11 DEF TickLeave
  <1>12. CASE TickArm
    BY <1>12 DEF TickArm
  <1>13. CASE TickTakeExpired
    BY <1>13 DEF TickTakeExpired
  <1>14. CASE TickAbort
    BY <1>14 DEF TickAbort
  <1>15. CASE TickReportFailure
    BY <1>15 DEF TickReportFailure, Complete
  <1>16. CASE TickPoll
    BY <1>16 DEF TickPoll, Request
  <1>17. CASE TickWrite
    BY <1>17 DEF TickWrite
  <1>18. CASE TickSend
    BY <1>18 DEF TickSend, Request
  <1>19. CASE EventLoad
    BY <1>19, SMTT(30) DEF EventLoad, Handling, Done
  <1>20. CASE EventValue
    <2>1. version' # 0
      BY <1>20, VersionSkipsZero DEF EventValue
    <2> QED
      BY <1>20, <2>1 DEF EventValue
  <1>21. CASE EventCompare
    BY <1>21 DEF EventCompare
  <1>22. CASE EventStore
    BY <1>22 DEF EventStore, Done
  <1>23. CASE DeviceRead
    BY <1>23 DEF DeviceRead, Answer
  <1>24. CASE DeviceWrite
    BY <1>24 DEF DeviceWrite, Answer
  <1>25. CASE DeviceRefuse
    BY <1>25 DEF DeviceRefuse
  <1>26. CASE RegisterDrifts
    BY <1>26 DEF RegisterDrifts
  <1>27. CASE DeadlinePasses
    BY <1>27 DEF DeadlinePasses
  <1>28. CASE UNCHANGED vars
    BY <1>28 DEF vars
  <1> QED
    BY <1>1, <1>2, <1>3, <1>4, <1>5, <1>6, <1>7, <1>8, <1>9, <1>10, <1>11, <1>12, <1>13,
       <1>14, <1>15, <1>16, <1>17, <1>18, <1>19, <1>20, <1>21, <1>22, <1>23, <1>24, <1>25,
       <1>26, <1>27, <1>28 DEF Next, StartCall, UserStep, TickStep, EventStep

\* The user thread keeps to the calls of the unit.
LEMMA CallStep ==
    ASSUME IndInv, [Next]_vars
    PROVE  (upc # "idle" => call.name \in Calls)'
  <1> USE DEF IndInv, TypeOK, unit, user, tick, event, link, history
  <1>1. CASE StartCall
    BY <1>1 DEF StartCall, Begin, StoreUnchecked, Accept
  <1>2. CASE UserStep
    BY <1>2 DEF UserStep, CheckUnchecked, SetTimeout, SetCallback, Publish, Accept
  <1>3. CASE TickStep
    BY <1>3 DEF TickStep, TickLoad, TickTakeCallback, TickRetire, TickReportSuccess, TickLeave,
       TickArm, TickTakeExpired, TickAbort, TickReportFailure, TickPoll, TickWrite, TickSend
  <1>4. CASE EventStep
    BY <1>4 DEF EventStep, EventLoad, EventValue, EventCompare, EventStore
  <1>5. CASE DeviceRead \/ DeviceWrite \/ DeviceRefuse \/ RegisterDrifts \/ DeadlinePasses
    BY <1>5 DEF DeviceRead, DeviceWrite, Answer, DeviceRefuse, RegisterDrifts, DeadlinePasses
  <1>6. CASE UNCHANGED vars
    BY <1>6 DEF vars
  <1> QED
    BY <1>1, <1>2, <1>3, <1>4, <1>5, <1>6 DEF Next

\* A masked unit stays off the wire.
LEMMA MaskedStep ==
    ASSUME IndInv, [Next]_vars
    PROVE  MaskedIdle'
  <1> USE DEF IndInv, TypeOK, Operation, States, MaskedIdle, AtDeadlineTest, unit, user, tick, event, link, history
  <1>1. ASSUME NEW c \in Calls, NEW v \in Values, NEW t \in Timeouts, Begin(c, v, t)
        PROVE  MaskedIdle'
    BY <1>1 DEF Begin, Accept
  <1>2. ASSUME NEW v \in Values, NEW t \in Timeouts, "write_async_unchecked" \in Calls,
               StoreUnchecked(v, t)
        PROVE  MaskedIdle'
    BY <1>2 DEF StoreUnchecked
  <1>3. CASE CheckUnchecked
    BY <1>3 DEF CheckUnchecked, Accept
  <1>4. CASE SetTimeout
    BY <1>4 DEF SetTimeout
  <1>5. CASE SetCallback
    BY <1>5 DEF SetCallback
  <1>6. CASE Publish
    BY <1>6 DEF Publish
  <1>7. CASE TickLoad
    BY <1>7 DEF TickLoad
  <1>8. CASE TickTakeCallback
    BY <1>8 DEF TickTakeCallback
  <1>9. CASE TickRetire
    BY <1>9 DEF TickRetire
  <1>10. CASE TickReportSuccess
    BY <1>10 DEF TickReportSuccess, Complete
  <1>11. CASE TickLeave
    BY <1>11 DEF TickLeave
  <1>12. CASE TickArm
    BY <1>12 DEF TickArm
  <1>13. CASE TickTakeExpired
    BY <1>13 DEF TickTakeExpired
  <1>14. CASE TickAbort
    BY <1>14 DEF TickAbort
  <1>15. CASE TickReportFailure
    BY <1>15 DEF TickReportFailure, Complete
  <1>16. CASE TickPoll
    BY <1>16 DEF TickPoll, Request
  <1>17. CASE TickWrite
    BY <1>17 DEF TickWrite
  <1>18. CASE TickSend
    BY <1>18 DEF TickSend, Request
  <1>19. CASE EventLoad
    BY <1>19 DEF EventLoad, Handling, Done
  <1>20. CASE EventValue
    BY <1>20 DEF EventValue
  <1>21. CASE EventCompare
    BY <1>21 DEF EventCompare
  <1>22. CASE EventStore
    BY <1>22 DEF EventStore, Done
  <1>23. CASE DeviceRead
    BY <1>23 DEF DeviceRead, Answer
  <1>24. CASE DeviceWrite
    BY <1>24 DEF DeviceWrite, Answer
  <1>25. CASE DeviceRefuse
    BY <1>25 DEF DeviceRefuse
  <1>26. CASE RegisterDrifts
    BY <1>26 DEF RegisterDrifts
  <1>27. CASE DeadlinePasses
    BY <1>27 DEF DeadlinePasses
  <1>28. CASE UNCHANGED vars
    BY <1>28 DEF vars
  <1> QED
    BY <1>1, <1>2, <1>3, <1>4, <1>5, <1>6, <1>7, <1>8, <1>9, <1>10, <1>11, <1>12, <1>13,
       <1>14, <1>15, <1>16, <1>17, <1>18, <1>19, <1>20, <1>21, <1>22, <1>23, <1>24, <1>25,
       <1>26, <1>27, <1>28 DEF Next, StartCall, UserStep, TickStep, EventStep

\* No step makes the unit busy under the hands of the user thread.
LEMMA UserStepKeeps ==
    ASSUME IndInv, [Next]_vars, ~strayed'
    PROVE  UserOwnsFreeUnit'
  <1> USE UnitAssumption DEF IndInv, TypeOK, Operation, UserOwnsFreeUnit, TickOnCurrent, EventOnCurrent, HandlerFits, Preparing, Busy, NoOp,
          unit, user, tick, event, link, history
  <1>1. ASSUME NEW c \in Calls, NEW v \in Values, NEW t \in Timeouts, Begin(c, v, t)
        PROVE  UserOwnsFreeUnit'
    BY <1>1 DEF Begin, Accept
  <1>2. ASSUME NEW v \in Values, NEW t \in Timeouts, "write_async_unchecked" \in Calls,
               StoreUnchecked(v, t)
        PROVE  UserOwnsFreeUnit'
    BY <1>2 DEF StoreUnchecked
  <1>3. CASE CheckUnchecked
    BY <1>3 DEF CheckUnchecked, Accept
  <1>4. CASE SetTimeout
    BY <1>4 DEF SetTimeout
  <1>5. CASE SetCallback
    BY <1>5 DEF SetCallback
  <1>6. CASE Publish
    BY <1>6 DEF Publish
  <1>7. CASE TickLoad
    BY <1>7 DEF TickLoad
  <1>8. CASE TickTakeCallback
    BY <1>8 DEF TickTakeCallback
  <1>9. CASE TickRetire
    BY <1>9 DEF TickRetire
  <1>10. CASE TickReportSuccess
    BY <1>10 DEF TickReportSuccess, Complete
  <1>11. CASE TickLeave
    BY <1>11 DEF TickLeave
  <1>12. CASE TickArm
    BY <1>12 DEF TickArm
  <1>13. CASE TickTakeExpired
    BY <1>13 DEF TickTakeExpired
  <1>14. CASE TickAbort
    BY <1>14 DEF TickAbort
  <1>15. CASE TickReportFailure
    BY <1>15 DEF TickReportFailure, Complete
  <1>16. CASE TickPoll
    BY <1>16 DEF TickPoll, Request
  <1>17. CASE TickWrite
    BY <1>17 DEF TickWrite
  <1>18. CASE TickSend
    BY <1>18 DEF TickSend, Request
  <1>19. CASE EventLoad
    BY <1>19 DEF EventLoad, Handling, Done
  <1>20. CASE EventValue
    BY <1>20 DEF EventValue
  <1>21. CASE EventCompare
    BY <1>21 DEF EventCompare
  <1>22. CASE EventStore
    BY <1>22 DEF EventStore, Done
  <1>23. CASE DeviceRead
    BY <1>23 DEF DeviceRead, Answer
  <1>24. CASE DeviceWrite
    BY <1>24 DEF DeviceWrite, Answer
  <1>25. CASE DeviceRefuse
    BY <1>25 DEF DeviceRefuse
  <1>26. CASE RegisterDrifts
    BY <1>26 DEF RegisterDrifts
  <1>27. CASE DeadlinePasses
    BY <1>27 DEF DeadlinePasses
  <1>28. CASE UNCHANGED vars
    BY <1>28 DEF vars
  <1> QED
    BY <1>1, <1>2, <1>3, <1>4, <1>5, <1>6, <1>7, <1>8, <1>9, <1>10, <1>11, <1>12, <1>13,
       <1>14, <1>15, <1>16, <1>17, <1>18, <1>19, <1>20, <1>21, <1>22, <1>23, <1>24, <1>25,
       <1>26, <1>27, <1>28 DEF Next, StartCall, UserStep, TickStep, EventStep

\* No step takes the operation away from the tick thread.
LEMMA TickStepKeeps ==
    ASSUME IndInv, [Next]_vars, ~strayed'
    PROVE  TickOnCurrent'
  <1> USE UnitAssumption DEF IndInv, TypeOK, Operation, UserOwnsFreeUnit, TickOnCurrent, EventOnCurrent, HandlerFits, MaskedIdle, Preparing, Busy, InFlight, NoOp, AtDeadlineTest,
          unit, user, tick, event, link, history
  <1>1. ASSUME NEW c \in Calls, NEW v \in Values, NEW t \in Timeouts, Begin(c, v, t)
        PROVE  TickOnCurrent'
    BY <1>1 DEF Begin, Accept
  <1>2. ASSUME NEW v \in Values, NEW t \in Timeouts, "write_async_unchecked" \in Calls,
               StoreUnchecked(v, t)
        PROVE  TickOnCurrent'
    BY <1>2 DEF StoreUnchecked
  <1>3. CASE CheckUnchecked
    BY <1>3 DEF CheckUnchecked, Accept
  <1>4. CASE SetTimeout
    BY <1>4 DEF SetTimeout
  <1>5. CASE SetCallback
    BY <1>5 DEF SetCallback
  <1>6. CASE Publish
    BY <1>6 DEF Publish
  <1>7. CASE TickLoad
    BY <1>7 DEF TickLoad
  <1>8. CASE TickTakeCallback
    BY <1>8 DEF TickTakeCallback
  <1>9. CASE TickRetire
    BY <1>9 DEF TickRetire
  <1>10. CASE TickReportSuccess
    BY <1>10 DEF TickReportSuccess, Complete
  <1>11. CASE TickLeave
    BY <1>11 DEF TickLeave
  <1>12. CASE TickArm
    BY <1>12 DEF TickArm
  <1>13. CASE TickTakeExpired
    BY <1>13 DEF TickTakeExpired
  <1>14. CASE TickAbort
    BY <1>14 DEF TickAbort
  <1>15. CASE TickReportFailure
    BY <1>15 DEF TickReportFailure, Complete
  <1>16. CASE TickPoll
    BY <1>16 DEF TickPoll, Request
  <1>17. CASE TickWrite
    BY <1>17 DEF TickWrite
  <1>18. CASE TickSend
    BY <1>18 DEF TickSend, Request
  <1>19. CASE EventLoad
    BY <1>19 DEF EventLoad, Handling, Done
  <1>20. CASE EventValue
    BY <1>20 DEF EventValue
  <1>21. CASE EventCompare
    BY <1>21 DEF EventCompare
  <1>22. CASE EventStore
    BY <1>22 DEF EventStore, Done
  <1>23. CASE DeviceRead
    BY <1>23 DEF DeviceRead, Answer
  <1>24. CASE DeviceWrite
    BY <1>24 DEF DeviceWrite, Answer
  <1>25. CASE DeviceRefuse
    BY <1>25 DEF DeviceRefuse
  <1>26. CASE RegisterDrifts
    BY <1>26 DEF RegisterDrifts
  <1>27. CASE DeadlinePasses
    BY <1>27 DEF DeadlinePasses
  <1>28. CASE UNCHANGED vars
    BY <1>28 DEF vars
  <1> QED
    BY <1>1, <1>2, <1>3, <1>4, <1>5, <1>6, <1>7, <1>8, <1>9, <1>10, <1>11, <1>12, <1>13,
       <1>14, <1>15, <1>16, <1>17, <1>18, <1>19, <1>20, <1>21, <1>22, <1>23, <1>24, <1>25,
       <1>26, <1>27, <1>28 DEF Next, StartCall, UserStep, TickStep, EventStep

\* No step takes the operation away from the event thread.
LEMMA EventStepKeeps ==
    ASSUME IndInv, [Next]_vars, ~strayed'
    PROVE  EventOnCurrent'
  <1> USE UnitAssumption DEF IndInv, TypeOK, Operation, UserOwnsFreeUnit, TickOnCurrent, EventOnCurrent, HandlerFits, MaskedIdle, Preparing, Busy, InFlight, NoOp,
          unit, user, tick, event, link, history
  <1>1. ASSUME NEW c \in Calls, NEW v \in Values, NEW t \in Timeouts, Begin(c, v, t)
        PROVE  EventOnCurrent'
    BY <1>1 DEF Begin, Accept
  <1>2. ASSUME NEW v \in Values, NEW t \in Timeouts, "write_async_unchecked" \in Calls,
               StoreUnchecked(v, t)
        PROVE  EventOnCurrent'
    BY <1>2 DEF StoreUnchecked
  <1>3. CASE CheckUnchecked
    BY <1>3 DEF CheckUnchecked, Accept
  <1>4. CASE SetTimeout
    BY <1>4 DEF SetTimeout
  <1>5. CASE SetCallback
    BY <1>5 DEF SetCallback
  <1>6. CASE Publish
    BY <1>6 DEF Publish
  <1>7. CASE TickLoad
    BY <1>7 DEF TickLoad
  <1>8. CASE TickTakeCallback
    BY <1>8 DEF TickTakeCallback
  <1>9. CASE TickRetire
    BY <1>9 DEF TickRetire
  <1>10. CASE TickReportSuccess
    BY <1>10 DEF TickReportSuccess, Complete
  <1>11. CASE TickLeave
    BY <1>11 DEF TickLeave
  <1>12. CASE TickArm
    BY <1>12 DEF TickArm
  <1>13. CASE TickTakeExpired
    BY <1>13 DEF TickTakeExpired
  <1>14. CASE TickAbort
    BY <1>14 DEF TickAbort
  <1>15. CASE TickReportFailure
    BY <1>15 DEF TickReportFailure, Complete
  <1>16. CASE TickPoll
    BY <1>16 DEF TickPoll, Request
  <1>17. CASE TickWrite
    BY <1>17 DEF TickWrite
  <1>18. CASE TickSend
    BY <1>18 DEF TickSend, Request
  <1>19. CASE EventLoad
    BY <1>19 DEF EventLoad, Handling, Done
  <1>20. CASE EventValue
    BY <1>20 DEF EventValue
  <1>21. CASE EventCompare
    BY <1>21 DEF EventCompare
  <1>22. CASE EventStore
    BY <1>22 DEF EventStore, Done
  <1>23. CASE DeviceRead
    BY <1>23 DEF DeviceRead, Answer
  <1>24. CASE DeviceWrite
    BY <1>24 DEF DeviceWrite, Answer
  <1>25. CASE DeviceRefuse
    BY <1>25 DEF DeviceRefuse
  <1>26. CASE RegisterDrifts
    BY <1>26 DEF RegisterDrifts
  <1>27. CASE DeadlinePasses
    BY <1>27 DEF DeadlinePasses
  <1>28. CASE UNCHANGED vars
    BY <1>28 DEF vars
  <1> QED
    BY <1>1, <1>2, <1>3, <1>4, <1>5, <1>6, <1>7, <1>8, <1>9, <1>10, <1>11, <1>12, <1>13,
       <1>14, <1>15, <1>16, <1>17, <1>18, <1>19, <1>20, <1>21, <1>22, <1>23, <1>24, <1>25,
       <1>26, <1>27, <1>28 DEF Next, StartCall, UserStep, TickStep, EventStep

\* The accounts of completed calls stay balanced.
LEMMA AccountsStep ==
    ASSUME IndInv, [Next]_vars, ~strayed'
    PROVE  Accounts'
  <1> USE UnitAssumption DEF IndInv, TypeOK, Operation, UserOwnsFreeUnit, TickOnCurrent, EventOnCurrent, HandlerFits, Accounts, Preparing, Busy, Serials, NoOp, AtDeadlineTest,
          unit, user, tick, event, link, history
  <1>1. ASSUME NEW c \in Calls, NEW v \in Values, NEW t \in Timeouts, Begin(c, v, t)
        PROVE  Accounts'
    BY <1>1 DEF Begin, Accept
  <1>2. ASSUME NEW v \in Values, NEW t \in Timeouts, "write_async_unchecked" \in Calls,
               StoreUnchecked(v, t)
        PROVE  Accounts'
    BY <1>2 DEF StoreUnchecked
  <1>3. CASE CheckUnchecked
    BY <1>3 DEF CheckUnchecked, Accept
  <1>4. CASE SetTimeout
    BY <1>4 DEF SetTimeout
  <1>5. CASE SetCallback
    BY <1>5 DEF SetCallback
  <1>6. CASE Publish
    BY <1>6 DEF Publish
  <1>7. CASE TickLoad
    BY <1>7 DEF TickLoad
  <1>8. CASE TickTakeCallback
    BY <1>8 DEF TickTakeCallback
  <1>9. CASE TickRetire
    BY <1>9 DEF TickRetire
  <1>10. CASE TickReportSuccess
    BY <1>10 DEF TickReportSuccess, Complete
  <1>11. CASE TickLeave
    BY <1>11 DEF TickLeave
  <1>12. CASE TickArm
    BY <1>12 DEF TickArm
  <1>13. CASE TickTakeExpired
    BY <1>13 DEF TickTakeExpired
  <1>14. CASE TickAbort
    BY <1>14 DEF TickAbort
  <1>15. CASE TickReportFailure
    BY <1>15 DEF TickReportFailure, Complete
  <1>16. CASE TickPoll
    BY <1>16 DEF TickPoll, Request
  <1>17. CASE TickWrite
    BY <1>17 DEF TickWrite
  <1>18. CASE TickSend
    BY <1>18 DEF TickSend, Request
  <1>19. CASE EventLoad
    BY <1>19 DEF EventLoad, Handling, Done
  <1>20. CASE EventValue
    BY <1>20 DEF EventValue
  <1>21. CASE EventCompare
    BY <1>21 DEF EventCompare
  <1>22. CASE EventStore
    BY <1>22 DEF EventStore, Done
  <1>23. CASE DeviceRead
    BY <1>23 DEF DeviceRead, Answer
  <1>24. CASE DeviceWrite
    BY <1>24 DEF DeviceWrite, Answer
  <1>25. CASE DeviceRefuse
    BY <1>25 DEF DeviceRefuse
  <1>26. CASE RegisterDrifts
    BY <1>26 DEF RegisterDrifts
  <1>27. CASE DeadlinePasses
    BY <1>27 DEF DeadlinePasses
  <1>28. CASE UNCHANGED vars
    BY <1>28 DEF vars
  <1> QED
    BY <1>1, <1>2, <1>3, <1>4, <1>5, <1>6, <1>7, <1>8, <1>9, <1>10, <1>11, <1>12, <1>13,
       <1>14, <1>15, <1>16, <1>17, <1>18, <1>19, <1>20, <1>21, <1>22, <1>23, <1>24, <1>25,
       <1>26, <1>27, <1>28 DEF Next, StartCall, UserStep, TickStep, EventStep

\* A read that succeeded keeps its value until it is retired.
LEMMA ReadStoredStep ==
    ASSUME IndInv, [Next]_vars, ~strayed'
    PROVE  ReadStored'
  <1> USE UnitAssumption DEF IndInv, TypeOK, Operation, UserOwnsFreeUnit, TickOnCurrent, EventOnCurrent, HandlerFits, Fits, ReadUnit, IsWrite, ReadStored, Preparing, Busy, InFlight, NoOp,
          unit, user, tick, event, link, history
  <1>1. ASSUME NEW c \in Calls, NEW v \in Values, NEW t \in Timeouts, Begin(c, v, t)
        PROVE  ReadStored'
    BY <1>1 DEF Begin, Accept
  <1>2. ASSUME NEW v \in Values, NEW t \in Timeouts, "write_async_unchecked" \in Calls,
               StoreUnchecked(v, t)
        PROVE  ReadStored'
    BY <1>2 DEF StoreUnchecked
  <1>3. CASE CheckUnchecked
    BY <1>3 DEF CheckUnchecked, Accept
  <1>4. CASE SetTimeout
    BY <1>4 DEF SetTimeout
  <1>5. CASE SetCallback
    BY <1>5 DEF SetCallback
  <1>6. CASE Publish
    BY <1>6 DEF Publish
  <1>7. CASE TickLoad
    BY <1>7 DEF TickLoad
  <1>8. CASE TickTakeCallback
    BY <1>8 DEF TickTakeCallback
  <1>9. CASE TickRetire
    BY <1>9 DEF TickRetire
  <1>10. CASE TickReportSuccess
    BY <1>10 DEF TickReportSuccess, Complete
  <1>11. CASE TickLeave
    BY <1>11 DEF TickLeave
  <1>12. CASE TickArm
    BY <1>12 DEF TickArm
  <1>13. CASE TickTakeExpired
    BY <1>13 DEF TickTakeExpired
  <1>14. CASE TickAbort
    BY <1>14 DEF TickAbort
  <1>15. CASE TickReportFailure
    BY <1>15 DEF TickReportFailure, Complete
  <1>16. CASE TickPoll
    BY <1>16 DEF TickPoll, Request
  <1>17. CASE TickWrite
    BY <1>17 DEF TickWrite
  <1>18. CASE TickSend
    BY <1>18 DEF TickSend, Request
  <1>19. CASE EventLoad
    BY <1>19 DEF EventLoad, Handling, Done
  <1>20. CASE EventValue
    BY <1>20 DEF EventValue
  <1>21. CASE EventCompare
    BY <1>21 DEF EventCompare
  <1>22. CASE EventStore
    BY <1>22 DEF EventStore, Done
  <1>23. CASE DeviceRead
    BY <1>23 DEF DeviceRead, Answer
  <1>24. CASE DeviceWrite
    BY <1>24 DEF DeviceWrite, Answer
  <1>25. CASE DeviceRefuse
    BY <1>25 DEF DeviceRefuse
  <1>26. CASE RegisterDrifts
    BY <1>26 DEF RegisterDrifts
  <1>27. CASE DeadlinePasses
    BY <1>27 DEF DeadlinePasses
  <1>28. CASE UNCHANGED vars
    BY <1>28 DEF vars
  <1> QED
    BY <1>1, <1>2, <1>3, <1>4, <1>5, <1>6, <1>7, <1>8, <1>9, <1>10, <1>11, <1>12, <1>13,
       <1>14, <1>15, <1>16, <1>17, <1>18, <1>19, <1>20, <1>21, <1>22, <1>23, <1>24, <1>25,
       <1>26, <1>27, <1>28 DEF Next, StartCall, UserStep, TickStep, EventStep

\* The initial state satisfies the inductive invariant.
LEMMA InitIndInv == Init => IndInv
  <1> SUFFICES ASSUME Init
               PROVE  IndInv
    OBVIOUS
  <1> USE UnitAssumption DEF Init
  <1>1. TypeOK
    BY InitTypes
  <1>2. Fits(op) /\ Fits(seen) /\ Fits(eop) /\ HandlerFits /\ MaskedIdle
    BY DEF Fits, HandlerFits, MaskedIdle, NoOp
  <1>3. UserOwnsFreeUnit /\ TickOnCurrent /\ EventOnCurrent /\ ReadStored
    BY DEF UserOwnsFreeUnit, TickOnCurrent, EventOnCurrent, ReadStored, Preparing, NoOp
  <1>4. Accounts
    BY DEF Accounts, Preparing, Busy, Serials, NoOp
  <1> QED
    BY <1>1, <1>2, <1>3, <1>4 DEF IndInv

\* Every step preserves the inductive invariant.
LEMMA IndInvStep ==
    ASSUME IndInv, [Next]_vars
    PROVE  IndInv'
  <1>1. TypeOK'
    BY TypeStep DEF IndInv
  <1>2. (Fits(op) /\ Fits(seen) /\ Fits(eop) /\ HandlerFits)'
    BY FitsStep
  <1>3. MaskedIdle'
    BY MaskedStep
  <1>4. (upc # "idle" => call.name \in Calls)'
    BY CallStep
  <1>5. ASSUME ~strayed'
        PROVE  (UserOwnsFreeUnit /\ TickOnCurrent /\ EventOnCurrent /\ Accounts /\ ReadStored)'
    BY <1>5, UserStepKeeps, TickStepKeeps, EventStepKeeps, AccountsStep, ReadStoredStep
  <1> QED
    BY <1>1, <1>2, <1>3, <1>4, <1>5 DEF IndInv

\* The inductive invariant holds in every reachable state.
THEOREM Invariance == Spec => []IndInv
  BY InitIndInv, IndInvStep, PTL DEF Spec

\* No call is completed twice as long as no visit strayed.
THEOREM OnceOnly == Spec => []CompletedOnce
  <1>1. IndInv => CompletedOnce
    BY DEF IndInv, Accounts, CompletedOnce
  <1> QED
    BY <1>1, Invariance, PTL

\* The store that retires a success overwrites nothing but that success.
THEOREM RetireSafe == Spec => []RetireLosesNothing
  <1>1. IndInv => RetireLosesNothing
    <2> SUFFICES ASSUME IndInv, ~strayed, ~Masked, tpc \in {"succeeded", "retire"}
                 PROVE  op = seen
      BY DEF RetireLosesNothing
    <2>1. op \in Operation /\ seen \in Operation
      BY DEF IndInv, TypeOK
    <2>2. op.mode = seen.mode /\ op.state = seen.state
      BY DEF IndInv, TickOnCurrent
    <2> QED
      BY <2>1, <2>2 DEF Operation
  <1> QED
    BY <1>1, Invariance, PTL

\* A read is retired with the value and the version of the reply it was given.
THEOREM ReadSafe == Spec => []ReadDelivers
  <1>1. IndInv => ReadDelivers
    BY DEF IndInv, TickOnCurrent, ReadStored, ReadDelivers, Busy
  <1> QED
    BY <1>1, Invariance, PTL

\* A masked unit never sends anything.
THEOREM MaskedSafe == Spec => []MaskedSilent
  <1>1. IndInv => MaskedSilent
    BY DEF IndInv, MaskedIdle, MaskedSilent
  <1> QED
    BY <1>1, Invariance, PTL


\* With timeouts that overflow only, no call is ever reported as failed and every
\* call is completed at most once, whatever the threads do.
THEOREM PatientSafe ==
    ASSUME Timeouts \subseteq {"overflow"}
    PROVE  Spec => [](NeverExpires /\ ~strayed /\ \A n \in Serials : completions[n] =< 1)
  <1> USE DEF Patient, Preparing, Busy, unit, user, tick, event, link, history
  <1>1. Init => Patient
    BY DEF Init, NoOp
  <1>2. ASSUME IndInv, Patient, [Next]_vars
        PROVE  Patient'
    <2> USE <1>2 DEF IndInv, TypeOK, Operation, UserOwnsFreeUnit, HandlerFits, NoOp
    <2>1. CASE StartCall
      BY <2>1 DEF StartCall, Begin, StoreUnchecked, Accept
    <2>2. CASE UserStep
      BY <2>2 DEF UserStep, CheckUnchecked, SetTimeout, SetCallback, Publish, Accept
    <2>3. CASE TickArm
      BY <2>3 DEF TickArm, Armed, TickOnCurrent
    <2>4. CASE TickTakeExpired
      BY <2>4 DEF TickTakeExpired, Passed
    <2>5. CASE TickStep /\ ~TickArm /\ ~TickTakeExpired
      BY <2>5 DEF TickStep, TickLoad, TickTakeCallback, TickRetire, TickReportSuccess, TickLeave,
         TickAbort, TickReportFailure, TickPoll, TickWrite, TickSend
    <2>6. CASE EventStep
      BY <2>6 DEF EventStep, EventLoad, EventValue, EventCompare, EventStore, Done
    <2>7. CASE DeviceRead \/ DeviceWrite \/ DeviceRefuse \/ RegisterDrifts \/ DeadlinePasses
      BY <2>7 DEF DeviceRead, DeviceWrite, Answer, DeviceRefuse, RegisterDrifts, DeadlinePasses
    <2>8. CASE UNCHANGED vars
      BY <2>8 DEF vars
    <2> QED
      BY <2>1, <2>2, <2>3, <2>4, <2>5, <2>6, <2>7, <2>8 DEF Next
  <1>3. IndInv /\ Patient => NeverExpires /\ ~strayed /\ \A n \in Serials : completions[n] =< 1
    BY DEF NeverExpires, IndInv, Accounts
  <1> QED
    BY <1>1, <1>2, <1>3, Invariance, PTL DEF Spec


\* A channel of at most one message.
LEMMA OneMessage ==
    ASSUME NEW m \in Messages
    PROVE  /\ Append(<<>>, m) = <<m>> /\ Head(<<m>>) = m /\ Tail(<<m>>) = <<>>
           /\ <<m>> # <<>> /\ Len(<<m>>) = 1
  OBVIOUS

\* A visit that strayed stays so.
LEMMA NotStrayed ==
    ASSUME TypeOK, [Next]_vars, ~strayed'
    PROVE  ~strayed
  <1> USE DEF TypeOK, unit, user, tick, event, link, history
  <1>1. CASE StartCall
    BY <1>1 DEF StartCall, Begin, StoreUnchecked
  <1>2. CASE UserStep
    BY <1>2 DEF UserStep, CheckUnchecked, SetTimeout, SetCallback, Publish
  <1>3. CASE TickStep
    BY <1>3 DEF TickStep, TickLoad, TickTakeCallback, TickRetire, TickReportSuccess, TickLeave,
       TickArm, TickTakeExpired, TickAbort, TickReportFailure, TickPoll, TickWrite, TickSend
  <1>4. CASE EventStep
    BY <1>4 DEF EventStep, EventLoad, EventValue, EventCompare, EventStore
  <1>5. CASE DeviceRead \/ DeviceWrite \/ DeviceRefuse \/ RegisterDrifts \/ DeadlinePasses
    BY <1>5 DEF DeviceRead, DeviceWrite, Answer, DeviceRefuse, RegisterDrifts, DeadlinePasses
  <1>6. CASE UNCHANGED vars
    BY <1>6 DEF vars
  <1> QED
    BY <1>1, <1>2, <1>3, <1>4, <1>5, <1>6 DEF Next

\* Under the window of one, the link never holds more than a message of the call under way.
LEMMA LoneMessageStep ==
    ASSUME IndInv, PromptInv, [Next]_vars, Window = 1, ~strayed', ~Masked
    PROVE  LoneMessage'
  <1> USE UnitAssumption, OneMessage DEF IndInv, TypeOK, Operation, UserOwnsFreeUnit, TickOnCurrent, EventOnCurrent,
          HandlerFits, Preparing, Busy, InFlight, NoOp, AtDeadlineTest, Current, LoneMessage, AnswerInHand,
          unit, user, tick, event, link, history
  <1>0. LoneMessage /\ AnswerInHand /\ SuccessEarned /\ ~strayed
    BY NotStrayed DEF PromptInv
  <1>1. ASSUME NEW c \in Calls, NEW v \in Values, NEW t \in Timeouts, Begin(c, v, t)
        PROVE  LoneMessage'
    BY <1>0, <1>1 DEF Begin, Accept
  <1>2. ASSUME NEW v \in Values, NEW t \in Timeouts, "write_async_unchecked" \in Calls,
               StoreUnchecked(v, t)
        PROVE  LoneMessage'
    BY <1>0, <1>2 DEF StoreUnchecked
  <1>3. CASE CheckUnchecked
    BY <1>0, <1>3 DEF CheckUnchecked, Accept
  <1>4. CASE SetTimeout
    BY <1>0, <1>4 DEF SetTimeout
  <1>5. CASE SetCallback
    BY <1>0, <1>5 DEF SetCallback
  <1>6. CASE Publish
    BY <1>0, <1>6 DEF Publish
  <1>7. CASE TickLoad
    BY <1>0, <1>7 DEF TickLoad
  <1>8. CASE TickTakeCallback
    BY <1>0, <1>8 DEF TickTakeCallback
  <1>9. CASE TickRetire
    BY <1>0, <1>9 DEF TickRetire
  <1>10. CASE TickReportSuccess
    BY <1>0, <1>10 DEF TickReportSuccess, Complete
  <1>11. CASE TickLeave
    BY <1>0, <1>11 DEF TickLeave
  <1>12. CASE TickArm
    BY <1>0, <1>12 DEF TickArm
  <1>13. CASE TickTakeExpired
    BY <1>0, <1>13 DEF TickTakeExpired
  <1>14. CASE TickAbort
    BY <1>0, <1>14 DEF TickAbort
  <1>15. CASE TickReportFailure
    BY <1>0, <1>15 DEF TickReportFailure, Complete
  <1>16. CASE TickPoll
    <2>1. requests = <<>> /\ replies = <<>>
      BY <1>0, <1>16 DEF TickPoll
    <2>2. PICK m \in Messages : m = [kind |-> "read", val |-> value, by |-> serial]
      BY DEF Messages
    <2>3. requests' = <<m>> /\ replies' = <<>>
      <3>1. requests' = Append(requests, m) /\ replies' = replies
        BY <2>2, <1>16 DEF TickPoll, Request
      <3> QED
        BY <2>1, <3>1, OneMessage
    <2>4. m.by = serial /\ m.kind # "write"
      BY <2>2
    <2>5. tpc' = "idle" /\ Busy' /\ op'.state # "WAITING" /\ serial' = serial
      BY <1>0, <1>16 DEF TickPoll
    <2> QED
      BY <2>3, <2>4, <2>5 DEF LoneMessage
  <1>17. CASE TickWrite
    BY <1>0, <1>17 DEF TickWrite
  <1>18. CASE TickSend
    <2>1. requests = <<>> /\ replies = <<>>
      BY <1>0, <1>18 DEF TickSend
    <2>2. PICK m \in Messages : m = [kind |-> "write", val |-> value, by |-> serial]
      BY DEF Messages
    <2>3. requests' = <<m>> /\ replies' = <<>>
      <3>1. requests' = Append(requests, m) /\ replies' = replies
        BY <2>2, <1>18 DEF TickSend, Request
      <3> QED
        BY <2>1, <3>1, OneMessage
    <2>4. m.by = serial
      BY <2>2
    <2>5. /\ tpc' = "idle" /\ Busy' /\ serial' = serial
          /\ epc' = "idle" /\ op'.state = "WRITING_CONFIRMING"
      BY <1>0, <1>18 DEF TickSend
    <2> QED
      BY <2>3, <2>4, <2>5 DEF LoneMessage
  <1>19. CASE EventLoad
    BY <1>0, <1>19 DEF EventLoad, Handling, Done
  <1>20. CASE EventValue
    BY <1>0, <1>20 DEF EventValue
  <1>21. CASE EventCompare
    BY <1>0, <1>21 DEF EventCompare
  <1>22. CASE EventStore
    BY <1>0, <1>22 DEF EventStore, Done
  <1>23. CASE DeviceRead
    <2>1. PICK m \in Messages :
              /\ requests = <<m>> /\ replies = <<>>
              /\ tpc = "idle" /\ Busy /\ op.state # "WAITING" /\ m.by = serial
              /\ m.kind = "write" => epc = "idle" /\ op.state = "WRITING_CONFIRMING"
      BY <1>0, <1>23 DEF DeviceRead
    <2>2. PICK a \in Messages : a = [m EXCEPT !.val = register]
      BY DEF Messages
    <2>3. a.kind = m.kind /\ a.by = m.by /\ a.val = register
      BY <2>2 DEF Messages
    <2>4. /\ requests' = <<>> /\ replies' = <<a>> /\ register' = register
          /\ UNCHANGED <<unit, user, tick, event>>
      BY <2>1, <2>2, OneMessage, <1>23 DEF DeviceRead, Answer
    <2>5. \/ requests' = <<a>> /\ replies' = <<>>
          \/ requests' = <<>> /\ replies' = <<a>> /\ (a.kind = "read" => Current(a)')
      BY <2>3, <2>4
    <2> QED
      BY <2>1, <2>3, <2>4, <2>5 DEF LoneMessage
  <1>24. CASE DeviceWrite
    <2>1. PICK m \in Messages :
              /\ requests = <<m>> /\ replies = <<>>
              /\ tpc = "idle" /\ Busy /\ op.state # "WAITING" /\ m.by = serial
              /\ m.kind = "write" => epc = "idle" /\ op.state = "WRITING_CONFIRMING"
      BY <1>0, <1>24 DEF DeviceWrite
    <2>2. PICK a \in Messages : a = [m EXCEPT !.val = m.val]
      BY DEF Messages
    <2>3. a.kind = m.kind /\ a.by = m.by /\ a.val = m.val
      BY <2>2 DEF Messages
    <2>4. /\ requests' = <<>> /\ replies' = <<a>> /\ register' = m.val
          /\ UNCHANGED <<unit, user, tick, event>>
      BY <2>1, <2>2, OneMessage, <1>24 DEF DeviceWrite, Answer
    <2>5. \/ requests' = <<a>> /\ replies' = <<>>
          \/ requests' = <<>> /\ replies' = <<a>> /\ (a.kind = "read" => Current(a)')
      BY <2>3, <2>4
    <2> QED
      BY <2>1, <2>3, <2>4, <2>5 DEF LoneMessage
  <1>25. CASE DeviceRefuse
    BY <1>0, <1>25 DEF DeviceRefuse
  <1>26. CASE RegisterDrifts
    BY <1>0, <1>26 DEF RegisterDrifts
  <1>27. CASE DeadlinePasses
    BY <1>0, <1>27 DEF DeadlinePasses
  <1>28. CASE UNCHANGED vars
    BY <1>0, <1>28 DEF vars
  <1> QED
    BY <1>1, <1>2, <1>3, <1>4, <1>5, <1>6, <1>7, <1>8, <1>9, <1>10, <1>11, <1>12,
       <1>13, <1>14, <1>15, <1>16, <1>17, <1>18, <1>19, <1>20, <1>21, <1>22, <1>23, <1>24,
       <1>25, <1>26, <1>27, <1>28 DEF Next, StartCall, UserStep, TickStep, EventStep

\* The event thread never holds the answer to a call that is over.
LEMMA AnswerInHandStep ==
    ASSUME IndInv, PromptInv, [Next]_vars, Window = 1, ~strayed', ~Masked
    PROVE  AnswerInHand'
  <1> USE UnitAssumption, OneMessage DEF IndInv, TypeOK, Operation, UserOwnsFreeUnit, TickOnCurrent, EventOnCurrent,
          HandlerFits, Preparing, Busy, InFlight, NoOp, AtDeadlineTest, Current, LoneMessage, AnswerInHand,
          unit, user, tick, event, link, history
  <1>0. LoneMessage /\ AnswerInHand /\ SuccessEarned /\ ~strayed
    BY NotStrayed DEF PromptInv
  <1>1. ASSUME NEW c \in Calls, NEW v \in Values, NEW t \in Timeouts, Begin(c, v, t)
        PROVE  AnswerInHand'
    BY <1>0, <1>1 DEF Begin, Accept
  <1>2. ASSUME NEW v \in Values, NEW t \in Timeouts, "write_async_unchecked" \in Calls,
               StoreUnchecked(v, t)
        PROVE  AnswerInHand'
    BY <1>0, <1>2 DEF StoreUnchecked
  <1>3. CASE CheckUnchecked
    BY <1>0, <1>3 DEF CheckUnchecked, Accept
  <1>4. CASE SetTimeout
    BY <1>0, <1>4 DEF SetTimeout
  <1>5. CASE SetCallback
    BY <1>0, <1>5 DEF SetCallback
  <1>6. CASE Publish
    BY <1>0, <1>6 DEF Publish
  <1>7. CASE TickLoad
    BY <1>0, <1>7 DEF TickLoad
  <1>8. CASE TickTakeCallback
    BY <1>0, <1>8 DEF TickTakeCallback
  <1>9. CASE TickRetire
    BY <1>0, <1>9 DEF TickRetire
  <1>10. CASE TickReportSuccess
    BY <1>0, <1>10 DEF TickReportSuccess, Complete
  <1>11. CASE TickLeave
    BY <1>0, <1>11 DEF TickLeave
  <1>12. CASE TickArm
    BY <1>0, <1>12 DEF TickArm
  <1>13. CASE TickTakeExpired
    BY <1>0, <1>13 DEF TickTakeExpired
  <1>14. CASE TickAbort
    BY <1>0, <1>14 DEF TickAbort
  <1>15. CASE TickReportFailure
    BY <1>0, <1>15 DEF TickReportFailure, Complete
  <1>16. CASE TickPoll
    BY <1>0, <1>16 DEF TickPoll, Request
  <1>17. CASE TickWrite
    BY <1>0, <1>17 DEF TickWrite
  <1>18. CASE TickSend
    BY <1>0, <1>18 DEF TickSend, Request
  <1>19. CASE EventLoad
    BY <1>0, <1>19 DEF EventLoad, Handling, Done
  <1>20. CASE EventValue
    BY <1>0, <1>20 DEF EventValue
  <1>21. CASE EventCompare
    BY <1>0, <1>21 DEF EventCompare
  <1>22. CASE EventStore
    BY <1>0, <1>22 DEF EventStore, Done
  <1>23. CASE DeviceRead
    BY <1>0, <1>23 DEF DeviceRead, Answer
  <1>24. CASE DeviceWrite
    BY <1>0, <1>24 DEF DeviceWrite, Answer
  <1>25. CASE DeviceRefuse
    BY <1>0, <1>25 DEF DeviceRefuse
  <1>26. CASE RegisterDrifts
    BY <1>0, <1>26 DEF RegisterDrifts
  <1>27. CASE DeadlinePasses
    BY <1>0, <1>27 DEF DeadlinePasses
  <1>28. CASE UNCHANGED vars
    BY <1>0, <1>28 DEF vars
  <1> QED
    BY <1>1, <1>2, <1>3, <1>4, <1>5, <1>6, <1>7, <1>8, <1>9, <1>10, <1>11, <1>12,
       <1>13, <1>14, <1>15, <1>16, <1>17, <1>18, <1>19, <1>20, <1>21, <1>22, <1>23, <1>24,
       <1>25, <1>26, <1>27, <1>28 DEF Next, StartCall, UserStep, TickStep, EventStep

\* A success is never stored without an answer to the call.
LEMMA SuccessEarnedStep ==
    ASSUME IndInv, PromptInv, [Next]_vars, Window = 1, ~strayed', ~Masked
    PROVE  SuccessEarned'
  <1> USE UnitAssumption, OneMessage DEF IndInv, TypeOK, Operation, UserOwnsFreeUnit, TickOnCurrent, EventOnCurrent,
          HandlerFits, Preparing, Busy, InFlight, NoOp, AtDeadlineTest, Current, LoneMessage, AnswerInHand, SuccessEarned, Fits, ReadUnit, IsWrite,
          unit, user, tick, event, link, history
  <1>0. LoneMessage /\ AnswerInHand /\ SuccessEarned /\ ~strayed
    BY NotStrayed DEF PromptInv
  <1>1. ASSUME NEW c \in Calls, NEW v \in Values, NEW t \in Timeouts, Begin(c, v, t)
        PROVE  SuccessEarned'
    BY <1>0, <1>1 DEF Begin, Accept
  <1>2. ASSUME NEW v \in Values, NEW t \in Timeouts, "write_async_unchecked" \in Calls,
               StoreUnchecked(v, t)
        PROVE  SuccessEarned'
    BY <1>0, <1>2 DEF StoreUnchecked
  <1>3. CASE CheckUnchecked
    BY <1>0, <1>3 DEF CheckUnchecked, Accept
  <1>4. CASE SetTimeout
    BY <1>0, <1>4 DEF SetTimeout
  <1>5. CASE SetCallback
    BY <1>0, <1>5 DEF SetCallback
  <1>6. CASE Publish
    BY <1>0, <1>6 DEF Publish
  <1>7. CASE TickLoad
    BY <1>0, <1>7 DEF TickLoad
  <1>8. CASE TickTakeCallback
    BY <1>0, <1>8 DEF TickTakeCallback
  <1>9. CASE TickRetire
    BY <1>0, <1>9 DEF TickRetire
  <1>10. CASE TickReportSuccess
    BY <1>0, <1>10 DEF TickReportSuccess, Complete
  <1>11. CASE TickLeave
    BY <1>0, <1>11 DEF TickLeave
  <1>12. CASE TickArm
    BY <1>0, <1>12 DEF TickArm
  <1>13. CASE TickTakeExpired
    BY <1>0, <1>13 DEF TickTakeExpired
  <1>14. CASE TickAbort
    BY <1>0, <1>14 DEF TickAbort
  <1>15. CASE TickReportFailure
    BY <1>0, <1>15 DEF TickReportFailure, Complete
  <1>16. CASE TickPoll
    BY <1>0, <1>16 DEF TickPoll, Request
  <1>17. CASE TickWrite
    BY <1>0, <1>17 DEF TickWrite
  <1>18. CASE TickSend
    BY <1>0, <1>18 DEF TickSend, Request
  <1>19. CASE EventLoad
    BY <1>0, <1>19 DEF EventLoad, Handling, Done
  <1>20. CASE EventValue
    BY <1>0, <1>20 DEF EventValue
  <1>21. CASE EventCompare
    BY <1>0, <1>21 DEF EventCompare
  <1>22. CASE EventStore
    BY <1>0, <1>22 DEF EventStore, Done
  <1>23. CASE DeviceRead
    BY <1>0, <1>23 DEF DeviceRead, Answer
  <1>24. CASE DeviceWrite
    BY <1>0, <1>24 DEF DeviceWrite, Answer
  <1>25. CASE DeviceRefuse
    BY <1>0, <1>25 DEF DeviceRefuse
  <1>26. CASE RegisterDrifts
    BY <1>0, <1>26 DEF RegisterDrifts
  <1>27. CASE DeadlinePasses
    BY <1>0, <1>27 DEF DeadlinePasses
  <1>28. CASE UNCHANGED vars
    BY <1>0, <1>28 DEF vars
  <1> QED
    BY <1>1, <1>2, <1>3, <1>4, <1>5, <1>6, <1>7, <1>8, <1>9, <1>10, <1>11, <1>12,
       <1>13, <1>14, <1>15, <1>16, <1>17, <1>18, <1>19, <1>20, <1>21, <1>22, <1>23, <1>24,
       <1>25, <1>26, <1>27, <1>28 DEF Next, StartCall, UserStep, TickStep, EventStep

\* Every step preserves the invariant of the window of one.
LEMMA PromptStep ==
    ASSUME IndInv, PromptInv, [Next]_vars, Window = 1
    PROVE  PromptInv'
  <1> SUFFICES ASSUME ~strayed', ~Masked
               PROVE  (LoneMessage /\ AnswerInHand /\ SuccessEarned)'
    BY DEF PromptInv
  <1> QED
    BY LoneMessageStep, AnswerInHandStep, SuccessEarnedStep

\* When the device answers between two visits, the invariant of the window of one holds in
\* every reachable state.
THEOREM PromptInvariance ==
    ASSUME Window = 1
    PROVE  Spec => []PromptInv
  <1>1. Init => PromptInv
    BY DEF Init, PromptInv, LoneMessage, AnswerInHand, SuccessEarned, Busy, NoOp
  <1>2. IndInv /\ PromptInv /\ [Next]_vars => PromptInv'
    BY PromptStep
  <1> QED
    BY <1>1, <1>2, Invariance, PTL DEF Spec

\* When the device answers between two visits, a call is retired by the answer to a
\* request of its own.
THEOREM OwnReplySafe ==
    ASSUME Window = 1
    PROVE  Spec => []OwnReply
  <1>1. IndInv /\ PromptInv => OwnReply
    BY DEF IndInv, TickOnCurrent, PromptInv, SuccessEarned, OwnReply
  <1> QED
    BY <1>1, Invariance, PromptInvariance, PTL

\* When the device answers between two visits and the register does not change by itself,
\* a write is reported as done only if the register did hold its value.
THEOREM WriteSafe ==
    ASSUME Window = 1, ~Drifts
    PROVE  Spec => []HonestWrite
  <1>1. IndInv /\ PromptInv => HonestWrite
    BY DEF IndInv, TickOnCurrent, PromptInv, SuccessEarned, HonestWrite
  <1> QED
    BY <1>1, Invariance, PromptInvariance, PTL

--------------------------------------------------------------------------------
\* The refinement of the contract.  The queue of open calls has two halves: the call that
\* the tick thread is about to tell, and the call in the slot.

BeingTold == tpc \in {"report", "expire"} /\ tcb # 0
InSlot == Busy /\ callback # 0

\* A step that leaves both halves alone leaves the queue alone.
LEMMA OpenKept ==
    ASSUME BeingTold' <=> BeingTold, InSlot' <=> InSlot,
           BeingTold => tcb' = tcb, InSlot => callback' = callback
    PROVE  Open' = Open
  <1>1. (IF BeingTold' THEN <<tcb'>> ELSE <<>>) = (IF BeingTold THEN <<tcb>> ELSE <<>>)
    OBVIOUS
  <1>2. (IF InSlot' THEN <<callback'>> ELSE <<>>) = (IF InSlot THEN <<callback>> ELSE <<>>)
    OBVIOUS
  <1> QED
    BY <1>1, <1>2 DEF Open, BeingTold, InSlot

\* The queue of open calls in each of its four shapes.
LEMMA OpenShapes ==
    ASSUME TypeOK
    PROVE  /\ BeingTold /\ InSlot => Open = Append(<<tcb>>, callback)
           /\ BeingTold /\ ~InSlot => Open = <<tcb>>
           /\ ~BeingTold /\ InSlot => Open = <<callback>>
           /\ ~BeingTold /\ ~InSlot => Open = <<>>
  <1>1. CASE BeingTold /\ InSlot
    <2>1. Open = <<tcb>> \o <<callback>>
      BY <1>1 DEF Open, BeingTold, InSlot
    <2>2. tcb \in 0..MaxCalls /\ callback \in 0..MaxCalls
      BY DEF TypeOK
    <2> QED
      BY <1>1, <2>1, <2>2
  <1>2. CASE BeingTold /\ ~InSlot
    <2>1. Open = <<tcb>> \o <<>>
      BY <1>2 DEF Open, BeingTold, InSlot
    <2> QED
      BY <1>2, <2>1
  <1>3. CASE ~BeingTold /\ InSlot
    <2>1. Open = <<>> \o <<callback>>
      BY <1>3 DEF Open, BeingTold, InSlot
    <2> QED
      BY <1>3, <2>1
  <1>4. CASE ~BeingTold /\ ~InSlot
    <2>1. Open = <<>> \o <<>>
      BY <1>4 DEF Open, BeingTold, InSlot
    <2> QED
      BY <1>4, <2>1
  <1> QED
    BY <1>1, <1>2, <1>3, <1>4

\* The user thread publishes a call with a callback, or one that nobody is told of.
LEMMA PublishOpens ==
    ASSUME IndInv, IndInv', ~strayed, Publish
    PROVE  (\E n \in Serials : Contract!Publish(n)) \/ UNCHANGED Contract!vars
  <1>1. /\ ~InSlot /\ (BeingTold' <=> BeingTold) /\ tcb' = tcb /\ callback' = callback
        /\ op'.mode # "NONE"
        /\ callback \in {0, serial} /\ serial \in Serials /\ completions[serial] = 0
        /\ BeingTold => tcb # serial
        /\ UNCHANGED <<completions, expired, strayed>>
    <2>1. op'.mode \in {"READ", "WRITE"}
      BY DEF Publish
    <2> QED
      BY <2>1 DEF IndInv, TypeOK, UserOwnsFreeUnit, Accounts, Publish, Preparing, BeingTold,
                  InSlot, Busy, Serials, tick
  <1>2. CASE callback = 0
    <2>1. InSlot' <=> InSlot
      BY <1>1, <1>2 DEF InSlot
    <2> QED
      BY <1>1, <2>1, OpenKept DEF Contract!vars
  <1>3. CASE callback = serial
    <2>1. serial # 0 /\ InSlot' /\ callback' = serial
      BY <1>1, <1>3 DEF InSlot, Busy, Serials
    <2>2. CASE BeingTold
      <3>1. Open = <<tcb>>
        BY <1>1, <2>2, OpenShapes DEF IndInv
      <3>2. Open' = Append(<<tcb>>, serial)
        <4>1. tcb \in 0..MaxCalls /\ serial \in 0..MaxCalls
          BY DEF IndInv, TypeOK
        <4>2. Open' = <<tcb>> \o <<serial>>
          BY <1>1, <2>1, <2>2 DEF Open, BeingTold, InSlot
        <4> QED
          BY <4>1, <4>2
      <3>3. Contract!Publish(serial)
        BY <1>1, <2>2, <3>1, <3>2 DEF Contract!Publish
      <3> QED
        BY <1>1, <3>3
    <2>3. CASE ~BeingTold
      <3>1. Open = <<>>
        BY <1>1, <2>3, OpenShapes DEF IndInv
      <3>2. Open' = <<serial>>
        <4>1. Open' = <<>> \o <<callback'>>
          BY <1>1, <2>1, <2>3 DEF Open, BeingTold, InSlot
        <4> QED
          BY <1>1, <2>1, <4>1
      <3>3. Contract!Publish(serial)
        BY <1>1, <3>1, <3>2 DEF Contract!Publish
      <3> QED
        BY <1>1, <3>3
    <2> QED
      BY <2>2, <2>3
  <1> QED
    BY <1>1, <1>2, <1>3

\* A call that leaves the slot goes into the hands of the tick thread.
LEMMA TakeKeepsOpen ==
    ASSUME IndInv, ~strayed, TickRetire \/ TickAbort
    PROVE  Open' = Open
  <1>1. /\ Busy /\ tcb = callback /\ tcb' = tcb /\ callback' = callback /\ ~BeingTold
        /\ tpc' \in {"report", "expire"}
    BY DEF IndInv, TickOnCurrent, Accounts, TickRetire, TickAbort, BeingTold
  <1>2. ~Busy'
    <2>1. op'.mode = "NONE"
      BY DEF TickRetire, TickAbort, IndInv, TypeOK, NoOp, Operation
    <2> QED
      BY <2>1 DEF Busy
  <1>3. CASE callback = 0
    BY <1>1, <1>2, <1>3, OpenKept DEF BeingTold, InSlot
  <1>4. CASE callback # 0
    <2>1. Open = <<>> \o <<callback>>
      BY <1>1, <1>4 DEF Open, BeingTold
    <2>2. Open' = <<callback>> \o <<>>
      BY <1>1, <1>2, <1>4 DEF Open
    <2>3. callback \in 0..MaxCalls
      BY DEF IndInv, TypeOK
    <2> QED
      BY <2>1, <2>2, <2>3
  <1> QED
    BY <1>3, <1>4

\* The tick thread tells the oldest open call, or nobody.
LEMMA ReportTells ==
    ASSUME IndInv, ~strayed, TickReportSuccess \/ TickReportFailure
    PROVE  Contract!Tell \/ UNCHANGED Contract!vars
  <1>1. /\ tpc \in {"report", "expire"} /\ ~BeingTold' /\ Complete
        /\ UNCHANGED <<op, callback, strayed>>
    BY DEF TickReportSuccess, TickReportFailure, unit, BeingTold
  <1>2. InSlot' <=> InSlot
    BY <1>1 DEF InSlot, Busy
  <1>3. CASE tcb = 0
    <2>1. Open' = Open
      BY <1>1, <1>2, <1>3, OpenKept DEF BeingTold
    <2>2. UNCHANGED <<completions, expired>>
      BY <1>3 DEF TickReportSuccess, TickReportFailure, Complete, IndInv, TypeOK
    <2> QED
      BY <1>1, <2>1, <2>2 DEF Contract!vars
  <1>4. CASE tcb # 0
    <2> DEFINE slot == IF InSlot THEN <<callback>> ELSE <<>>
    <2>1. slot \in Seq(0..MaxCalls) /\ tcb \in 0..MaxCalls
      <3>1. callback \in 0..MaxCalls /\ tcb \in 0..MaxCalls
        BY DEF IndInv, TypeOK
      <3>2. <<callback>> \in Seq(0..MaxCalls) /\ <<>> \in Seq(0..MaxCalls)
        BY <3>1
      <3> QED
        BY <3>1, <3>2
    <2>2. Open = <<tcb>> \o slot
      BY <1>1, <1>4 DEF Open, InSlot
    <2>3. Open' = <<>> \o slot
      BY <1>1, <1>2 DEF Open, InSlot, BeingTold
    <2> HIDE DEF slot
    <2>4. Open # <<>> /\ Head(Open) = tcb /\ Open' = Tail(Open)
      BY <2>1, <2>2, <2>3
    <2>5. completions' = [completions EXCEPT ![tcb] = @ + 1]
      BY <1>1, <1>4 DEF Complete
    <2>6. CASE TickReportSuccess
      BY <1>1, <2>4, <2>5, <2>6 DEF Contract!Tell, TickReportSuccess
    <2>7. CASE TickReportFailure
      <3>1. expired' = expired \cup {tcb}
        BY <1>4, <2>7 DEF TickReportFailure
      <3> QED
        BY <1>1, <2>4, <2>5, <3>1 DEF Contract!Tell
    <2> QED
      BY <2>6, <2>7
  <1> QED
    BY <1>3, <1>4


\* Every step of the unit is a step of the contract, or none.
LEMMA ContractStep ==
    ASSUME IndInv, IndInv', [Next]_vars
    PROVE  [Contract!Next]_(Contract!vars)
  <1> SUFFICES ASSUME ~strayed'
               PROVE  [Contract!Next]_(Contract!vars)
    BY DEF Contract!Next, Contract!Astray
  <1> USE DEF IndInv, TypeOK, UserOwnsFreeUnit, TickOnCurrent, EventOnCurrent, Preparing,
              BeingTold, InSlot, Busy, unit, user, tick, event, link, history, Contract!vars
  <1>0. ~strayed => (UNCHANGED <<completions, expired, strayed>> /\ Open' = Open
                        => UNCHANGED Contract!vars)
    OBVIOUS
  <1>1. ASSUME NEW c \in Calls, NEW v \in Values, NEW t \in Timeouts, Begin(c, v, t)
        PROVE  UNCHANGED Contract!vars
    BY <1>1, OpenKept DEF Begin, Accept
  <1>2. ASSUME NEW v \in Values, NEW t \in Timeouts, StoreUnchecked(v, t)
        PROVE  UNCHANGED Contract!vars
    BY <1>2, OpenKept DEF StoreUnchecked
  <1>3. CASE CheckUnchecked
    BY <1>3, OpenKept DEF CheckUnchecked, Accept
  <1>4. CASE SetTimeout
    BY <1>4, OpenKept DEF SetTimeout
  <1>5. CASE SetCallback
    BY <1>5, OpenKept DEF SetCallback
  <1>6. CASE TickLoad
    BY <1>6, OpenKept DEF TickLoad
  <1>7. CASE TickTakeCallback
    BY <1>7, OpenKept DEF TickTakeCallback
  <1>8. CASE TickLeave
    BY <1>8, OpenKept DEF TickLeave
  <1>9. CASE TickArm
    BY <1>9, OpenKept DEF TickArm, Operation
  <1>10. CASE TickTakeExpired
    BY <1>10, OpenKept DEF TickTakeExpired, AtDeadlineTest
  <1>11. CASE TickPoll
    BY <1>11, OpenKept DEF TickPoll
  <1>12. CASE TickWrite
    BY <1>12, OpenKept DEF TickWrite, Operation
  <1>13. CASE TickSend
    BY <1>13, OpenKept DEF TickSend
  <1>14. CASE EventLoad
    BY <1>14, OpenKept DEF EventLoad
  <1>15. CASE EventValue
    BY <1>15, OpenKept DEF EventValue
  <1>16. CASE EventCompare
    BY <1>16, OpenKept DEF EventCompare
  <1>17. CASE EventStore
    BY <1>17, OpenKept DEF EventStore, HandlerFits
  <1>18. CASE DeviceRead
    BY <1>18, OpenKept DEF DeviceRead, Answer
  <1>19. CASE DeviceWrite
    BY <1>19, OpenKept DEF DeviceWrite, Answer
  <1>20. CASE DeviceRefuse
    BY <1>20, OpenKept DEF DeviceRefuse
  <1>21. CASE RegisterDrifts
    BY <1>21, OpenKept DEF RegisterDrifts
  <1>22. CASE DeadlinePasses
    BY <1>22, OpenKept DEF DeadlinePasses
  <1>23. CASE UNCHANGED vars
    BY <1>23, OpenKept DEF vars
  <1>24. CASE Publish
    <2>1. ~strayed
      BY <1>24 DEF Publish
    <2> QED
      BY <1>24, <2>1, PublishOpens DEF Contract!Next
  <1>25. CASE TickRetire \/ TickAbort
    <2>1. ~strayed /\ UNCHANGED <<completions, expired, strayed>>
      BY <1>25 DEF TickRetire, TickAbort
    <2> QED
      BY <1>25, <2>1, TakeKeepsOpen
  <1>26. CASE TickReportSuccess \/ TickReportFailure
    <2>1. ~strayed
      BY <1>26 DEF TickReportSuccess, TickReportFailure
    <2> QED
      BY <1>26, <2>1, ReportTells DEF Contract!Next
  <1> QED
    BY <1>1, <1>2, <1>3, <1>4, <1>5, <1>6, <1>7, <1>8, <1>9, <1>10, <1>11, <1>12, <1>13,
       <1>14, <1>15, <1>16, <1>17, <1>18, <1>19, <1>20, <1>21, <1>22, <1>23, <1>24, <1>25,
       <1>26
       DEF Next, StartCall, UserStep, TickStep, EventStep

\* The unit implements the contract: each call that was published with a callback is told
\* once, in the order of the calls, as long as no visit strayed.
THEOREM Implements == Spec => ContractSpec
  <1>1. Init => Contract!Init
    <2>1. Init => Open = <<>>
      BY DEF Init, Open, Busy, NoOp
    <2> QED
      BY <2>1 DEF Init, Contract!Init
  <1>2. IndInv /\ IndInv' /\ [Next]_vars => [Contract!Next]_(Contract!vars)
    BY ContractStep
  <1> QED
    BY <1>1, <1>2, Invariance, PTL DEF Spec, ContractSpec, Contract!Spec

================================================================================
