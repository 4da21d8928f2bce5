--------------------------- MODULE RealtimeLoop_proofs ---------------------------
(* Theorems about RealtimeLoop, for every number of joints, frames, sets and sessions. *)
EXTENDS RealtimeLoop, SequenceTheorems, TLAPS

--------------------------------------------------------------------------------
\* The inductive invariant, part by part.

\* Every inbox holds the last set, or the one before if the set in progress has not come
\* to it.
InboxesFilled ==
    \A j \in Joints : inbox[j] = IF upc = "set" /\ j >= uj THEN sets - 1 ELSE sets

\* What was read from the inboxes since the step began is not older than floor.
TargetsFresh ==
    /\ upc = "set" => sets > 0
    /\ rpc \in {"gather", "step", "send"} => floor =< Returned
    /\ \A j \in Joints :
           rpc = "send" \/ (rpc = "step" /\ j < rj) => targets[j] >= floor

\* Positions travel in order from the device to the step: what is further on its way is
\* not newer.
PositionsInOrder ==
    /\ \A i, k \in 1..Len(frames) : i =< k => frames[i] =< frames[k]
    /\ \A i \in 1..Len(frames) : frames[i] > 0 /\ frames[i] =< sent
    /\ epc = "store" =>
           /\ frame > 0 /\ frame =< sent
           /\ \A i \in 1..Len(frames) : frame =< frames[i]
           /\ \A j \in Joints : result[j] =< frame
    /\ \A j \in Joints :
           /\ seen[j] =< positions[j] /\ positions[j] =< result[j] /\ result[j] =< sent
           /\ \A i \in 1..Len(frames) : result[j] =< frames[i]

\* A version that is not the first one means that every joint was reported, and with
\* upstream the thread is past its first loop only then.
ReportedFirst ==
    /\ old_version =< version
    /\ \A j \in Joints :
           \/ version # 0 \/ epc = "publish" \/ (epc = "store" /\ j < ej)
           => result[j] # 0
    /\ upstream /\ rpc \in {"loop", "gather", "step", "send"} => version # 0
    /\ upstream /\ rpc = "gather" => \A j \in Joints : j < rj => positions[j] # 0

\* The inductive invariant.
IndInv ==
    /\ TypeOK /\ ThreadHasController /\ InboxesFilled /\ TargetsFresh
    /\ PositionsInOrder /\ ReportedFirst /\ NeverStepsBlind

--------------------------------------------------------------------------------
\* Which parts of the state each group of actions leaves alone.

LEMMA UserSteps ==
    ASSUME (\E up \in BOOLEAN : Attach(up)) \/ BeginSet \/ RequestStop \/ UserStep
    PROVE  UNCHANGED <<rj, old_version, positions, targets, results, event, device, history>>
  BY DEF Attach, BeginSet, RequestStop, UserStep, SetUnit, JoinAndRelease, thread

LEMMA ThreadSteps ==
    ASSUME ThreadStep
    PROVE  UNCHANGED <<control, user, inbox, results, event, frames, sent>>
  BY DEF ThreadStep, Setup, AskFirst, Await, Loop, Gather, Step, Send, Ask, device

LEMMA EventSteps ==
    ASSUME EventStep \/ Report \/ DropRequest
    PROVE  UNCHANGED <<control, user, inbox, thread, history>>
  BY DEF EventStep, Receive, StoreJoint, PublishVersion, Report, DropRequest

\* Walking over the joints.
LEMMA NextJoint ==
    /\ 1 \in Joints
    /\ \A j \in Joints : j \in Nat /\ j > 0 /\ j =< N /\ (j < N => j + 1 \in Joints)
  BY RealtimeAssumption DEF Joints

--------------------------------------------------------------------------------
\* The conjuncts of the invariant, one by one.

LEMMA TypeOKStep ==
    ASSUME TypeOK, TargetsFresh, [Next]_vars
    PROVE  TypeOK'
  <1> USE RealtimeAssumption
  <1> DEFINE UserOK ==
                 /\ controller \in 0..sessions /\ sessions \in 0..MaxSessions
                 /\ upstream \in BOOLEAN /\ stop \in BOOLEAN
                 /\ upc \in {"idle", "set", "join"} /\ sets \in 0..MaxSets /\ uj \in Joints
                 /\ inbox \in [Joints -> 0..MaxSets]
             ThreadOK ==
                 /\ rj \in Joints /\ old_version \in Nat
                 /\ positions \in [Joints -> Nat] /\ targets \in [Joints -> 0..MaxSets]
                 /\ seen \in [Joints -> Nat] /\ floor \in 0..MaxSets
             EventOK ==
                 /\ result \in [Joints -> Nat] /\ version \in Nat
                 /\ epc \in {"idle", "store", "publish"} /\ ej \in Joints /\ frame \in Nat
                 /\ asked \in Nat /\ frames \in Seq(Nat) /\ sent \in Nat
  <1>1. CASE (\E up \in BOOLEAN : Attach(up)) \/ BeginSet \/ RequestStop \/ UserStep
    <2>1. UserOK'
      <3>1. ASSUME NEW up \in BOOLEAN, Attach(up)
            PROVE  UserOK'
        <4>1. sessions' \in 0..MaxSessions /\ controller' \in 0..sessions'
          BY <3>1 DEF Attach, TypeOK
        <4>2. inbox' \in [Joints -> 0..MaxSets] /\ sets' \in 0..MaxSets
          BY <3>1 DEF Attach, Zeros
        <4> QED
          BY <3>1, <4>1, <4>2 DEF Attach, TypeOK
      <3>2. CASE BeginSet
        BY <3>2 DEF BeginSet, TypeOK, control, Joints
      <3>3. CASE RequestStop
        BY <3>3 DEF RequestStop, TypeOK
      <3>4. CASE SetUnit
        <4>1. inbox' \in [Joints -> 0..MaxSets]
          BY <3>4 DEF SetUnit, TypeOK
        <4>2. uj' \in Joints /\ upc' \in {"idle", "set", "join"}
          BY <3>4, NextJoint DEF SetUnit, TypeOK
        <4> QED
          BY <3>4, <4>1, <4>2 DEF SetUnit, TypeOK, control
      <3>5. CASE JoinAndRelease
        BY <3>5 DEF JoinAndRelease, TypeOK
      <3> QED
        BY <1>1, <3>1, <3>2, <3>3, <3>4, <3>5 DEF UserStep
    <2>2. ThreadOK' /\ EventOK'
      BY <1>1, UserSteps DEF TypeOK, results, event, device, history
    <2>3. rpc' \in Stages
      BY <1>1 DEF Attach, BeginSet, RequestStop, UserStep, SetUnit, JoinAndRelease, TypeOK,
                  Stages, thread
    <2> QED
      BY <2>1, <2>2, <2>3 DEF TypeOK
  <1>2. CASE ThreadStep
    <2>1. UserOK'
      BY <1>2, ThreadSteps DEF TypeOK, control, user
    <2>2. rpc' \in Stages
      BY <1>2 DEF ThreadStep, Setup, AskFirst, Await, Loop, Gather, Step, Send, TypeOK, Stages
    <2>3. ThreadOK'
      <3>1. CASE Setup \/ AskFirst \/ Await \/ Send
        BY <3>1 DEF Setup, AskFirst, Await, Send, TypeOK, history
      <3>2. CASE Loop
        <4>1. Returned \in 0..MaxSets
          <5>1. /\ sets \in 0..MaxSets /\ MaxSets \in Nat
                /\ upc = "set" => sets > 0
            BY DEF TypeOK, TargetsFresh
          <5> QED
            BY <5>1 DEF Returned
        <4> QED
          BY <3>2, <4>1, NextJoint DEF Loop, TypeOK
      <3>3. CASE Gather
        <4>1. positions' \in [Joints -> Nat] /\ rj' \in Joints
          BY <3>3, NextJoint DEF Gather, TypeOK
        <4> QED
          BY <3>3, <4>1 DEF Gather, TypeOK, history
      <3>4. CASE Step
        <4>1. targets' \in [Joints -> 0..MaxSets] /\ rj' \in Joints /\ seen' \in [Joints -> Nat]
          BY <3>4, NextJoint DEF Step, TypeOK
        <4> QED
          BY <3>4, <4>1 DEF Step, TypeOK
      <3> QED
        BY <1>2, <3>1, <3>2, <3>3, <3>4 DEF ThreadStep
    <2>4. asked' \in Nat
      <3>1. Ask => asked' \in Nat
        BY DEF Ask, TypeOK
      <3>2. Ask \/ asked' = asked
        BY <1>2 DEF ThreadStep, Setup, AskFirst, Await, Loop, Gather, Step, Send, device
      <3> QED
        BY <3>1, <3>2 DEF TypeOK
    <2>5. EventOK'
      BY <1>2, <2>4, ThreadSteps DEF TypeOK, results, event
    <2> QED
      BY <2>1, <2>2, <2>3, <2>5 DEF TypeOK
  <1>3. CASE EventStep \/ Report \/ DropRequest
    <2>1. UserOK' /\ ThreadOK' /\ rpc' \in Stages
      BY <1>3, EventSteps DEF TypeOK, control, user, thread, history
    <2>2. EventOK'
      <3>1. CASE Receive
        <4>1. Tail(frames) \in Seq(Nat) /\ Head(frames) \in Nat
          BY <3>1, HeadTailProperties DEF Receive, TypeOK
        <4> QED
          BY <3>1, <4>1, NextJoint DEF Receive, TypeOK, results, event
      <3>2. CASE StoreJoint
        <4>1. result' \in [Joints -> Nat] /\ ej' \in Joints
          BY <3>2, NextJoint DEF StoreJoint, TypeOK
        <4> QED
          BY <3>2, <4>1 DEF StoreJoint, TypeOK, device
      <3>3. CASE PublishVersion
        BY <3>3 DEF PublishVersion, TypeOK, device
      <3>4. CASE Report
        <4>1. sent' \in Nat /\ Append(frames, sent') \in Seq(Nat)
          BY <3>4, AppendProperties DEF Report, TypeOK
        <4> QED
          BY <3>4, <4>1 DEF Report, TypeOK, results, event
      <3>5. CASE DropRequest
        BY <3>5 DEF DropRequest, TypeOK, results, event
      <3> QED
        BY <1>3, <3>1, <3>2, <3>3, <3>4, <3>5 DEF EventStep
    <2> QED
      BY <2>1, <2>2 DEF TypeOK
  <1>4. CASE UNCHANGED vars
    BY <1>4 DEF vars, control, user, thread, results, event, device, history, TypeOK
  <1> QED
    BY <1>1, <1>2, <1>3, <1>4 DEF Next

LEMMA ThreadHasControllerStep ==
    ASSUME TypeOK, ThreadHasController, [Next]_vars
    PROVE  ThreadHasController'
  <1>1. CASE (\E up \in BOOLEAN : Attach(up)) \/ JoinAndRelease
    <2>1. sessions \in Nat
      BY RealtimeAssumption DEF TypeOK
    <2>2. CASE \E up \in BOOLEAN : Attach(up)
      BY <2>1, <2>2 DEF Attach, ThreadHasController
    <2>3. CASE JoinAndRelease
      BY <2>3 DEF JoinAndRelease, thread, ThreadHasController
    <2> QED
      BY <1>1, <2>2, <2>3
  <1>2. CASE BeginSet \/ RequestStop \/ SetUnit
    BY <1>2 DEF BeginSet, RequestStop, SetUnit, control, thread, ThreadHasController
  <1>3. CASE ThreadStep
    <2>1. rpc \notin {"none", "ended"}
      BY <1>3 DEF ThreadStep, Setup, AskFirst, Await, Loop, Gather, Step, Send
    <2> QED
      BY <2>1, <1>3, ThreadSteps DEF control, ThreadHasController
  <1>4. CASE EventStep \/ Report \/ DropRequest \/ UNCHANGED vars
    BY <1>4, EventSteps DEF vars, control, thread, ThreadHasController
  <1> QED
    BY <1>1, <1>2, <1>3, <1>4 DEF Next, UserStep

LEMMA InboxesFilledStep ==
    ASSUME TypeOK, TargetsFresh, InboxesFilled, [Next]_vars
    PROVE  InboxesFilled'
  <1>1. ASSUME NEW up \in BOOLEAN, Attach(up)
        PROVE  InboxesFilled'
    BY <1>1 DEF Attach, InboxesFilled, Zeros
  <1>2. CASE BeginSet
    <2>1. sets \in Int /\ sets' = sets + 1 /\ upc' = "set" /\ uj' = 1 /\ inbox' = inbox
      BY <1>2 DEF BeginSet, TypeOK
    <2>2. \A j \in Joints : inbox[j] = sets /\ j >= 1
      BY <1>2, NextJoint DEF BeginSet, InboxesFilled
    <2> QED
      BY <2>1, <2>2 DEF InboxesFilled
  <1>3. CASE SetUnit
    <2> SUFFICES ASSUME NEW j \in Joints
                 PROVE  (inbox[j] = IF upc = "set" /\ j >= uj THEN sets - 1 ELSE sets)'
      BY DEF InboxesFilled
    <2>1. /\ inbox[j] = IF j >= uj THEN sets - 1 ELSE sets
          /\ inbox' = [inbox EXCEPT ![uj] = sets] /\ sets' = sets
          /\ IF uj < N THEN uj' = uj + 1 /\ upc' = "set" ELSE upc' = "idle"
      BY <1>3 DEF SetUnit, InboxesFilled
    <2>2. inbox'[j] = IF j = uj THEN sets ELSE inbox[j]
      BY <2>1 DEF TypeOK
    <2>3. j \in Nat /\ uj \in Nat /\ j =< N /\ uj =< N
      BY NextJoint DEF TypeOK
    <2> QED
      BY <2>1, <2>2, <2>3, RealtimeAssumption
  <1>4. CASE RequestStop \/ JoinAndRelease
    BY <1>4 DEF RequestStop, JoinAndRelease, InboxesFilled
  <1>5. CASE ThreadStep \/ EventStep \/ Report \/ DropRequest \/ UNCHANGED vars
    BY <1>5, ThreadSteps, EventSteps DEF vars, user, InboxesFilled
  <1> QED
    BY <1>1, <1>2, <1>3, <1>4, <1>5 DEF Next, UserStep

\* A set that has returned stays returned, as long as the controller is attached.
LEMMA ReturnedGrows ==
    ASSUME TypeOK, BeginSet \/ RequestStop \/ UserStep
    PROVE  Returned =< Returned' /\ Returned \in Int /\ Returned' \in Int
  <1>1. sets \in Int
    BY DEF TypeOK
  <1>2. CASE BeginSet
    BY <1>1, <1>2 DEF BeginSet, Returned
  <1>3. CASE SetUnit
    BY <1>1, <1>3 DEF SetUnit, Returned
  <1>4. CASE RequestStop \/ JoinAndRelease
    BY <1>1, <1>4 DEF RequestStop, JoinAndRelease, Returned
  <1> QED
    BY <1>2, <1>3, <1>4 DEF UserStep

LEMMA TargetsFreshStep ==
    ASSUME TypeOK, InboxesFilled, TargetsFresh, [Next]_vars
    PROVE  TargetsFresh'
  <1>1. ASSUME NEW up \in BOOLEAN, Attach(up)
        PROVE  TargetsFresh'
    BY <1>1 DEF Attach, TargetsFresh
  <1>2. CASE BeginSet \/ RequestStop \/ UserStep
    <2>1. UNCHANGED <<rpc, rj, targets, floor>>
      BY <1>2 DEF BeginSet, RequestStop, UserStep, SetUnit, JoinAndRelease, thread, history
    <2>2. (upc = "set" => sets > 0)'
      <3>1. sets \in Nat
        BY DEF TypeOK
      <3>2. CASE BeginSet
        BY <3>1, <3>2 DEF BeginSet
      <3>3. CASE SetUnit
        BY <3>3 DEF SetUnit, TargetsFresh
      <3>4. CASE RequestStop
        BY <3>4 DEF RequestStop
      <3>5. CASE JoinAndRelease
        BY <3>5 DEF JoinAndRelease
      <3> QED
        BY <1>2, <3>2, <3>3, <3>4, <3>5 DEF UserStep
    <2>3. floor \in Int /\ Returned =< Returned' /\ Returned \in Int /\ Returned' \in Int
      <3>1. floor \in Int
        BY DEF TypeOK
      <3> QED
        BY <1>2, <3>1, ReturnedGrows
    <2> QED
      BY <2>1, <2>2, <2>3 DEF TargetsFresh
  <1>3. CASE ThreadStep
    <2>1. (upc = "set" => sets > 0)' /\ Returned' = Returned
      BY <1>3, ThreadSteps DEF user, TargetsFresh, Returned
    <2>2. Returned \in Int
      BY DEF Returned, TypeOK
    <2>3. CASE Setup \/ AskFirst \/ Await
      BY <2>3, <2>1 DEF Setup, AskFirst, Await, TargetsFresh
    <2>4. CASE Loop
      <3>1. /\ rpc' # "send" /\ floor' = Returned
            /\ \A j \in Joints : ~(j < rj')
        BY <2>4, NextJoint DEF Loop
      <3> QED
        BY <3>1, <2>1, <2>2 DEF TargetsFresh
    <2>5. CASE Gather
      <3>1. /\ floor' = floor /\ floor =< Returned /\ rpc' # "send"
            /\ rpc' = "step" => \A j \in Joints : ~(j < rj')
        BY <2>5, NextJoint DEF Gather, TargetsFresh, history
      <3> QED
        BY <3>1, <2>1 DEF TargetsFresh
    <2>6. CASE Step
      <3>1. floor' = floor /\ floor =< Returned /\ floor \in Int
        BY <2>6 DEF Step, TargetsFresh, TypeOK
      <3>2. ASSUME NEW j \in Joints, rpc' = "send" \/ (rpc' = "step" /\ j < rj')
            PROVE  targets'[j] >= floor'
        <4>1. CASE j = rj
          <5>1. inbox[j] >= Returned
            <6>1. sets \in Int
              BY DEF TypeOK
            <6> QED
              BY <6>1 DEF InboxesFilled, Returned
          <5>2. targets'[j] = inbox[j] /\ inbox[j] \in Int
            BY <2>6, <4>1 DEF Step, TypeOK
          <5> QED
            BY <3>1, <5>1, <5>2, <2>2
        <4>2. CASE j # rj
          <5>1. j < rj
            <6>1. j \in Nat /\ rj \in Nat /\ j =< N /\ N \in Nat
              BY NextJoint, RealtimeAssumption DEF TypeOK
            <6>2. IF rj < N THEN rj' = rj + 1 /\ rpc' = "step" ELSE rpc' = "send"
              BY <2>6 DEF Step
            <6> QED
              BY <6>1, <6>2, <3>2, <4>2
          <5>2. targets'[j] = targets[j]
            BY <2>6, <4>2 DEF Step, TypeOK
          <5> QED
            BY <2>6, <3>1, <5>1, <5>2 DEF Step, TargetsFresh
        <4> QED
          BY <4>1, <4>2
      <3> QED
        BY <3>1, <3>2, <2>1 DEF TargetsFresh
    <2>7. CASE Send
      BY <2>7, <2>1 DEF Send, TargetsFresh
    <2> QED
      BY <1>3, <2>3, <2>4, <2>5, <2>6, <2>7 DEF ThreadStep
  <1>4. CASE EventStep \/ Report \/ DropRequest \/ UNCHANGED vars
    BY <1>4, EventSteps DEF vars, user, thread, history, TargetsFresh, Returned
  <1> QED
    BY <1>1, <1>2, <1>3, <1>4 DEF Next

\* What taking a frame off the front, or putting one at the end, does to the others.
LEMMA FramesMove ==
    ASSUME NEW s \in Seq(Nat)
    PROVE  /\ Len(s) \in Nat
           /\ \A i \in 1..Len(s) : s[i] \in Nat
           /\ s # <<>> =>
                  /\ Tail(s) \in Seq(Nat) /\ Len(Tail(s)) = Len(s) - 1 /\ Len(s) >= 1
                  /\ Head(s) = s[1]
                  /\ \A i \in 1..(Len(s) - 1) : Tail(s)[i] = s[i + 1]
           /\ \A f \in Nat :
                  /\ Append(s, f) \in Seq(Nat) /\ Len(Append(s, f)) = Len(s) + 1
                  /\ \A i \in 1..Len(s) : Append(s, f)[i] = s[i]
                  /\ Append(s, f)[Len(s) + 1] = f
  <1>1. Len(s) \in Nat /\ \A i \in 1..Len(s) : s[i] \in Nat
    OBVIOUS
  <1>2. s # <<>> => /\ Tail(s) \in Seq(Nat) /\ Len(Tail(s)) = Len(s) - 1 /\ Len(s) >= 1
                    /\ Head(s) = s[1]
                    /\ \A i \in 1..(Len(s) - 1) : Tail(s)[i] = s[i + 1]
    BY HeadTailProperties
  <1>3. ASSUME NEW f \in Nat
        PROVE  /\ Append(s, f) \in Seq(Nat) /\ Len(Append(s, f)) = Len(s) + 1
               /\ \A i \in 1..Len(s) : Append(s, f)[i] = s[i]
               /\ Append(s, f)[Len(s) + 1] = f
    BY AppendProperties
  <1> QED
    BY <1>1, <1>2, <1>3

LEMMA PositionsInOrderStep ==
    ASSUME TypeOK, PositionsInOrder, [Next]_vars
    PROVE  PositionsInOrder'
  <1>1. CASE (\E up \in BOOLEAN : Attach(up)) \/ BeginSet \/ RequestStop \/ UserStep
    BY <1>1, UserSteps DEF results, event, device, history, PositionsInOrder
  <1>2. CASE ThreadStep
    <2>1. UNCHANGED <<result, epc, frame, frames, sent>>
      BY <1>2, ThreadSteps DEF results, event
    <2>2. \A j \in Joints : /\ positions[j] \in Nat /\ result[j] \in Nat /\ seen[j] \in Nat
                            /\ seen[j] =< positions[j] /\ positions[j] =< result[j]
      BY DEF TypeOK, PositionsInOrder
    <2>3. \A j \in Joints : seen'[j] =< positions'[j] /\ positions'[j] =< result[j]
      <3>1. CASE Gather
        <4>1. \A j \in Joints : positions'[j] = IF j = rj THEN result[j] ELSE positions[j]
          BY <3>1 DEF Gather, TypeOK
        <4>2. seen' = seen
          BY <3>1 DEF Gather, history
        <4> QED
          BY <4>1, <4>2, <2>2
      <3>2. CASE Step
        <4>1. positions' = positions /\ (seen' = positions \/ seen' = seen)
          BY <3>2 DEF Step
        <4> QED
          BY <4>1, <2>2
      <3>3. CASE Setup \/ AskFirst \/ Await \/ Loop \/ Send
        <4>1. positions' = positions /\ seen' = seen
          BY <3>3 DEF Setup, AskFirst, Await, Loop, Send, history
        <4> QED
          BY <4>1, <2>2
      <3> QED
        BY <1>2, <3>1, <3>2, <3>3 DEF ThreadStep
    <2> QED
      BY <2>1, <2>3 DEF PositionsInOrder
  <1>3. CASE Receive
    <2>1. /\ frames # <<>> /\ frames' = Tail(frames)
          /\ UNCHANGED <<seen, positions, result, sent>>
          /\ \/ epc' = "store" /\ frame' = Head(frames)
             \/ epc' = epc /\ epc # "store" /\ frame' = frame
      BY <1>3 DEF Receive, thread, history, results, event
    <2>2. /\ Len(frames) \in Nat /\ Len(frames) >= 1 /\ Len(Tail(frames)) = Len(frames) - 1
          /\ Head(frames) = frames[1]
          /\ \A i \in 1..(Len(frames) - 1) : Tail(frames)[i] = frames[i + 1]
      BY <2>1, FramesMove DEF TypeOK
    <2>3. \A i \in 1..Len(frames') : /\ frames'[i] = frames[i + 1]
                                     /\ i \in Int /\ i + 1 \in 1..Len(frames)
                                     /\ 1 \in 1..Len(frames) /\ 1 =< i + 1
      BY <2>1, <2>2
    <2>4. \A i, k \in 1..Len(frames') : i =< k => frames'[i] =< frames'[k]
      <3> SUFFICES ASSUME NEW i \in 1..Len(frames'), NEW k \in 1..Len(frames'), i =< k
                   PROVE  frames'[i] =< frames'[k]
        OBVIOUS
      <3>1. i + 1 =< k + 1
        OBVIOUS
      <3> QED
        BY <2>3, <3>1 DEF PositionsInOrder
    <2>5. \A i \in 1..Len(frames') : /\ frames'[i] > 0 /\ frames'[i] =< sent
                                     /\ frames[1] =< frames'[i]
                                     /\ \A j \in Joints : result[j] =< frames'[i]
      BY <2>3 DEF PositionsInOrder
    <2>6. /\ frames[1] > 0 /\ frames[1] =< sent
          /\ \A j \in Joints : result[j] =< frames[1]
      BY <2>2 DEF PositionsInOrder
    <2> QED
      BY <2>1, <2>2, <2>4, <2>5, <2>6 DEF PositionsInOrder
  <1>4. CASE StoreJoint
    <2>1. /\ epc = "store" /\ UNCHANGED <<frame, frames, sent, seen, positions>>
          /\ result' = [result EXCEPT ![ej] = frame]
      BY <1>4 DEF StoreJoint, thread, history, device
    <2>2. \A j \in Joints : result'[j] = IF j = ej THEN frame ELSE result[j]
      BY <2>1 DEF TypeOK
    <2>3. /\ frame \in Nat /\ sent \in Nat /\ \A i \in 1..Len(frames) : frames[i] \in Nat
          /\ \A j \in Joints : result[j] \in Nat /\ positions[j] \in Nat
      BY FramesMove DEF TypeOK
    <2>4. /\ frame > 0 /\ frame =< sent /\ \A i \in 1..Len(frames) : frame =< frames[i]
          /\ \A j \in Joints : result[j] =< frame /\ positions[j] =< result[j]
      BY <2>1 DEF PositionsInOrder
    <2>5. \A j \in Joints : /\ result'[j] =< frame /\ positions[j] =< result'[j]
                            /\ result'[j] =< sent
                            /\ \A i \in 1..Len(frames) : result'[j] =< frames[i]
      BY <2>2, <2>3, <2>4 DEF PositionsInOrder
    <2> QED
      BY <2>1, <2>4, <2>5 DEF PositionsInOrder
  <1>5. CASE PublishVersion
    BY <1>5 DEF PublishVersion, thread, history, device, PositionsInOrder
  <1>6. CASE Report
    <2>1. /\ sent' = sent + 1 /\ frames' = Append(frames, sent')
          /\ UNCHANGED <<seen, positions, result, epc, frame>>
          /\ sent \in Nat /\ frame \in Nat /\ \A j \in Joints : result[j] \in Nat
      BY <1>6 DEF Report, thread, history, results, event, TypeOK
    <2>2. /\ Len(frames) \in Nat /\ Len(frames') = Len(frames) + 1
          /\ \A i \in 1..Len(frames) : frames'[i] = frames[i] /\ frames[i] \in Nat
          /\ frames'[Len(frames) + 1] = sent + 1
      <3>1. sent + 1 \in Nat /\ frames \in Seq(Nat)
        BY <2>1 DEF TypeOK
      <3>2. /\ Len(Append(frames, sent + 1)) = Len(frames) + 1
            /\ \A i \in 1..Len(frames) : Append(frames, sent + 1)[i] = frames[i]
            /\ Append(frames, sent + 1)[Len(frames) + 1] = sent + 1
        BY <3>1, FramesMove
      <3>3. Len(frames) \in Nat /\ \A i \in 1..Len(frames) : frames[i] \in Nat
        BY <3>1, FramesMove
      <3> QED
        BY <2>1, <3>2, <3>3
    <2>3. \A i \in 1..Len(frames') :
              \/ i \in 1..Len(frames) /\ frames'[i] = frames[i]
              \/ i = Len(frames) + 1 /\ frames'[i] = sent + 1
      BY <2>2
    <2>4. \A i \in 1..Len(frames') : /\ frames'[i] > 0 /\ frames'[i] =< sent + 1
                                     /\ \A j \in Joints : result[j] =< frames'[i]
                                     /\ epc = "store" => frame =< frames'[i]
      BY <2>1, <2>2, <2>3 DEF PositionsInOrder
    <2>5. \A i, k \in 1..Len(frames') : i =< k => frames'[i] =< frames'[k]
      <3> SUFFICES ASSUME NEW i \in 1..Len(frames'), NEW k \in 1..Len(frames'), i =< k
                   PROVE  frames'[i] =< frames'[k]
        OBVIOUS
      <3>1. CASE k = Len(frames) + 1
        BY <3>1, <2>2, <2>4
      <3>2. CASE k \in 1..Len(frames)
        <4>1. i \in 1..Len(frames)
          BY <3>2, <2>2
        <4> QED
          BY <3>2, <4>1, <2>2 DEF PositionsInOrder
      <3> QED
        BY <3>1, <3>2, <2>3
    <2>6. /\ epc = "store" => /\ frame > 0 /\ frame =< sent + 1
                              /\ \A j \in Joints : result[j] =< frame
          /\ \A j \in Joints : /\ seen[j] =< positions[j] /\ positions[j] =< result[j]
                               /\ result[j] =< sent + 1
      BY <2>1 DEF PositionsInOrder
    <2> QED
      BY <2>1, <2>4, <2>5, <2>6 DEF PositionsInOrder
  <1>7. CASE DropRequest \/ UNCHANGED vars
    BY <1>7 DEF DropRequest, vars, thread, history, results, event, device, PositionsInOrder
  <1> QED
    BY <1>1, <1>2, <1>3, <1>4, <1>5, <1>6, <1>7 DEF Next, EventStep

LEMMA ReportedFirstStep ==
    ASSUME TypeOK, PositionsInOrder, ReportedFirst, [Next]_vars
    PROVE  ReportedFirst'
  <1>0. version \in Nat /\ old_version \in Nat
    BY DEF TypeOK
  <1>1. ASSUME NEW up \in BOOLEAN, Attach(up)
        PROVE  ReportedFirst'
    BY <1>1 DEF Attach, results, event, ReportedFirst
  <1>2. CASE BeginSet \/ RequestStop \/ UserStep
    <2>1. UNCHANGED <<upstream, rpc, rj, old_version, positions, results, event>>
      BY <1>2 DEF BeginSet, RequestStop, UserStep, SetUnit, JoinAndRelease, thread, control
    <2> QED
      BY <2>1 DEF results, event, ReportedFirst
  <1>3. CASE ThreadStep
    <2>1. UNCHANGED <<upstream, result, version, epc, ej>>
      BY <1>3, ThreadSteps DEF control, results, event
    <2>2. old_version' =< version
      BY <1>3, <1>0 DEF ThreadStep, Setup, AskFirst, Await, Loop, Gather, Step, Send, ReportedFirst
    <2>3. upstream /\ rpc' \in {"loop", "gather", "step", "send"} => version # 0
      <3>1. CASE Await
        BY <3>1, <1>0 DEF Await, ReportedFirst
      <3>2. CASE Setup \/ AskFirst \/ Loop \/ Gather \/ Step \/ Send
        BY <3>2 DEF Setup, AskFirst, Loop, Gather, Step, Send, ReportedFirst
      <3> QED
        BY <1>3, <3>1, <3>2 DEF ThreadStep
    <2>4. upstream /\ rpc' = "gather" => \A j \in Joints : j < rj' => positions'[j] # 0
      <3>1. CASE Gather
        <4> SUFFICES ASSUME upstream, rpc' = "gather", NEW j \in Joints, j < rj'
                     PROVE  positions'[j] # 0
          OBVIOUS
        <4>1. rj' = rj + 1 /\ rj \in Nat /\ j \in Nat
          BY <3>1, NextJoint DEF Gather, TypeOK
        <4>2. positions'[j] = IF j = rj THEN result[j] ELSE positions[j]
          BY <3>1 DEF Gather, TypeOK
        <4>3. result[j] # 0
          BY <3>1, <4>1 DEF Gather, ReportedFirst
        <4>4. j < rj => positions[j] # 0
          BY <3>1 DEF Gather, ReportedFirst
        <4> QED
          BY <4>1, <4>2, <4>3, <4>4
      <3>2. CASE Loop
        <4>1. \A j \in Joints : ~(j < rj')
          BY <3>2, NextJoint DEF Loop
        <4> QED
          BY <4>1
      <3>3. CASE Setup \/ AskFirst \/ Await \/ Step \/ Send
        BY <3>3 DEF Setup, AskFirst, Await, Step, Send
      <3> QED
        BY <1>3, <3>1, <3>2, <3>3 DEF ThreadStep
    <2> QED
      BY <2>1, <2>2, <2>3, <2>4 DEF ReportedFirst
  <1>4. CASE EventStep
    <2>1. UNCHANGED <<upstream, rpc, rj, old_version, positions>>
      BY <1>4, EventSteps DEF control, thread
    <2>2. version =< version' /\ version' \in Nat
      BY <1>4, <1>0 DEF EventStep, Receive, StoreJoint, PublishVersion, results
    <2>3. \A j \in Joints : version' # 0 \/ epc' = "publish" \/ (epc' = "store" /\ j < ej')
                            => result'[j] # 0
      <3> TAKE j \in Joints
      <3>1. CASE Receive
        <4>1. version' = version /\ result' = result /\ epc # "publish"
          BY <3>1 DEF Receive, results
        <4>2. epc' # "publish" /\ (epc' = "store" => ~(j < ej'))
          BY <3>1, NextJoint DEF Receive, event
        <4> QED
          BY <4>1, <4>2 DEF ReportedFirst
      <3>2. CASE StoreJoint
        <4>1. /\ epc = "store" /\ version' = version
              /\ result'[j] = IF j = ej THEN frame ELSE result[j]
              /\ IF ej < N THEN ej' = ej + 1 /\ epc' = "store" ELSE epc' = "publish"
          BY <3>2 DEF StoreJoint, TypeOK
        <4>2. frame # 0
          BY <4>1 DEF PositionsInOrder, TypeOK
        <4>3. ej \in Nat /\ j \in Nat /\ j =< N /\ ej =< N /\ N \in Nat
          BY NextJoint, RealtimeAssumption DEF TypeOK
        <4>4. version # 0 \/ j < ej => result[j] # 0
          BY <4>1 DEF ReportedFirst
        <4> QED
          BY <4>1, <4>2, <4>3, <4>4
      <3>3. CASE PublishVersion
        BY <3>3 DEF PublishVersion, ReportedFirst
      <3> QED
        BY <1>4, <3>1, <3>2, <3>3 DEF EventStep
    <2>4. upstream /\ rpc \in {"loop", "gather", "step", "send"} => version' # 0
      BY <2>2, <1>0 DEF ReportedFirst
    <2> QED
      BY <1>0, <2>1, <2>2, <2>3, <2>4 DEF ReportedFirst
  <1>5. CASE Report \/ DropRequest \/ UNCHANGED vars
    BY <1>5 DEF Report, DropRequest, vars, control, thread, results, event, ReportedFirst
  <1> QED
    BY <1>1, <1>2, <1>3, <1>4, <1>5 DEF Next

LEMMA NeverStepsBlindStep ==
    ASSUME TypeOK, ReportedFirst, NeverStepsBlind, [Next]_vars
    PROVE  NeverStepsBlind'
  <1>1. ASSUME NEW up \in BOOLEAN, Attach(up)
        PROVE  NeverStepsBlind'
    BY <1>1 DEF Attach, NeverStepsBlind
  <1>2. CASE BeginSet \/ RequestStop \/ UserStep
    <2>1. UNCHANGED <<upstream, rpc, positions>>
      BY <1>2 DEF BeginSet, RequestStop, UserStep, SetUnit, JoinAndRelease, thread, control
    <2> QED
      BY <2>1 DEF NeverStepsBlind
  <1>3. CASE Gather
    <2> SUFFICES ASSUME upstream', rpc' = "step", NEW j \in Joints
                 PROVE  positions'[j] # 0
      BY <1>3 DEF Gather, NeverStepsBlind
    <2>1. /\ upstream /\ ~(rj < N)
          /\ positions'[j] = IF j = rj THEN result[j] ELSE positions[j]
      BY <1>3 DEF Gather, TypeOK, control
    <2>2. rj \in Nat /\ j \in Nat /\ j =< N /\ N \in Nat
      BY NextJoint, RealtimeAssumption DEF TypeOK
    <2>3. result[j] # 0 /\ (j < rj => positions[j] # 0)
      BY <1>3, <2>1 DEF Gather, ReportedFirst
    <2> QED
      BY <2>1, <2>2, <2>3
  <1>4. CASE Setup \/ AskFirst \/ Await \/ Loop \/ Step \/ Send
    BY <1>4 DEF Setup, AskFirst, Await, Loop, Step, Send, control, NeverStepsBlind
  <1>5. CASE EventStep \/ Report \/ DropRequest \/ UNCHANGED vars
    BY <1>5, EventSteps DEF vars, control, thread, NeverStepsBlind
  <1> QED
    BY <1>1, <1>2, <1>3, <1>4, <1>5 DEF Next, ThreadStep

--------------------------------------------------------------------------------
\* The theorems.

\* The inductive invariant holds in every reachable state.
THEOREM Invariance == Spec => []IndInv
  <1>1. Init => IndInv
    <2> SUFFICES ASSUME Init
                 PROVE  IndInv
      OBVIOUS
    <2>1. TypeOK
      <3>1. Zeros \in [Joints -> Nat] /\ Zeros \in [Joints -> 0..MaxSets] /\ 1 \in Joints
        BY NextJoint, RealtimeAssumption DEF Zeros
      <3>2. <<>> \in Seq(Nat) /\ 0 \in 0..MaxSessions /\ 0 \in 0..MaxSets /\ 0 \in 0..0
        BY RealtimeAssumption
      <3> QED
        BY <3>1, <3>2 DEF Init, TypeOK, Stages
    <2>2. frames = <<>> /\ Len(frames) = 0 /\ \A i \in 1..Len(frames) : FALSE
      BY DEF Init
    <2>3. PositionsInOrder
      BY <2>2 DEF Init, PositionsInOrder, Zeros
    <2>4. ThreadHasController /\ InboxesFilled /\ TargetsFresh /\ ReportedFirst /\ NeverStepsBlind
      BY DEF Init, ThreadHasController, InboxesFilled, TargetsFresh, ReportedFirst,
             NeverStepsBlind, Zeros
    <2> QED
      BY <2>1, <2>3, <2>4 DEF IndInv
  <1>2. IndInv /\ [Next]_vars => IndInv'
    BY TypeOKStep, ThreadHasControllerStep, InboxesFilledStep, TargetsFreshStep,
       PositionsInOrderStep, ReportedFirstStep, NeverStepsBlindStep DEF IndInv
  <1> QED
    BY <1>1, <1>2, PTL DEF Spec

\* With upstream, no step is given a position that the device did not report.
THEOREM BlindSafe == Spec => []NeverStepsBlind
  <1>1. IndInv => NeverStepsBlind
    BY DEF IndInv
  <1> QED
    BY <1>1, Invariance, PTL

\* No target is sent that is older than the last set that had returned.
THEOREM TargetSafe == Spec => []StepSeesFinishedSets
  <1>1. IndInv => StepSeesFinishedSets
    BY DEF IndInv, TargetsFresh, StepSeesFinishedSets
  <1> QED
    BY <1>1, Invariance, PTL

\* No joint goes back to an earlier position.
THEOREM PositionSafe == Spec => PositionsAdvance
  <1>1. IndInv /\ [Next]_vars => [\A j \in Joints : seen[j] =< seen'[j]]_vars
    <2> SUFFICES ASSUME IndInv, [Next]_vars
                 PROVE  \A j \in Joints : seen[j] =< seen'[j]
      OBVIOUS
    <2>1. \A j \in Joints : seen[j] \in Nat /\ seen[j] =< positions[j]
      BY DEF IndInv, TypeOK, PositionsInOrder
    <2>2. CASE Step
      BY <2>1, <2>2 DEF Step
    <2>3. seen' = seen \/ Step
      BY UserSteps, EventSteps DEF Next, ThreadStep, Setup, AskFirst, Await, Loop, Gather, Send,
         history, vars
    <2> QED
      BY <2>1, <2>2, <2>3
  <1> QED
    BY <1>1, Invariance, PTL DEF Spec, PositionsAdvance

\* The thread never outlives its controller: it runs only while one is attached.
THEOREM OwnerSafe == Spec => []ThreadHasController
  <1>1. IndInv => ThreadHasController
    BY DEF IndInv
  <1> QED
    BY <1>1, Invariance, PTL

================================================================================
