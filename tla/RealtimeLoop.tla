------------------------------ MODULE RealtimeLoop ------------------------------
(***************************************************************************)
(* The realtime path of protocol::Handler (src/src/protocol/handler.cpp):  *)
(* the user attaches a controller, a thread of its own calls step every    *)
(* period and sends the targets, the event thread stores the positions     *)
(* that the device reports, and detaching stops and joins the thread.      *)
(* The controller is a FilteredController (controller.hpp) over any filter *)
(* whose unit keeps the last input in an inbox.  Vectors of joints are     *)
(* read and written one joint at a time, without a lock.                   *)
(*                                                                         *)
(* A position is the number of the device's frame that reported it, 0 for  *)
(* the value pdo_read_result_ starts with.  A target is the number of the  *)
(* set_joint_target_position call on this controller that gave it, 0 for   *)
(* the one it was constructed with.                                        *)
(***************************************************************************)
EXTENDS Integers, Sequences

CONSTANTS
    N,          \* joints, walked in order
    MaxFrames,  \* bound: frames that the device sends
    MaxSets,    \* bound: calls of set_joint_target_position on one controller
    MaxSessions,\* bound: controllers attached
    Pending     \* bound: requests and frames on the way

ASSUME RealtimeAssumption ==
    /\ N \in Nat \ {0}
    /\ MaxFrames \in Nat /\ MaxSets \in Nat /\ MaxSessions \in Nat \ {0}
    /\ Pending \in Nat \ {0}

VARIABLES
    controller,   \* realtime_controller_: the session it belongs to, 0 = nullptr
    sessions,     \* controllers attached so far
    upstream,     \* enable_upstream, as passed with that controller
    stop,         \* the stop token of the thread
    upc, sets, uj,\* the user: in a set or a detach, sets begun, next joint of a set
    inbox,        \* the inboxes of the controller's units
    rpc, rj,      \* the realtime thread, its next joint
    old_version, positions,
    targets,      \* what step read from the inboxes
    result, version,    \* pdo_read_result_, pdo_read_result_version_
    epc, ej, frame,     \* the event thread, its next joint, the frame at hand
    asked, frames, sent,\* device: requests, frames on the way, frames sent
    seen,         \* history: the positions handed to the step before
    floor         \* history: sets that had returned when the step began

control == <<controller, sessions, upstream, stop>>
user == <<upc, sets, uj>>
thread == <<rpc, rj, old_version, positions, targets>>
results == <<result, version>>
event == <<epc, ej, frame>>
device == <<asked, frames, sent>>
history == <<seen, floor>>
vars == <<control, user, inbox, thread, results, event, device, history>>

Joints == 1..N
Zeros == [j \in Joints |-> 0]

Init ==
    /\ controller = 0 /\ sessions = 0 /\ upstream = FALSE /\ stop = FALSE
    /\ upc = "idle" /\ sets = 0 /\ uj = 1
    /\ inbox = Zeros
    /\ rpc = "none" /\ rj = 1 /\ old_version = 0 /\ positions = Zeros /\ targets = Zeros
    /\ result = Zeros /\ version = 0
    /\ epc = "idle" /\ ej = 1 /\ frame = 0
    /\ asked = 0 /\ frames = <<>> /\ sent = 0
    /\ seen = Zeros /\ floor = 0

--------------------------------------------------------------------------------
\* The user thread.

\* The constructor of the controller resets every unit; jthread starts the thread.
Attach(enable_upstream) ==
    /\ upc = "idle" /\ controller = 0 /\ sessions < MaxSessions
    /\ upstream' = enable_upstream
    /\ sessions' = sessions + 1 /\ controller' = sessions' /\ stop' = FALSE
    /\ inbox' = Zeros /\ sets' = 0
    /\ rpc' = "setup"
    /\ UNCHANGED <<upc, uj, rj, old_version, positions, targets, results, event, device,
                   history>>

\* FilteredController::set, one unit after the other.
BeginSet ==
    /\ upc = "idle" /\ controller # 0 /\ sets < MaxSets
    /\ sets' = sets + 1 /\ uj' = 1
    /\ upc' = "set"
    /\ UNCHANGED <<control, inbox, thread, results, event, device, history>>

SetUnitButTheLast ==
    /\ upc = "set"
    /\ inbox' = [inbox EXCEPT ![uj] = sets]
    /\ IF uj < N - 1 THEN uj' = uj + 1 /\ UNCHANGED upc ELSE uj' = 1 /\ upc' = "idle"
    /\ UNCHANGED <<control, sets, thread, results, event, device, history>>

SetUnit ==
    /\ upc = "set"
    /\ inbox' = [inbox EXCEPT ![uj] = sets]
    /\ IF uj < N THEN uj' = uj + 1 /\ UNCHANGED upc ELSE uj' = 1 /\ upc' = "idle"
    /\ UNCHANGED <<control, sets, thread, results, event, device, history>>

RequestStop ==
    /\ upc = "idle" /\ controller # 0
    /\ stop' = TRUE
    /\ upc' = "join"
    /\ UNCHANGED <<controller, sessions, upstream, sets, uj, inbox, thread, results, event,
                   device, history>>

\* join, then realtime_controller_.release().
JoinAndRelease ==
    /\ upc = "join" /\ rpc = "ended"
    /\ controller' = 0
    /\ upc' = "idle"
    /\ UNCHANGED <<sessions, upstream, stop, sets, uj, inbox, thread, results, event, device,
                   history>>

--------------------------------------------------------------------------------
\* realtime_controller_thread_main.

Setup ==
    /\ rpc = "setup"
    /\ old_version' = version
    /\ rpc' = IF upstream THEN "ask" ELSE "loop"
    /\ UNCHANGED <<control, user, inbox, rj, positions, targets, results, event, device,
                   history>>

Ask == asked' = IF asked + Len(frames) < Pending THEN asked + 1 ELSE asked

\* The first loop: ask for the positions until a frame has come.
AskForever ==
    /\ rpc = "ask"
    /\ Ask
    /\ rpc' = "await"
    /\ UNCHANGED <<control, user, inbox, rj, old_version, positions, targets, results, event,
                   frames, sent, history>>

AskFirst ==
    /\ rpc = "ask"
    /\ IF stop THEN rpc' = "ended" /\ UNCHANGED asked ELSE rpc' = "await" /\ Ask
    /\ UNCHANGED <<control, user, inbox, rj, old_version, positions, targets, results, event,
                   frames, sent, history>>

Await ==
    /\ rpc = "await"
    /\ rpc' = IF version # old_version THEN "loop" ELSE "ask"
    /\ UNCHANGED <<control, user, inbox, rj, old_version, positions, targets, results, event,
                   device, history>>

Returned == IF upc = "set" THEN sets - 1 ELSE sets

\* The second loop, with upstream, and the only loop without.
Loop ==
    /\ rpc = "loop"
    /\ rj' = 1
    /\ rpc' = CASE stop -> "ended" [] ~stop /\ upstream -> "gather" [] OTHER -> "step"
    /\ floor' = Returned
    /\ UNCHANGED <<control, user, inbox, old_version, positions, targets, results, event,
                   device, seen>>

Gather ==
    /\ rpc = "gather"
    /\ positions' = [positions EXCEPT ![rj] = result[rj]]
    /\ IF rj < N THEN rj' = rj + 1 /\ UNCHANGED rpc ELSE rj' = 1 /\ rpc' = "step"
    /\ UNCHANGED <<control, user, inbox, old_version, targets, results, event, device, history>>

\* controller->step: each unit reads its inbox once.
Step ==
    /\ rpc = "step"
    /\ targets' = [targets EXCEPT ![rj] = inbox[rj]]
    /\ seen' = IF upstream /\ rj = N THEN positions ELSE seen
    /\ IF rj < N THEN rj' = rj + 1 /\ UNCHANGED rpc ELSE rj' = 1 /\ rpc' = "send"
    /\ UNCHANGED <<control, user, inbox, old_version, positions, results, event, device, floor>>

\* pdo_write_async_unchecked: enable_read asks for the positions as well.
Send ==
    /\ rpc = "send"
    /\ IF upstream THEN Ask ELSE UNCHANGED asked
    /\ rpc' = "loop"
    /\ UNCHANGED <<control, user, inbox, rj, old_version, positions, targets, results, event,
                   frames, sent, history>>

--------------------------------------------------------------------------------
\* The event thread: read_pdo_frame.  A frame that is too short or was not executed
\* throws before anything is stored.

ReceiveNewest ==
    /\ epc = "idle" /\ frames # <<>>
    /\ frames' = SubSeq(frames, 1, Len(frames) - 1)
    /\ epc' = "store" /\ frame' = frames[Len(frames)] /\ ej' = 1
    /\ UNCHANGED <<control, user, inbox, thread, results, asked, sent, history>>

ReceivePublishingFirst ==
    /\ epc = "idle" /\ frames # <<>>
    /\ frames' = Tail(frames)
    /\ epc' = "store" /\ frame' = Head(frames) /\ ej' = 1
    /\ version' = version + 1
    /\ UNCHANGED <<control, user, inbox, thread, result, asked, sent, history>>

Receive ==
    /\ epc = "idle" /\ frames # <<>>
    /\ frames' = Tail(frames)
    /\ \/ epc' = "store" /\ frame' = Head(frames) /\ ej' = 1
       \/ UNCHANGED event
    /\ UNCHANGED <<control, user, inbox, thread, results, asked, sent, history>>

StoreJoint ==
    /\ epc = "store"
    /\ result' = [result EXCEPT ![ej] = frame]
    /\ IF ej < N THEN ej' = ej + 1 /\ UNCHANGED epc ELSE ej' = 1 /\ epc' = "publish"
    /\ UNCHANGED <<control, user, inbox, thread, version, frame, device, history>>

PublishVersion ==
    /\ epc = "publish"
    /\ version' = version + 1
    /\ epc' = "idle" /\ frame' = 0
    /\ UNCHANGED <<control, user, inbox, thread, result, ej, device, history>>

\* The device (external) reports its positions in the order of the requests, or drops a
\* request.
Report ==
    /\ asked > 0 /\ sent < MaxFrames
    /\ asked' = asked - 1 /\ sent' = sent + 1
    /\ frames' = Append(frames, sent')
    /\ UNCHANGED <<control, user, inbox, thread, results, event, history>>

DropRequest ==
    /\ asked > 0
    /\ asked' = asked - 1
    /\ UNCHANGED <<control, user, inbox, thread, results, event, frames, sent, history>>

ThreadStep == Setup \/ AskFirst \/ Await \/ Loop \/ Gather \/ Step \/ Send
EventStep == Receive \/ StoreJoint \/ PublishVersion
UserStep == SetUnit \/ JoinAndRelease

Next ==
    \/ (\E up \in BOOLEAN : Attach(up)) \/ BeginSet \/ RequestStop \/ UserStep
    \/ ThreadStep \/ EventStep
    \/ Report \/ DropRequest

Spec == Init /\ [][Next]_vars

\* The threads run.  Nothing is asked of the device: it may never answer.
LiveSpec == Spec /\ WF_vars(UserStep) /\ WF_vars(ThreadStep) /\ WF_vars(EventStep)

--------------------------------------------------------------------------------
\* Properties.

Stages == {"none", "setup", "ask", "await", "loop", "gather", "step", "send", "ended"}

\* Each variable stays in its domain.
TypeOK ==
    /\ controller \in 0..sessions /\ sessions \in 0..MaxSessions
    /\ upstream \in BOOLEAN /\ stop \in BOOLEAN
    /\ upc \in {"idle", "set", "join"} /\ sets \in 0..MaxSets /\ uj \in Joints
    /\ inbox \in [Joints -> 0..MaxSets]
    /\ rpc \in Stages /\ rj \in Joints /\ old_version \in Nat
    /\ positions \in [Joints -> Nat] /\ targets \in [Joints -> 0..MaxSets]
    /\ result \in [Joints -> Nat] /\ version \in Nat
    /\ epc \in {"idle", "store", "publish"} /\ ej \in Joints /\ frame \in Nat
    /\ asked \in Nat /\ frames \in Seq(Nat) /\ sent \in Nat
    /\ seen \in [Joints -> Nat] /\ floor \in 0..MaxSets

\* With upstream, a step is never given the zeros that pdo_read_result_ starts with:
\* every joint's position is one that the device reported.
NeverStepsBlind ==
    upstream /\ rpc \in {"step", "send"} => \A j \in Joints : positions[j] # 0

\* The vectors that step is given may mix frames, but no joint ever goes back to an
\* earlier one.
PositionsAdvance ==
    [][\A j \in Joints : seen[j] =< seen'[j]]_vars

\* A step may mix the targets of a set in progress with older ones, but it never sends a
\* target older than the last set that had returned at the head of the loop, before the
\* positions for the step were gathered.
StepSeesFinishedSets == rpc = "send" => \A j \in Joints : targets[j] >= floor

\* A detach comes to an end even if the device never answers.
DetachReturns == upc = "join" ~> upc = "idle"

\* The thread runs only while a controller is attached.
ThreadHasController == rpc \notin {"none", "ended"} => controller # 0

================================================================================
