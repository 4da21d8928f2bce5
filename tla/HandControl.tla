------------------------------ MODULE HandControl ------------------------------
(***************************************************************************)
(* device::Hand (include/wujihandcpp/device/hand.hpp): the sequences of    *)
(* register writes that bring the hand up, attach a realtime controller    *)
(* and detach it, and the ControllerOperator objects whose destructor      *)
(* detaches.  A batch of writes on one latch is one step: each register is *)
(* confirmed by the device, or its write times out, with or without the    *)
(* device having taken the value, and then latch.wait() throws.            *)
(*                                                                         *)
(* The user thread makes one call at a time.  The hand is built without a  *)
(* mask: what a masked unit does to a latch is the subject of StorageUnit  *)
(* and BulkCalls.                                                          *)
(***************************************************************************)
EXTENDS Naturals, FiniteSets, Sequences

CONSTANTS
    Joints,
    Operators,  \* ids of controllers, and of the ControllerOperators made for them
    MaxFaults,  \* bound: reads and writes that time out
    MaxCalls    \* bound: calls that the user makes

ASSUME HandAssumption ==
    /\ IsFiniteSet(Joints)
    /\ Operators \subseteq Nat \ {0}
    /\ MaxFaults \in Nat /\ MaxCalls \in Nat

VARIABLES
    stored,     \* the storage units of joint::Enabled, as get reads them
    device,     \* the registers of the device
    attached,   \* realtime_controller_ of the handler, 0 = nullptr
    upstream,   \* enable_upstream of each controller
    operators,  \* the ControllerOperators whose controller_ is not null
    fresh,      \* ids not used yet
    todo,       \* the steps left of the call in progress
    caller,     \* who makes it, for which controller
    last_enabled,
    calls, faults,
    outcome,    \* history: "ok" if the last attach or detach ended without an exception
    unsure,     \* history: joints whose last write of Enabled timed out
    before,     \* history: stored when the attach or the detach began
    crossed     \* history: a second controller was asked for while one was attached, or
                \* one was detached from under its operator

memory == <<stored, device, faults, unsure>>
progress == <<todo, caller, operators>>
vars == <<memory, progress, attached, upstream, fresh, last_enabled, calls, outcome, before,
          crossed>>

--------------------------------------------------------------------------------
Enabled(j) == <<"Enabled", j>>
ControlMode(j) == <<"ControlMode", j>>
PdoEnabled == <<"PdoEnabled">>
TPdoId == <<"TPdoId">>
FirmwareVersion == <<"FirmwareVersion">>

EnabledOf(js) == {Enabled(j) : j \in js}
ControlModes == {ControlMode(j) : j \in Joints}
Registers == EnabledOf(Joints) \cup ControlModes \cup {PdoEnabled, TPdoId, FirmwareVersion}

Bit(b) == IF b THEN 1 ELSE 0
\* Functions of registers: the same value for all of rs, and f over g.
All(rs, v) == [r \in rs |-> v]
Over(f, g) == [r \in DOMAIN f \cup DOMAIN g |-> IF r \in DOMAIN f THEN f[r] ELSE g[r]]

EnableAll(js, v) == All(EnabledOf(js), v)
ModeAll(m) == All(ControlModes, m)

NoCaller == [kind |-> "user", id |-> 0]
Idle == todo = <<>>
At(step) == ~Idle /\ Head(todo) = step

ConstructSteps == <<"read", "write_disabled", "configure_idle">>

\* The device is as an earlier process left it.
Init ==
    /\ stored = [j \in Joints |-> 0]
    /\ \E js \in SUBSET Joints, m \in {5, 6}, p \in {0, 1}, f \in {2, 3} :
           device = [r \in Registers |-> CASE r \in EnabledOf(js) -> 1
                                          [] r \in ControlModes -> m
                                          [] r = PdoEnabled -> p
                                          [] r = FirmwareVersion -> f
                                          [] OTHER -> 0]
    /\ attached = 0 /\ upstream = [o \in Operators |-> FALSE]
    /\ operators = {} /\ fresh = Operators
    /\ todo = ConstructSteps
    /\ caller = [kind |-> "constructor", id |-> 0]
    /\ last_enabled = stored /\ outcome = "none" /\ before = stored
    /\ calls = 0 /\ faults = 0 /\ unsure = {} /\ crossed = FALSE

--------------------------------------------------------------------------------
\* The end of a step, and what an exception does: it ends the constructor, it terminates
\* the process in a destructor, and once realtime_controller has made its operator it
\* destroys that one first, which detaches.

Continue ==
    /\ todo' = IF Idle THEN todo ELSE Tail(todo)
    /\ caller' = IF todo' = <<>> THEN NoCaller ELSE caller
    /\ UNCHANGED <<operators, before>>

DetachSteps == <<"save_disable", "configure_detached", "revert_disabled", "handler_detach">>

Destroy(o) ==
    /\ operators' = operators \ {o}
    /\ todo' = DetachSteps
    /\ caller' = [kind |-> "destructor", id |-> o]
    /\ before' = stored'

Throw ==
    \/ /\ caller.kind \in {"constructor", "destructor"}
       /\ todo' = <<"dead">>
       /\ UNCHANGED <<caller, operators, before>>
    \/ /\ caller.kind = "user" /\ caller.id \in operators
       /\ Destroy(caller.id)
    \/ /\ caller.kind = "user" /\ caller.id \notin operators
       /\ todo' = <<>> /\ caller' = NoCaller
       /\ UNCHANGED <<operators, before>>

\* A batch of writes on one latch.  Those of lost time out, though those of taken among
\* them reach the device.
Apply(batch, lost, taken) ==
    Over([r \in DOMAIN batch \ (lost \ taken) |-> batch[r]], device)

Joints1(registers) == {j \in Joints : Enabled(j) \in registers}

Write(batch) ==
    \E lost \in SUBSET DOMAIN batch : \E taken \in SUBSET lost :
        /\ faults + Cardinality(lost) =< MaxFaults
        /\ faults' = faults + Cardinality(lost)
        /\ device' = Apply(batch, lost, taken)
        /\ stored' = [j \in Joints |->
                          IF Enabled(j) \in DOMAIN batch THEN batch[Enabled(j)] ELSE stored[j]]
        /\ unsure' = (unsure \ Joints1(DOMAIN batch)) \cup Joints1(lost)
        /\ IF lost = {} THEN Continue ELSE Throw

WriteStep(step, batch) ==
    /\ At(step)
    /\ Write(batch)
    /\ UNCHANGED <<attached, upstream, fresh, last_enabled, calls, outcome, crossed>>

\* save_and_enable_joints (v = 0) and save_and_disable_joints (v = 1): the joints whose
\* Enabled is stored as v are written the other way.
Save(step, v) ==
    /\ At(step)
    /\ last_enabled' = stored
    /\ Write(EnableAll({j \in Joints : stored[j] = v}, 1 - v))
    /\ UNCHANGED <<attached, upstream, fresh, calls, outcome, crossed>>

RevertAll(step, v) == WriteStep(step, EnableAll(Joints, v))

\* revert_enabled_joints (v = 0) and revert_disabled_joints (v = 1).
Revert(step, v) == WriteStep(step, EnableAll({j \in Joints : last_enabled[j] = v}, v))

Outdated == device[FirmwareVersion] < 3

\* read<FirmwareVersion> and read<ActualPosition>: nothing changes, but they can time out,
\* and the constructor refuses an outdated firmware.
Read ==
    /\ At("read")
    /\ UNCHANGED <<stored, device, unsure, attached, upstream, fresh, last_enabled, calls,
                   outcome, crossed>>
    /\ \/ /\ IF caller.kind = "constructor" /\ Outdated THEN Throw ELSE Continue
          /\ UNCHANGED faults
       \/ faults < MaxFaults /\ faults' = faults + 1 /\ Throw

\* The constructor writes CurrentLimit together with ControlMode.
Construct ==
    \/ WriteStep("write_disabled", EnableAll(Joints, 0))
    \/ WriteStep("configure_idle", ModeAll(6))

--------------------------------------------------------------------------------
\* Attaching and detaching.

AttachStepsSwapped ==
    <<"configure_attached", "save_disable", "revert_disabled", "handler_attach">>

AttachSteps == <<"save_disable", "configure_attached", "revert_disabled", "handler_attach">>

AttachedBatchOneWay(up) == Over(ModeAll(5), Over(All({PdoEnabled}, 1), All({TPdoId}, 0)))

AttachedBatch(up) == Over(ModeAll(5), Over(All({PdoEnabled}, 1), All({TPdoId}, Bit(up))))

DetachedBatch == Over(ModeAll(6), All({PdoEnabled}, 0))

Call(steps, o) ==
    /\ Idle /\ calls < MaxCalls
    /\ calls' = calls + 1
    /\ todo' = steps
    /\ caller' = [kind |-> "user", id |-> o]
    /\ before' = stored /\ outcome' = "begun"
    /\ UNCHANGED <<memory, operators, attached, last_enabled>>

StartAttach(steps) ==
    /\ \E o \in fresh, up \in BOOLEAN :
           /\ \A p \in fresh : o =< p
           /\ Call(steps, o)
           /\ fresh' = fresh \ {o}
           /\ upstream' = [upstream EXCEPT ![o] = up]
           /\ crossed' = (crossed \/ attached # 0)

\* attach_realtime_controller with a controller of the user's own.
UserAttach == StartAttach(AttachSteps)

ControllerSteps == <<"save_enable", "read", "revert_enabled", "make_operator">> \o AttachSteps

RealtimeController == StartAttach(ControllerSteps)

UserDetach ==
    /\ Call(DetachSteps, 0)
    /\ crossed' = (crossed \/ attached \in operators)
    /\ UNCHANGED <<fresh, upstream>>

DestroyOperator(o) ==
    /\ Idle
    /\ o \in operators
    /\ UNCHANGED <<memory, attached, upstream, fresh, last_enabled, calls, crossed>>
    /\ Destroy(o)
    /\ outcome' = "begun"

\* The controller and the operator with a pointer to it.
MakeOperator ==
    /\ At("make_operator")
    /\ todo' = Tail(todo)
    /\ operators' = operators \cup {caller.id}
    /\ UNCHANGED <<memory, caller, attached, upstream, fresh, last_enabled, calls, outcome,
                   before, crossed>>

\* Returning the operator without taking the pointer out of the local one: the local
\* detaches on its way out.
HandlerAttachCopying ==
    /\ At("handler_attach")
    /\ UNCHANGED <<memory, upstream, fresh, last_enabled, calls, crossed>>
    /\ IF attached = 0
       THEN /\ attached' = caller.id /\ outcome' = "ok"
            /\ IF caller.id \in operators
               THEN /\ todo' = DetachSteps
                    /\ caller' = [caller EXCEPT !.kind = "destructor"]
                    /\ UNCHANGED <<operators, before>>
               ELSE Continue
       ELSE Throw /\ UNCHANGED <<attached, outcome>>

\* A second controller is refused, and destroyed.
HandlerAttach ==
    /\ At("handler_attach")
    /\ UNCHANGED <<memory, upstream, fresh, last_enabled, calls, crossed>>
    /\ IF attached = 0
       THEN attached' = caller.id /\ outcome' = "ok" /\ Continue
       ELSE Throw /\ UNCHANGED <<attached, outcome>>

HandlerDetach ==
    /\ At("handler_detach")
    /\ UNCHANGED <<memory, upstream, fresh, last_enabled, calls, crossed>>
    /\ IF attached # 0
       THEN attached' = 0 /\ outcome' = "ok" /\ Continue
       ELSE Throw /\ UNCHANGED <<attached, outcome>>

\* A blocking write of Enabled, of a joint or of the whole hand.
UserEnables(js, v) ==
    /\ Idle /\ calls < MaxCalls
    /\ calls' = calls + 1
    /\ Write(EnableAll(js, v))
    /\ UNCHANGED <<attached, upstream, fresh, last_enabled, outcome, crossed>>

Sequence ==
    \/ Read \/ Construct
    \/ Save("save_enable", 0) \/ Revert("revert_enabled", 0)
    \/ MakeOperator
    \/ Save("save_disable", 1) \/ Revert("revert_disabled", 1)
    \/ WriteStep("configure_attached", AttachedBatch(upstream[caller.id]))
    \/ WriteStep("configure_detached", DetachedBatch)
    \/ HandlerAttach \/ HandlerDetach

Next ==
    \/ Sequence
    \/ RealtimeController \/ UserAttach \/ UserDetach
    \/ \E o \in operators : DestroyOperator(o)
    \/ \E j \in Joints, v \in {0, 1} : UserEnables({j}, v)

Spec == Init /\ [][Next]_vars

--------------------------------------------------------------------------------
\* Properties.

\* A joint is disabled when its control mode changes, save one whose last write of
\* Enabled timed out.
ModeChangesAtRest ==
    [][\A j \in Joints :
           device'[ControlMode(j)] # device[ControlMode(j)]
               => device[Enabled(j)] = 0 \/ j \in unsure]_vars

\* An attach or a detach that comes to its end has put Enabled back, on every joint, to
\* what it was at the beginning, though it went through two or four rounds of writes.
EnabledPutBack ==
    At("handler_attach") \/ At("handler_detach") =>
        /\ stored = before
        /\ \A j \in Joints \ unsure : device[Enabled(j)] = before[j]

\* When the last attach or detach ended well, the device is in the mode that the host is:
\* it streams to the controller that is attached, in the direction it was attached for.
DeviceFollowsHost ==
    Idle /\ outcome = "ok" =>
        /\ \A j \in Joints : device[ControlMode(j)] = IF attached = 0 THEN 6 ELSE 5
        /\ device[PdoEnabled] = Bit(attached # 0)
        /\ attached # 0 => device[TPdoId] = Bit(upstream[attached])

\* A ControllerOperator that can be used points to the controller that is attached,
\* unless a second one was asked for meanwhile or the user detached under the operator.
OperatorsAttached == Idle /\ ~crossed => operators \subseteq {attached}

\* When nothing timed out and the firmware is not outdated, the constructor does not throw,
\* and the process is terminated in one way only: calls were crossed, so that the controller
\* of an operator was never attached or is gone, and the operator's destructor finds nothing
\* to detach.
DeathExplained ==
    At("dead") /\ faults = 0 /\ ~Outdated =>
        crossed /\ caller.kind = "destructor" /\ attached = 0

\* The ends of a sequence.
Tails(s) == {SubSeq(s, k, Len(s)) : k \in 1..Len(s)}

\* What may be left of a call, and the step that ends it.
Plans ==
    {<<>>, <<"dead">>} \cup Tails(ConstructSteps) \cup Tails(ControllerSteps) \cup Tails(DetachSteps)

\* Each variable stays in its domain.
TypeOK ==
    /\ stored \in [Joints -> {0, 1}] /\ device \in [Registers -> Nat]
    /\ faults \in Nat /\ unsure \subseteq Joints
    /\ attached \in Operators \cup {0} /\ upstream \in [Operators -> BOOLEAN]
    /\ operators \subseteq Operators /\ fresh \subseteq Operators
    /\ todo \in Plans
    /\ caller \in [kind : {"user", "constructor", "destructor"}, id : Operators \cup {0}]
    /\ last_enabled \in [Joints -> {0, 1}] /\ before \in [Joints -> {0, 1}]
    /\ crossed \in BOOLEAN

================================================================================
