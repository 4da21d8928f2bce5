--------------------------- MODULE HandControl_proofs ---------------------------
(* Theorems about HandControl, for every finite set of joints, every supply of *)
(* controllers, and every number of calls and of timeouts.                     *)
EXTENDS HandControl, Integers, FiniteSetTheorems, SequenceTheorems, TLAPS

--------------------------------------------------------------------------------
\* The inductive invariant, part by part.

\* The step that ends the call in progress.
Goal == IF Idle THEN "none" ELSE todo[Len(todo)]

\* Who may be making which call.
CallerFits ==
    /\ Idle => caller = NoCaller
    /\ Goal = "configure_idle" => caller.kind = "constructor"
    /\ Goal = "handler_attach" => caller.kind = "user" /\ caller.id # 0
    /\ Goal = "handler_detach" => caller.kind = "destructor" \/ caller = NoCaller

\* The device knows what the host stored, save where a write timed out, from the first
\* round of writes on.
EnabledKnown ==
    At("dead") \/ At("write_disabled") \/ (At("read") /\ Goal = "configure_idle")
        \/ \A j \in Joints \ unsure : device[Enabled(j)] = stored[j]

\* Where Enabled stands between the rounds of writes of an attach or a detach.
EnabledSaved ==
    /\ Goal \in {"handler_attach", "handler_detach"} =>
          /\ \/ At("save_enable") \/ At("make_operator") \/ At("save_disable")
             \/ At("handler_attach") \/ At("handler_detach")
             => stored = before
          /\ At("read") \/ At("revert_enabled") =>
                last_enabled = before /\ \A j \in Joints : stored[j] = 1
          /\ At("configure_attached") \/ At("configure_detached") \/ At("revert_disabled") =>
                last_enabled = before /\ \A j \in Joints : stored[j] = 0
    /\ At("configure_idle") => \A j \in Joints : stored[j] = 0

\* The device streams to controller o, or to nobody.
StreamsTo(o) ==
    /\ \A j \in Joints : device[ControlMode(j)] = IF o = 0 THEN 6 ELSE 5
    /\ device[PdoEnabled] = Bit(o # 0)
    /\ o # 0 => device[TPdoId] = Bit(upstream[o])

Configured ==
    /\ At("revert_disabled") \/ At("handler_attach") \/ At("handler_detach") =>
          StreamsTo(IF Goal = "handler_attach" THEN caller.id ELSE 0)
    /\ outcome = "ok" => Idle /\ StreamsTo(attached)

\* Unless the calls were crossed: an attach finds nobody attached and no operator but its
\* own, a detach leaves no operator behind, and between calls the operator is that of the
\* controller attached.
OperatorsKnown ==
    ~crossed =>
        /\ Idle => operators \subseteq {attached}
        /\ Goal = "handler_attach" => attached = 0 /\ operators \subseteq {caller.id}
        /\ Goal \in {"configure_idle", "handler_detach"} => operators = {}
        /\ faults = 0 /\ Goal = "handler_detach" /\ caller.kind = "destructor" => attached # 0

IndInv ==
    /\ TypeOK /\ CallerFits /\ EnabledKnown /\ EnabledSaved /\ Configured /\ OperatorsKnown
    /\ DeathExplained

--------------------------------------------------------------------------------
\* Registers and batches of writes.

\* The registers of a joint are told apart from each other and from those of the hand.
LEMMA RegistersApart ==
    /\ \A j, k \in Joints : Enabled(j) = Enabled(k) => j = k
    /\ \A j \in Joints : Enabled(j) \notin ControlModes \cup {PdoEnabled, TPdoId, FirmwareVersion}
    /\ \A r \in ControlModes : r \notin {PdoEnabled, TPdoId, FirmwareVersion}
    /\ PdoEnabled # TPdoId /\ PdoEnabled # FirmwareVersion /\ TPdoId # FirmwareVersion
  <1>1. \A j, k \in Joints : /\ Enabled(j) = Enabled(k) => j = k
                             /\ Enabled(j) # ControlMode(k)
    BY DEF Enabled, ControlMode
  <1>2. \A j \in Joints : /\ Enabled(j) \notin {PdoEnabled, TPdoId, FirmwareVersion}
                          /\ ControlMode(j) \notin {PdoEnabled, TPdoId, FirmwareVersion}
    BY DEF Enabled, ControlMode, PdoEnabled, TPdoId, FirmwareVersion
  <1>3. PdoEnabled # TPdoId /\ PdoEnabled # FirmwareVersion /\ TPdoId # FirmwareVersion
    BY DEF PdoEnabled, TPdoId, FirmwareVersion
  <1> QED
    BY <1>1, <1>2, <1>3 DEF ControlModes

\* What a call may write: every value has a register, Enabled is a bit, and nobody writes
\* the version of the firmware.
Batch(b) ==
    /\ IsFiniteSet(DOMAIN b) /\ DOMAIN b \subseteq Registers \ {FirmwareVersion}
    /\ \A r \in DOMAIN b : b[r] \in Nat
    /\ \A j \in Joints : Enabled(j) \in DOMAIN b => b[Enabled(j)] \in {0, 1}

\* The batches of the calls are such.
LEMMA JointRegisters ==
    ASSUME NEW js \in SUBSET Joints
    PROVE  /\ IsFiniteSet(EnabledOf(js)) /\ IsFiniteSet(ControlModes)
           /\ EnabledOf(js) \subseteq Registers \ {FirmwareVersion}
           /\ \A j \in Joints : Enabled(j) \in EnabledOf(js) <=> j \in js
           /\ \A j \in Joints : ControlMode(j) \in ControlModes \ EnabledOf(js)
           /\ {PdoEnabled, TPdoId} \cap EnabledOf(js) = {}
  <1>1. IsFiniteSet(js) /\ IsFiniteSet(Joints)
    BY HandAssumption, FS_Subset
  <1>2. IsFiniteSet(EnabledOf(js))
    <2> DEFINE f == [j \in js |-> Enabled(j)]
    <2>1. f \in Surjection(js, EnabledOf(js))
      BY DEF Surjection, EnabledOf
    <2> QED
      BY <1>1, <2>1, FS_Surjection
  <1>3. IsFiniteSet(ControlModes)
    <2> DEFINE f == [j \in Joints |-> ControlMode(j)]
    <2>1. f \in Surjection(Joints, ControlModes)
      BY DEF Surjection, ControlModes
    <2> QED
      BY <1>1, <2>1, FS_Surjection
  <1> QED
    BY <1>2, <1>3, RegistersApart DEF Registers, EnabledOf, ControlModes

LEMMA EnableBatch ==
    ASSUME NEW js \in SUBSET Joints, NEW v \in {0, 1}
    PROVE  /\ Batch(EnableAll(js, v))
           /\ DOMAIN EnableAll(js, v) = EnabledOf(js)
           /\ \A r \in EnabledOf(js) : EnableAll(js, v)[r] = v
  BY JointRegisters DEF Batch, EnableAll, All

LEMMA ModeBatches ==
    ASSUME NEW up \in BOOLEAN
    PROVE  /\ Batch(ModeAll(6)) /\ DOMAIN ModeAll(6) = ControlModes
           /\ Batch(AttachedBatch(up))
           /\ DOMAIN AttachedBatch(up) = ControlModes \cup {PdoEnabled, TPdoId}
           /\ Batch(DetachedBatch) /\ DOMAIN DetachedBatch = ControlModes \cup {PdoEnabled}
           /\ \A r \in ControlModes : AttachedBatch(up)[r] = 5 /\ DetachedBatch[r] = 6
           /\ AttachedBatch(up)[PdoEnabled] = 1 /\ AttachedBatch(up)[TPdoId] = Bit(up)
           /\ DetachedBatch[PdoEnabled] = 0
  <1>1. /\ IsFiniteSet(ControlModes) /\ PdoEnabled \notin ControlModes /\ TPdoId \notin ControlModes
        /\ PdoEnabled # TPdoId /\ Bit(up) \in Nat /\ FirmwareVersion \notin ControlModes
        /\ FirmwareVersion # PdoEnabled /\ FirmwareVersion # TPdoId
        /\ \A j \in Joints : Enabled(j) \notin ControlModes \cup {PdoEnabled, TPdoId}
    BY RegistersApart, JointRegisters DEF Bit
  <1>2. IsFiniteSet(ControlModes \cup {PdoEnabled})
    BY <1>1, FS_AddElement
  <1>3. IsFiniteSet((ControlModes \cup {PdoEnabled}) \cup {TPdoId})
    BY <1>2, FS_AddElement
  <1>4. (ControlModes \cup {PdoEnabled}) \cup {TPdoId} = ControlModes \cup {PdoEnabled, TPdoId}
    OBVIOUS
  <1>5. DOMAIN ModeAll(6) = ControlModes /\ \A r \in ControlModes : ModeAll(6)[r] = 6
    BY DEF ModeAll, All
  <1>6. /\ DOMAIN AttachedBatch(up) = ControlModes \cup {PdoEnabled, TPdoId}
        /\ \A r \in ControlModes : AttachedBatch(up)[r] = 5
        /\ AttachedBatch(up)[PdoEnabled] = 1 /\ AttachedBatch(up)[TPdoId] = Bit(up)
    BY <1>1 DEF AttachedBatch, Over, ModeAll, All
  <1>7. /\ DOMAIN DetachedBatch = ControlModes \cup {PdoEnabled}
        /\ \A r \in ControlModes : DetachedBatch[r] = 6
        /\ DetachedBatch[PdoEnabled] = 0
    BY <1>1 DEF DetachedBatch, Over, ModeAll, All
  <1>8. Batch(ModeAll(6))
    BY <1>1, <1>5 DEF Batch, Registers
  <1>9. Batch(AttachedBatch(up))
    BY <1>1, <1>3, <1>4, <1>6 DEF Batch, Registers
  <1>10. Batch(DetachedBatch)
    BY <1>1, <1>2, <1>7 DEF Batch, Registers
  <1> QED
    BY <1>5, <1>6, <1>7, <1>8, <1>9, <1>10

\* What a batch of writes does: the other registers stay, a joint whose write did not time
\* out has what the host stored, and the call continues if nothing timed out.
LEMMA Written ==
    ASSUME TypeOK, NEW b, Batch(b), Write(b)
    PROVE  /\ stored' \in [Joints -> {0, 1}] /\ device' \in [Registers -> Nat]
           /\ faults' \in Nat /\ unsure' \subseteq Joints
           /\ \A j \in Joints : stored'[j] = IF Enabled(j) \in DOMAIN b THEN b[Enabled(j)]
                                                                       ELSE stored[j]
           /\ \A r \in Registers \ DOMAIN b : device'[r] = device[r]
           /\ \A j \in Joints \ unsure' :
                  \/ Enabled(j) \in DOMAIN b /\ device'[Enabled(j)] = stored'[j]
                  \/ /\ j \notin unsure /\ Enabled(j) \notin DOMAIN b
                     /\ device'[Enabled(j)] = device[Enabled(j)] /\ stored'[j] = stored[j]
           /\ \/ Continue /\ faults' = faults /\ \A r \in DOMAIN b : device'[r] = b[r]
              \/ Throw /\ faults' > 0
  <1>1. PICK lost \in SUBSET DOMAIN b, taken \in SUBSET DOMAIN b :
            /\ faults' = faults + Cardinality(lost)
            /\ device' = Apply(b, lost, taken)
            /\ stored' = [j \in Joints |->
                              IF Enabled(j) \in DOMAIN b THEN b[Enabled(j)] ELSE stored[j]]
            /\ unsure' = (unsure \ Joints1(DOMAIN b)) \cup Joints1(lost)
            /\ IF lost = {} THEN Continue ELSE Throw
    <2>1. PICK lost \in SUBSET DOMAIN b : \E taken \in SUBSET lost :
            /\ faults' = faults + Cardinality(lost)
            /\ device' = Apply(b, lost, taken)
            /\ stored' = [j \in Joints |->
                              IF Enabled(j) \in DOMAIN b THEN b[Enabled(j)] ELSE stored[j]]
            /\ unsure' = (unsure \ Joints1(DOMAIN b)) \cup Joints1(lost)
            /\ IF lost = {} THEN Continue ELSE Throw
      BY DEF Write
    <2> QED
      BY <2>1
  <1>2. IsFiniteSet(lost) /\ Cardinality(lost) \in Nat /\ (Cardinality(lost) = 0 <=> lost = {})
    BY <1>1, FS_Subset, FS_EmptySet, FS_CardinalityType DEF Batch
  <1> DEFINE D == DOMAIN b \ (lost \ taken)
  <1>3. /\ DOMAIN device = Registers /\ DOMAIN b \subseteq Registers
        /\ \A r \in Registers : device[r] \in Nat
    BY DEF TypeOK, Batch
  <1>4. device' = [r \in D \cup Registers |-> IF r \in D THEN b[r] ELSE device[r]]
    BY <1>1, <1>3 DEF Apply, Over
  <1>5. D \cup Registers = Registers
    BY <1>3
  <1>6. /\ device' \in [Registers -> Nat]
        /\ \A r \in Registers : device'[r] = IF r \in D THEN b[r] ELSE device[r]
    BY <1>3, <1>4, <1>5 DEF Batch
  <1>7. /\ stored' \in [Joints -> {0, 1}]
        /\ \A j \in Joints : stored'[j] = IF Enabled(j) \in DOMAIN b THEN b[Enabled(j)]
                                                                    ELSE stored[j]
    BY <1>1 DEF Batch, TypeOK
  <1>8. unsure' \subseteq Joints
    BY <1>1 DEF TypeOK, Joints1
  <1>9. ASSUME NEW j \in Joints \ unsure'
        PROVE  \/ Enabled(j) \in DOMAIN b /\ device'[Enabled(j)] = stored'[j]
               \/ /\ j \notin unsure /\ Enabled(j) \notin DOMAIN b
                  /\ device'[Enabled(j)] = device[Enabled(j)] /\ stored'[j] = stored[j]
    <2>1. Enabled(j) \notin lost /\ (j \notin unsure \/ Enabled(j) \in DOMAIN b)
      BY <1>1 DEF Joints1
    <2>2. Enabled(j) \in Registers
      BY DEF Registers, EnabledOf
    <2> QED
      BY <1>6, <1>7, <2>1, <2>2
  <1>10. CASE lost = {}
    <2>1. Continue /\ faults' = faults
      BY <1>1, <1>2, <1>10 DEF TypeOK
    <2>2. D = DOMAIN b
      BY <1>10
    <2>3. \A r \in DOMAIN b : device'[r] = b[r]
      BY <1>3, <1>6, <2>2
    <2> QED
      BY <1>3, <1>6, <1>7, <1>8, <1>9, <2>1, <2>3 DEF TypeOK
  <1>11. CASE lost # {}
    <2>1. Throw /\ faults' \in Nat /\ faults' > 0
      BY <1>1, <1>2, <1>11 DEF TypeOK
    <2> QED
      BY <1>3, <1>6, <1>7, <1>8, <1>9, <2>1
  <1> QED
    BY <1>10, <1>11

--------------------------------------------------------------------------------
\* The course of a call.

\* A suffix of a sequence begins with the step it is cut at, and ends as it ends.
LEMMA Suffix ==
    ASSUME NEW T, NEW s \in Seq(T), NEW k \in 1..Len(s), NEW t, t = SubSeq(s, k, Len(s))
    PROVE  /\ t # <<>> /\ Head(t) = s[k] /\ t[Len(t)] = s[Len(s)]
           /\ k = Len(s) => Tail(t) = <<>>
           /\ k < Len(s) => k + 1 \in 1..Len(s) /\ Tail(t) = SubSeq(s, k + 1, Len(s))
  <1>1. Len(s) \in Nat /\ k \in Int /\ Len(s) \in Int /\ \A i \in k..Len(s) : s[i] \in T
    OBVIOUS
  <1>2. /\ t \in Seq(T) /\ Len(t) = Len(s) - k + 1
        /\ \A i \in 1..(Len(s) - k + 1) : t[i] = s[k + i - 1]
    BY <1>1, SubSeqProperties
  <1>3. t # <<>> /\ Head(t) = t[1]
    <2>1. \A q \in Seq(T) : Len(q) >= 1 => q # <<>> /\ Head(q) = q[1]
      OBVIOUS
    <2>2. Len(t) >= 1
      BY <1>1, <1>2
    <2> QED
      BY <1>2, <2>1, <2>2
  <1>4. t[1] = s[k] /\ t[Len(t)] = s[Len(s)]
    <2> DEFINE n == Len(s)
               m == Len(t)
    <2>1. n \in Nat /\ k \in 1..n /\ m = n - k + 1 /\ \A i \in 1..(n - k + 1) : t[i] = s[k + i - 1]
      BY <1>1, <1>2
    <2> HIDE DEF n, m
    <2>2. 1 \in 1..(n - k + 1) /\ k + 1 - 1 = k
      BY <2>1
    <2>3. m \in 1..(n - k + 1) /\ k + m - 1 = n
      BY <2>1
    <2>4. t[1] = s[k] /\ t[m] = s[n]
      BY <2>1, <2>2, <2>3
    <2> QED
      BY <2>4 DEF n, m
  <1>5. ASSUME k = Len(s)
        PROVE  Tail(t) = <<>>
    BY <1>1, <1>2, <1>3, <1>5
  <1>6. ASSUME k < Len(s)
        PROVE  k + 1 \in 1..Len(s) /\ Tail(t) = SubSeq(s, k + 1, Len(s))
    <2>1. k + 1 \in 1..Len(s) /\ k + 1 \in Int /\ \A i \in (k + 1)..Len(s) : s[i] \in T
      BY <1>1, <1>6
    <2> DEFINE u == SubSeq(s, k + 1, Len(s))
    <2>2. /\ u \in Seq(T) /\ Len(u) = Len(s) - k
          /\ \A i \in 1..(Len(s) - k) : u[i] = s[k + i]
      <3>1. /\ u \in Seq(T) /\ Len(u) = Len(s) - (k + 1) + 1
            /\ \A i \in 1..(Len(s) - (k + 1) + 1) : u[i] = s[(k + 1) + i - 1]
        BY <1>1, <1>6, <2>1, SubSeqProperties
      <3> HIDE DEF u
      <3> QED
        BY <1>1, <3>1
    <2>3. /\ Tail(t) \in Seq(T) /\ Len(Tail(t)) = Len(s) - k
          /\ \A i \in 1..(Len(s) - k) : Tail(t)[i] = s[k + i]
      <3>1. /\ Tail(t) \in Seq(T) /\ Len(Tail(t)) = Len(t) - 1
            /\ \A i \in 1..Len(Tail(t)) : Tail(t)[i] = t[i + 1]
        BY <1>2, <1>3, HeadTailProperties
      <3> QED
        BY <1>1, <1>2, <3>1
    <2> HIDE DEF u
    <2>4. Tail(t) = u
      BY <2>2, <2>3, SeqEqual
    <2> QED
      BY <2>1, <2>4 DEF u
  <1> QED
    BY <1>3, <1>4, <1>5, <1>6

\* Step h comes next, with the same end.
Then(h) == /\ Tail(todo) \in Plans /\ Tail(todo) # <<>>
           /\ Head(Tail(todo)) = h /\ Tail(todo)[Len(Tail(todo))] = Goal

LEMMA PlanCourse ==
    ASSUME todo \in Plans, ~Idle, ~At("dead")
    PROVE  \E s \in {ConstructSteps, ControllerSteps, DetachSteps} : \E k \in 1..Len(s) :
               /\ Head(todo) = s[k] /\ Goal = s[Len(s)]
               /\ k = Len(s) => Tail(todo) = <<>>
               /\ k < Len(s) => Then(s[k + 1])
  <1>1. todo # <<"dead">>
    BY DEF At
  <1>2. PICK s \in {ConstructSteps, ControllerSteps, DetachSteps} : todo \in Tails(s)
    BY <1>1 DEF Plans, Idle
  <1>3. PICK k \in 1..Len(s) : todo = SubSeq(s, k, Len(s))
    BY <1>2 DEF Tails
  <1> DEFINE Names == {"read", "write_disabled", "configure_idle", "save_enable",
                       "revert_enabled", "make_operator", "save_disable", "configure_attached",
                       "configure_detached", "revert_disabled", "handler_attach",
                       "handler_detach"}
  <1>4. s \in Seq(Names)
    <2>1. ConstructSteps \in Seq(Names) /\ DetachSteps \in Seq(Names)
      BY DEF ConstructSteps, DetachSteps
    <2>2. ControllerSteps \in Seq(Names)
      BY DEF ControllerSteps, AttachSteps
    <2> QED
      BY <1>2, <2>1, <2>2
  <1>5. /\ Head(todo) = s[k] /\ Goal = s[Len(s)]
        /\ k = Len(s) => Tail(todo) = <<>>
        /\ k < Len(s) => k + 1 \in 1..Len(s) /\ Tail(todo) = SubSeq(s, k + 1, Len(s))
    BY <1>3, <1>4, Suffix DEF Goal
  <1>6. ASSUME k < Len(s)
        PROVE  Then(s[k + 1])
    <2>1. k + 1 \in 1..Len(s) /\ Tail(todo) = SubSeq(s, k + 1, Len(s))
      BY <1>5, <1>6
    <2>2. Tail(todo) \in Plans
      BY <1>2, <2>1 DEF Plans, Tails
    <2>3. /\ Tail(todo) # <<>> /\ Head(Tail(todo)) = s[k + 1]
          /\ Tail(todo)[Len(Tail(todo))] = s[Len(s)]
      <3> DEFINE m == k + 1
                 t == Tail(todo)
      <3>1. m \in 1..Len(s) /\ t = SubSeq(s, m, Len(s))
        BY <2>1
      <3> HIDE DEF m, t, Names
      <3>2. s \in Seq(Names)
        BY <1>4
      <3>3. t # <<>> /\ Head(t) = s[m] /\ t[Len(t)] = s[Len(s)]
        BY <3>1, <3>2, Suffix, Zenon
      <3> QED
        BY <3>3 DEF m, t
    <2> QED
      BY <1>5, <2>2, <2>3 DEF Then
  <1> QED
    BY <1>5, <1>6

\* The plans themselves.
LEMMA PlanSteps ==
    /\ Len(ConstructSteps) = 3 /\ ConstructSteps[1] = "read"
    /\ ConstructSteps[2] = "write_disabled" /\ ConstructSteps[3] = "configure_idle"
    /\ Len(DetachSteps) = 4 /\ DetachSteps[1] = "save_disable"
    /\ DetachSteps[2] = "configure_detached" /\ DetachSteps[3] = "revert_disabled"
    /\ DetachSteps[4] = "handler_detach"
    /\ Len(ControllerSteps) = 8 /\ ControllerSteps[1] = "save_enable"
    /\ ControllerSteps[2] = "read" /\ ControllerSteps[3] = "revert_enabled"
    /\ ControllerSteps[4] = "make_operator" /\ ControllerSteps[5] = "save_disable"
    /\ ControllerSteps[6] = "configure_attached" /\ ControllerSteps[7] = "revert_disabled"
    /\ ControllerSteps[8] = "handler_attach"
  <1>1. /\ Len(ConstructSteps) = 3 /\ ConstructSteps[1] = "read"
        /\ ConstructSteps[2] = "write_disabled" /\ ConstructSteps[3] = "configure_idle"
    BY DEF ConstructSteps
  <1>2. /\ Len(DetachSteps) = 4 /\ DetachSteps[1] = "save_disable"
        /\ DetachSteps[2] = "configure_detached" /\ DetachSteps[3] = "revert_disabled"
        /\ DetachSteps[4] = "handler_detach"
    BY DEF DetachSteps
  <1>3. /\ Len(ControllerSteps) = 8 /\ ControllerSteps[1] = "save_enable"
        /\ ControllerSteps[2] = "read" /\ ControllerSteps[3] = "revert_enabled"
        /\ ControllerSteps[4] = "make_operator" /\ ControllerSteps[5] = "save_disable"
        /\ ControllerSteps[6] = "configure_attached" /\ ControllerSteps[7] = "revert_disabled"
        /\ ControllerSteps[8] = "handler_attach"
    BY DEF ControllerSteps, AttachSteps
  <1> QED
    BY <1>1, <1>2, <1>3

\* Which step follows which, and to what end.
LEMMA Course ==
    ASSUME todo \in Plans, ~Idle, ~At("dead")
    PROVE  \/ At("read") /\ Goal = "configure_idle" /\ Then("write_disabled")
           \/ At("write_disabled") /\ Goal = "configure_idle" /\ Then("configure_idle")
           \/ At("configure_idle") /\ Goal = "configure_idle" /\ Tail(todo) = <<>>
           \/ At("save_enable") /\ Goal = "handler_attach" /\ Then("read")
           \/ At("read") /\ Goal = "handler_attach" /\ Then("revert_enabled")
           \/ At("revert_enabled") /\ Goal = "handler_attach" /\ Then("make_operator")
           \/ At("make_operator") /\ Goal = "handler_attach" /\ Then("save_disable")
           \/ At("save_disable") /\ Goal = "handler_attach" /\ Then("configure_attached")
           \/ At("configure_attached") /\ Goal = "handler_attach" /\ Then("revert_disabled")
           \/ At("revert_disabled") /\ Goal = "handler_attach" /\ Then("handler_attach")
           \/ At("handler_attach") /\ Goal = "handler_attach" /\ Tail(todo) = <<>>
           \/ At("save_disable") /\ Goal = "handler_detach" /\ Then("configure_detached")
           \/ At("configure_detached") /\ Goal = "handler_detach" /\ Then("revert_disabled")
           \/ At("revert_disabled") /\ Goal = "handler_detach" /\ Then("handler_detach")
           \/ At("handler_detach") /\ Goal = "handler_detach" /\ Tail(todo) = <<>>
  <1>1. PICK s \in {ConstructSteps, ControllerSteps, DetachSteps} : \E k \in 1..Len(s) :
            /\ Head(todo) = s[k] /\ Goal = s[Len(s)]
            /\ k = Len(s) => Tail(todo) = <<>>
            /\ k < Len(s) => Then(s[k + 1])
    BY PlanCourse
  <1>2. PICK k \in 1..Len(s) :
            /\ Head(todo) = s[k] /\ Goal = s[Len(s)]
            /\ k = Len(s) => Tail(todo) = <<>>
            /\ k < Len(s) => Then(s[k + 1])
    BY <1>1
  <1>3. CASE s = ConstructSteps
    BY <1>2, <1>3, PlanSteps DEF At
  <1>4. CASE s = DetachSteps
    BY <1>2, <1>4, PlanSteps DEF At
  <1>5. CASE s = ControllerSteps
    <2>1. k \in 1..8
      BY <1>5, PlanSteps
    <2>2. CASE k \in 1..4
      BY <1>2, <1>5, <2>2, PlanSteps DEF At
    <2>3. CASE k \in 5..8
      BY <1>2, <1>5, <2>3, PlanSteps DEF At
    <2> QED
      BY <2>1, <2>2, <2>3
  <1> QED
    BY <1>1, <1>3, <1>4, <1>5

\* Where a call begins, and where one is when it has ended.
LEMMA Entry ==
    /\ <<>> \in Plans /\ <<"dead">> \in Plans
    /\ <<"dead">> # <<>> /\ Head(<<"dead">>) = "dead" /\ <<"dead">>[Len(<<"dead">>)] = "dead"
    /\ ConstructSteps \in Plans /\ ConstructSteps # <<>> /\ Head(ConstructSteps) = "read"
    /\ ConstructSteps[Len(ConstructSteps)] = "configure_idle"
    /\ ControllerSteps \in Plans /\ ControllerSteps # <<>> /\ Head(ControllerSteps) = "save_enable"
    /\ ControllerSteps[Len(ControllerSteps)] = "handler_attach"
    /\ AttachSteps \in Plans /\ AttachSteps # <<>> /\ Head(AttachSteps) = "save_disable"
    /\ AttachSteps[Len(AttachSteps)] = "handler_attach"
    /\ DetachSteps \in Plans /\ DetachSteps # <<>> /\ Head(DetachSteps) = "save_disable"
    /\ DetachSteps[Len(DetachSteps)] = "handler_detach"
  <1>1. /\ <<"dead">> # <<>> /\ Head(<<"dead">>) = "dead" /\ <<"dead">>[Len(<<"dead">>)] = "dead"
        /\ <<>> \in Plans /\ <<"dead">> \in Plans
    BY DEF Plans
  <1>2. /\ ConstructSteps # <<>> /\ Head(ConstructSteps) = "read"
        /\ ConstructSteps[Len(ConstructSteps)] = "configure_idle"
        /\ ConstructSteps = SubSeq(ConstructSteps, 1, Len(ConstructSteps))
    BY DEF ConstructSteps
  <1>3. /\ ControllerSteps # <<>> /\ Head(ControllerSteps) = "save_enable"
        /\ ControllerSteps[Len(ControllerSteps)] = "handler_attach"
        /\ ControllerSteps = SubSeq(ControllerSteps, 1, Len(ControllerSteps))
    BY DEF ControllerSteps, AttachSteps
  <1>4. /\ DetachSteps # <<>> /\ Head(DetachSteps) = "save_disable"
        /\ DetachSteps[Len(DetachSteps)] = "handler_detach"
        /\ DetachSteps = SubSeq(DetachSteps, 1, Len(DetachSteps))
    BY DEF DetachSteps
  <1>5. /\ AttachSteps # <<>> /\ Head(AttachSteps) = "save_disable"
        /\ AttachSteps[Len(AttachSteps)] = "handler_attach"
        /\ AttachSteps = SubSeq(ControllerSteps, 5, Len(ControllerSteps))
    BY DEF ControllerSteps, AttachSteps
  <1>6. /\ 1 \in 1..Len(ConstructSteps) /\ 1 \in 1..Len(ControllerSteps)
        /\ 5 \in 1..Len(ControllerSteps) /\ 1 \in 1..Len(DetachSteps)
    BY PlanSteps
  <1>7. /\ ConstructSteps \in Plans /\ ControllerSteps \in Plans
        /\ DetachSteps \in Plans /\ AttachSteps \in Plans
    BY <1>2, <1>3, <1>4, <1>5, <1>6 DEF Plans, Tails
  <1> QED
    BY <1>1, <1>2, <1>3, <1>4, <1>5, <1>7

LEMMA Ends ==
    ASSUME todo' \in {<<>>, <<"dead">>, DetachSteps}
    PROVE  /\ todo' \in Plans
           /\ todo' = <<>> => Idle' /\ Goal' = "none" /\ ~At("dead")'
           /\ todo' = <<"dead">> => ~Idle' /\ Goal' = "dead" /\ At("dead")'
           /\ todo' = DetachSteps => ~Idle' /\ Goal' = "handler_detach" /\ At("save_disable")'
  BY Entry DEF Idle, Goal, At

\* What an exception leaves, given what its step did to the registers.
LEMMA Thrown ==
    ASSUME IndInv, Throw, ~At("dead"),
           stored' \in [Joints -> {0, 1}], device' \in [Registers -> Nat],
           faults' \in Nat, unsure' \subseteq Joints, last_enabled' \in [Joints -> {0, 1}],
           UNCHANGED <<attached, upstream, fresh, outcome, crossed>>,
           outcome = "ok" => StreamsTo(attached)',
           ~crossed /\ caller # NoCaller =>
               faults' > 0 \/ (caller.kind = "constructor" /\ Outdated'),
           caller # NoCaller /\ caller.kind # "user" =>
               faults' > 0 \/ Outdated' \/ (caller.kind = "destructor" /\ attached = 0),
           Goal # "configure_idle" =>
               \A j \in Joints \ unsure' : device'[Enabled(j)] = stored'[j]
    PROVE  IndInv'
  <1>1. /\ TypeOK /\ CallerFits /\ Configured /\ OperatorsKnown
        /\ todo \in Plans /\ operators \subseteq Operators
        /\ caller \in [kind : {"user", "constructor", "destructor"}, id : Operators \cup {0}]
        /\ 0 \notin Operators
    BY HandAssumption DEF IndInv, TypeOK
  <1>2. Idle => caller = NoCaller /\ caller.kind = "user" /\ caller.id = 0
    BY <1>1 DEF CallerFits, NoCaller
  <1>3. ~Idle => outcome # "ok"
    BY <1>1 DEF Configured
  <1>4. ~Idle => Goal \in {"configure_idle", "handler_attach", "handler_detach"}
    BY <1>1, Course
  <1>5. CASE caller.kind \in {"constructor", "destructor"} /\ todo' = <<"dead">>
             /\ UNCHANGED <<caller, operators, before>>
    <2>1. ~Idle' /\ Goal' = "dead" /\ At("dead")' /\ todo' \in Plans
      BY <1>5, Ends
    <2>2. caller # NoCaller /\ outcome' # "ok"
      BY <1>2, <1>3, <1>5 DEF NoCaller
    <2>3. TypeOK'
      BY <1>1, <1>5, <2>1 DEF TypeOK
    <2>4. CallerFits' /\ EnabledKnown' /\ OperatorsKnown'
      BY <2>1 DEF CallerFits, EnabledKnown, OperatorsKnown
    <2>5. EnabledSaved' /\ Configured'
      BY <2>1, <2>2 DEF EnabledSaved, Configured, At
    <2>6. DeathExplained'
      BY <1>1, <1>5, <2>2 DEF DeathExplained
    <2> QED
      BY <2>3, <2>4, <2>5, <2>6 DEF IndInv
  <1>6. CASE caller.kind = "user" /\ caller.id \in operators /\ Destroy(caller.id)
    <2>1. /\ ~Idle' /\ Goal' = "handler_detach" /\ At("save_disable")' /\ todo' \in Plans
          /\ operators' = operators \ {caller.id} /\ before' = stored'
          /\ caller' = [kind |-> "destructor", id |-> caller.id]
      BY <1>6, Ends DEF Destroy
    <2>2. caller.id # 0 /\ caller # NoCaller /\ Goal = "handler_attach" /\ outcome' # "ok"
      BY <1>1, <1>2, <1>3, <1>4, <1>6 DEF CallerFits, NoCaller
    <2>3. TypeOK'
      BY <1>1, <2>1 DEF TypeOK
    <2>4. CallerFits' /\ EnabledKnown' /\ EnabledSaved'
      BY <2>1, <2>2 DEF CallerFits, EnabledKnown, EnabledSaved, At
    <2>5. Configured' /\ DeathExplained'
      BY <2>1, <2>2 DEF Configured, DeathExplained, At
    <2>6. OperatorsKnown'
      <3>1. ~crossed => operators' = {} /\ faults' # 0
        BY <1>1, <1>6, <2>1, <2>2 DEF OperatorsKnown
      <3> QED
        BY <2>1, <3>1 DEF OperatorsKnown
    <2> QED
      BY <2>3, <2>4, <2>5, <2>6 DEF IndInv
  <1>7. CASE /\ caller.kind = "user" /\ caller.id \notin operators
             /\ todo' = <<>> /\ caller' = NoCaller
             /\ UNCHANGED <<operators, before>>
    <2>1. Idle' /\ Goal' = "none" /\ ~At("dead")' /\ todo' \in Plans
      BY <1>7, Ends
    <2>2. Goal # "configure_idle"
      BY <1>1, <1>7 DEF CallerFits
    <2>3. TypeOK'
      BY <1>1, <1>7, <2>1 DEF TypeOK, NoCaller
    <2>4. CallerFits' /\ EnabledKnown'
      BY <1>7, <2>1, <2>2 DEF CallerFits, EnabledKnown
    <2>5. EnabledSaved' /\ Configured' /\ DeathExplained'
      BY <2>1 DEF EnabledSaved, Configured, DeathExplained, At
    <2>6. OperatorsKnown'
      <3>1. ~crossed => operators \subseteq {attached}
        BY <1>1, <1>4, <1>7, <2>2 DEF OperatorsKnown
      <3> QED
        BY <1>7, <2>1, <3>1 DEF OperatorsKnown
    <2> QED
      BY <2>3, <2>4, <2>5, <2>6 DEF IndInv
  <1> QED
    BY <1>5, <1>6, <1>7 DEF Throw

\* A step that goes on to step h of the same call.
LEMMA Advanced ==
    ASSUME IndInv, ~Idle, NEW h, Then(h), h # "dead",
           todo' = Tail(todo), caller' = caller, before' = before,
           stored' \in [Joints -> {0, 1}], device' \in [Registers -> Nat],
           faults' \in Nat, unsure' \subseteq Joints, last_enabled' \in [Joints -> {0, 1}],
           UNCHANGED <<attached, upstream, fresh, outcome, crossed>>,
           operators' \subseteq Operators,
           operators' = operators \/ (Goal = "handler_attach" /\ operators' = operators \cup {caller.id}),
           faults' = faults
    PROVE  /\ TypeOK' /\ CallerFits' /\ OperatorsKnown' /\ DeathExplained'
           /\ Head(todo)' = h /\ ~Idle' /\ Goal' = Goal /\ outcome' # "ok"
  <1>1. Head(todo)' = h /\ ~Idle' /\ Goal' = Goal /\ todo' \in Plans
    BY DEF Then, Goal, Idle
  <1>2. TypeOK /\ CallerFits /\ Configured /\ OperatorsKnown
    BY DEF IndInv
  <1>3. TypeOK'
    BY <1>1, <1>2 DEF TypeOK
  <1>4. CallerFits'
    BY <1>1, <1>2 DEF CallerFits
  <1>5. OperatorsKnown'
    BY <1>1, <1>2 DEF OperatorsKnown
  <1>6. DeathExplained'
    BY <1>1 DEF DeathExplained, At
  <1> QED
    BY <1>1, <1>2, <1>3, <1>4, <1>5, <1>6 DEF Configured

\* A round of writes in a call: it throws, or all of it has arrived and the call goes on.
LEMMA Round ==
    ASSUME IndInv, ~Idle, ~At("dead"), ~At("read"), NEW b, Batch(b), Write(b),
           last_enabled' \in [Joints -> {0, 1}],
           UNCHANGED <<attached, upstream, fresh, outcome, crossed>>,
           At("write_disabled") => b = EnableAll(Joints, 0)
    PROVE  \/ IndInv'
           \/ /\ Continue /\ faults' = faults /\ \A r \in DOMAIN b : device'[r] = b[r]
              /\ \A r \in Registers \ DOMAIN b : device'[r] = device[r]
              /\ \A j \in Joints : stored'[j] = IF Enabled(j) \in DOMAIN b THEN b[Enabled(j)]
                                                                          ELSE stored[j]
              /\ stored' \in [Joints -> {0, 1}] /\ device' \in [Registers -> Nat]
              /\ faults' \in Nat /\ unsure' \subseteq Joints
              /\ \A j \in Joints \ unsure' : device'[Enabled(j)] = stored'[j]
  <1>1. TypeOK /\ Configured /\ EnabledKnown /\ todo \in Plans
    BY DEF IndInv, TypeOK
  <1>2. outcome # "ok"
    BY <1>1 DEF Configured
  <1>3. /\ stored' \in [Joints -> {0, 1}] /\ device' \in [Registers -> Nat]
        /\ faults' \in Nat /\ unsure' \subseteq Joints
        /\ \A j \in Joints : stored'[j] = IF Enabled(j) \in DOMAIN b THEN b[Enabled(j)]
                                                                    ELSE stored[j]
        /\ \A r \in Registers \ DOMAIN b : device'[r] = device[r]
        /\ \A j \in Joints \ unsure' :
               \/ Enabled(j) \in DOMAIN b /\ device'[Enabled(j)] = stored'[j]
               \/ /\ j \notin unsure /\ Enabled(j) \notin DOMAIN b
                  /\ device'[Enabled(j)] = device[Enabled(j)] /\ stored'[j] = stored[j]
        /\ \/ Continue /\ faults' = faults /\ \A r \in DOMAIN b : device'[r] = b[r]
           \/ Throw /\ faults' > 0
    BY <1>1, Written
  <1>4. \A j \in Joints \ unsure' : device'[Enabled(j)] = stored'[j]
    <2>1. CASE At("write_disabled")
      <3>1. \A j \in Joints : Enabled(j) \in DOMAIN b
        BY <2>1, EnableBatch, JointRegisters
      <3> QED
        BY <1>3, <3>1
    <2>2. CASE ~At("write_disabled")
      BY <1>1, <1>3, <2>2 DEF EnabledKnown
    <2> QED
      BY <2>1, <2>2
  <1>5. CASE Throw /\ faults' > 0
    BY <1>2, <1>3, <1>4, <1>5, Thrown
  <1> QED
    BY <1>3, <1>4, <1>5

\* The constructor.
LEMMA ConstructStep ==
    ASSUME IndInv, Construct
    PROVE  IndInv'
  <1>1. TypeOK /\ CallerFits /\ Configured /\ OperatorsKnown /\ todo \in Plans
    BY DEF IndInv, TypeOK
  <1>2. CASE WriteStep("write_disabled", EnableAll(Joints, 0))
    <2> DEFINE b == EnableAll(Joints, 0)
    <2>1. /\ At("write_disabled") /\ ~Idle /\ ~At("dead") /\ ~At("read") /\ Write(b) /\ Batch(b)
          /\ UNCHANGED <<attached, upstream, fresh, last_enabled, outcome, crossed>>
      BY <1>2, EnableBatch DEF WriteStep, At
    <2>2. Goal = "configure_idle" /\ Then("configure_idle")
      BY <1>1, <2>1, Course DEF At
    <2>3. last_enabled' \in [Joints -> {0, 1}]
      BY <1>1, <2>1 DEF TypeOK
    <2>4. SUFFICES ASSUME ~IndInv'
                   PROVE  IndInv'
      OBVIOUS
    <2>5. /\ Continue /\ faults' = faults
          /\ \A j \in Joints : stored'[j] = IF Enabled(j) \in DOMAIN b THEN b[Enabled(j)]
                                                                      ELSE stored[j]
          /\ stored' \in [Joints -> {0, 1}] /\ device' \in [Registers -> Nat]
          /\ faults' \in Nat /\ unsure' \subseteq Joints
          /\ \A j \in Joints \ unsure' : device'[Enabled(j)] = stored'[j]
      BY <2>1, <2>3, <2>4, Round
    <2>6. \A j \in Joints : stored'[j] = 0
      BY <2>5, EnableBatch, JointRegisters
    <2>7. todo' = Tail(todo) /\ caller' = caller /\ UNCHANGED <<operators, before>>
      BY <2>1, <2>2, <2>5 DEF Continue, Then
    <2>8. /\ TypeOK' /\ CallerFits' /\ OperatorsKnown' /\ DeathExplained'
          /\ Head(todo)' = "configure_idle" /\ ~Idle' /\ Goal' = "configure_idle" /\ outcome' # "ok"
      BY <1>1, <2>1, <2>2, <2>3, <2>5, <2>7, Advanced DEF TypeOK
    <2>9. EnabledKnown' /\ EnabledSaved' /\ Configured'
      BY <2>5, <2>6, <2>8 DEF EnabledKnown, EnabledSaved, Configured, At
    <2> QED
      BY <2>8, <2>9 DEF IndInv
  <1>3. CASE WriteStep("configure_idle", ModeAll(6))
    <2> DEFINE b == ModeAll(6)
    <2>1. /\ At("configure_idle") /\ ~Idle /\ ~At("dead") /\ ~At("read") /\ ~At("write_disabled")
          /\ Write(b) /\ Batch(b)
          /\ UNCHANGED <<attached, upstream, fresh, last_enabled, outcome, crossed>>
      BY <1>3, ModeBatches DEF WriteStep, At
    <2>2. Goal = "configure_idle" /\ Tail(todo) = <<>>
      BY <1>1, <2>1, Course DEF At
    <2>3. last_enabled' \in [Joints -> {0, 1}]
      BY <1>1, <2>1 DEF TypeOK
    <2>4. SUFFICES ASSUME ~IndInv'
                   PROVE  IndInv'
      OBVIOUS
    <2>5. /\ Continue /\ faults' = faults
          /\ stored' \in [Joints -> {0, 1}] /\ device' \in [Registers -> Nat]
          /\ faults' \in Nat /\ unsure' \subseteq Joints
          /\ \A j \in Joints \ unsure' : device'[Enabled(j)] = stored'[j]
      BY <2>1, <2>3, <2>4, Round
    <2>6. /\ todo' = <<>> /\ caller' = NoCaller /\ UNCHANGED <<operators, before>>
          /\ Idle' /\ Goal' = "none" /\ ~At("dead")' /\ todo' \in Plans
      BY <2>1, <2>2, <2>5, Ends DEF Continue
    <2>7. outcome' # "ok"
      BY <1>1, <2>1 DEF Configured
    <2>8. TypeOK' /\ CallerFits'
      BY <1>1, <2>1, <2>5, <2>6 DEF TypeOK, CallerFits, NoCaller
    <2>9. EnabledKnown' /\ EnabledSaved' /\ Configured' /\ DeathExplained'
      BY <2>5, <2>6, <2>7 DEF EnabledKnown, EnabledSaved, Configured, DeathExplained, At
    <2>10. OperatorsKnown'
      BY <1>1, <2>1, <2>2, <2>6 DEF OperatorsKnown
    <2> QED
      BY <2>8, <2>9, <2>10 DEF IndInv
  <1> QED
    BY <1>2, <1>3 DEF Construct

\* Saving: Enabled is written to the same value v on every joint.
LEMMA SaveStep ==
    ASSUME IndInv, NEW step, NEW v \in {0, 1}, Save(step, v),
           (step = "save_enable" /\ v = 0) \/ (step = "save_disable" /\ v = 1)
    PROVE  IndInv'
  <1>1. TypeOK /\ CallerFits /\ EnabledSaved /\ todo \in Plans
    BY DEF IndInv, TypeOK
  <1> DEFINE js == {j \in Joints : stored[j] = v}
             b == EnableAll(js, 1 - v)
  <1>2. /\ At(step) /\ ~Idle /\ ~At("dead") /\ ~At("read") /\ ~At("write_disabled")
        /\ last_enabled' = stored /\ Write(b)
        /\ UNCHANGED <<attached, upstream, fresh, outcome, crossed>>
    BY DEF Save, At
  <1>3. 1 - v \in {0, 1} /\ js \in SUBSET Joints
    OBVIOUS
  <1>4. /\ Batch(b) /\ DOMAIN b = EnabledOf(js) /\ \A r \in EnabledOf(js) : b[r] = 1 - v
        /\ \A j \in Joints : Enabled(j) \in EnabledOf(js) <=> stored[j] = v
    BY <1>3, EnableBatch, JointRegisters
  <1> HIDE DEF b
  <1>5. PICK h \in {"read", "configure_attached", "configure_detached"} :
            /\ Goal \in {"handler_attach", "handler_detach"} /\ Then(h)
            /\ h = "read" <=> v = 0
            /\ h = "read" => Goal = "handler_attach"
    BY <1>1, <1>2, Course DEF At
  <1>6. last_enabled' \in [Joints -> {0, 1}] /\ last_enabled' = before
    BY <1>1, <1>2, <1>5 DEF EnabledSaved, TypeOK
  <1>7. SUFFICES ASSUME ~IndInv'
                 PROVE  IndInv'
    OBVIOUS
  <1>8. /\ Continue /\ faults' = faults
        /\ \A j \in Joints : stored'[j] = IF Enabled(j) \in DOMAIN b THEN b[Enabled(j)]
                                                                    ELSE stored[j]
        /\ stored' \in [Joints -> {0, 1}] /\ device' \in [Registers -> Nat]
        /\ faults' \in Nat /\ unsure' \subseteq Joints
        /\ \A j \in Joints \ unsure' : device'[Enabled(j)] = stored'[j]
    BY <1>2, <1>4, <1>6, <1>7, Round
  <1>9. \A j \in Joints : stored'[j] = 1 - v
    <2> TAKE j \in Joints
    <2>1. stored[j] \in {0, 1}
      BY <1>1 DEF TypeOK
    <2>2. stored'[j] = IF stored[j] = v THEN 1 - v ELSE stored[j]
      BY <1>4, <1>8
    <2> QED
      BY <2>1, <2>2
  <1>10. todo' = Tail(todo) /\ caller' = caller /\ UNCHANGED <<operators, before>>
    BY <1>2, <1>5, <1>8 DEF Continue, Then
  <1>11. /\ TypeOK' /\ CallerFits' /\ OperatorsKnown' /\ DeathExplained'
         /\ Head(todo)' = h /\ ~Idle' /\ Goal' = Goal /\ outcome' # "ok"
    BY <1>1, <1>2, <1>5, <1>6, <1>8, <1>10, Advanced DEF TypeOK
  <1>12. EnabledKnown' /\ Configured'
    BY <1>5, <1>8, <1>11 DEF EnabledKnown, Configured, At
  <1>13. EnabledSaved'
    <2>1. last_enabled' = before'
      BY <1>6, <1>10
    <2>2. h = "read" => \A j \in Joints : stored'[j] = 1
      BY <1>5, <1>9
    <2>3. h # "read" => \A j \in Joints : stored'[j] = 0
      BY <1>5, <1>9
    <2> QED
      BY <1>11, <2>1, <2>2, <2>3 DEF EnabledSaved, At
  <1> QED
    BY <1>11, <1>12, <1>13 DEF IndInv

\* The mode of the device is kept by whatever leaves its registers alone.
LEMMA StreamsKept ==
    ASSUME NEW o \in Operators \cup {0}, StreamsTo(o), upstream' = upstream,
           \A r \in ControlModes \cup {PdoEnabled, TPdoId} : device'[r] = device[r]
    PROVE  StreamsTo(o)'
  <1>1. \A j \in Joints : ControlMode(j) \in ControlModes
    BY DEF ControlModes
  <1> QED
    BY <1>1 DEF StreamsTo

LEMMA JointsUntouched ==
    ASSUME NEW js \in SUBSET Joints, NEW b, DOMAIN b = EnabledOf(js),
           \A r \in Registers \ DOMAIN b : device'[r] = device[r]
    PROVE  \A r \in ControlModes \cup {PdoEnabled, TPdoId} : device'[r] = device[r]
  <1>1. ControlModes \cup {PdoEnabled, TPdoId} \subseteq Registers
    BY DEF Registers
  <1>2. (ControlModes \cup {PdoEnabled, TPdoId}) \cap EnabledOf(js) = {}
    BY RegistersApart DEF EnabledOf
  <1> QED
    BY <1>1, <1>2

\* Reverting: the joints that were saved as v are written v, and Enabled is on every joint
\* what it was when the call began.
LEMMA RevertStep ==
    ASSUME IndInv, NEW step, NEW v \in {0, 1}, Revert(step, v),
           (step = "revert_enabled" /\ v = 0) \/ (step = "revert_disabled" /\ v = 1)
    PROVE  IndInv'
  <1>1. TypeOK /\ CallerFits /\ EnabledSaved /\ Configured /\ todo \in Plans
    BY DEF IndInv, TypeOK
  <1> DEFINE js == {j \in Joints : last_enabled[j] = v}
             b == EnableAll(js, v)
  <1>2. /\ At(step) /\ ~Idle /\ ~At("dead") /\ ~At("read") /\ ~At("write_disabled")
        /\ last_enabled' = last_enabled /\ Write(b)
        /\ UNCHANGED <<attached, upstream, fresh, outcome, crossed>>
    BY DEF Revert, WriteStep, At
  <1>3. js \in SUBSET Joints
    OBVIOUS
  <1>4. /\ Batch(b) /\ DOMAIN b = EnabledOf(js) /\ \A r \in EnabledOf(js) : b[r] = v
        /\ \A j \in Joints : Enabled(j) \in EnabledOf(js) <=> last_enabled[j] = v
    BY <1>3, EnableBatch, JointRegisters
  <1> HIDE DEF b
  <1>5. PICK h \in {"make_operator", "handler_attach", "handler_detach"} :
            /\ Goal \in {"handler_attach", "handler_detach"} /\ Then(h)
            /\ h # "make_operator" => At("revert_disabled")
    BY <1>1, <1>2, Course DEF At
  <1>6. /\ last_enabled' \in [Joints -> {0, 1}] /\ last_enabled = before
        /\ \A j \in Joints : stored[j] = 1 - v
    BY <1>1, <1>2, <1>5 DEF EnabledSaved, TypeOK
  <1>7. SUFFICES ASSUME ~IndInv'
                 PROVE  IndInv'
    OBVIOUS
  <1>8. /\ Continue /\ faults' = faults
        /\ \A j \in Joints : stored'[j] = IF Enabled(j) \in DOMAIN b THEN b[Enabled(j)]
                                                                    ELSE stored[j]
        /\ \A r \in Registers \ DOMAIN b : device'[r] = device[r]
        /\ stored' \in [Joints -> {0, 1}] /\ device' \in [Registers -> Nat]
        /\ faults' \in Nat /\ unsure' \subseteq Joints
        /\ \A j \in Joints \ unsure' : device'[Enabled(j)] = stored'[j]
    BY <1>2, <1>4, <1>6, <1>7, Round
  <1>9. stored' = before
    <2>1. \A j \in Joints : stored'[j] = before[j]
      <3> TAKE j \in Joints
      <3>1. last_enabled[j] \in {0, 1} /\ last_enabled[j] = before[j]
        BY <1>1, <1>6 DEF TypeOK
      <3>2. stored'[j] = IF last_enabled[j] = v THEN v ELSE 1 - v
        BY <1>4, <1>6, <1>8
      <3> QED
        BY <3>1, <3>2
    <2>2. before \in [Joints -> {0, 1}]
      BY <1>1 DEF TypeOK
    <2> QED
      BY <1>8, <2>1, <2>2
  <1>10. todo' = Tail(todo) /\ caller' = caller /\ UNCHANGED <<operators, before>>
    BY <1>2, <1>5, <1>8 DEF Continue, Then
  <1>11. /\ TypeOK' /\ CallerFits' /\ OperatorsKnown' /\ DeathExplained'
         /\ Head(todo)' = h /\ ~Idle' /\ Goal' = Goal /\ outcome' # "ok"
    BY <1>1, <1>2, <1>5, <1>6, <1>8, <1>10, Advanced DEF TypeOK
  <1>12. EnabledKnown' /\ EnabledSaved'
    BY <1>5, <1>8, <1>9, <1>10, <1>11 DEF EnabledKnown, EnabledSaved, At
  <1>13. Configured'
    <2>1. PICK o \in Operators \cup {0} : o = IF Goal = "handler_attach" THEN caller.id ELSE 0
      BY <1>1 DEF TypeOK
    <2>2. ASSUME At("revert_disabled")
          PROVE  StreamsTo(o)'
      <3>1. StreamsTo(o)
        BY <1>1, <2>1, <2>2 DEF Configured
      <3> QED
        BY <1>2, <1>3, <1>4, <1>8, <3>1, JointsUntouched, StreamsKept
    <2>3. o = IF Goal' = "handler_attach" THEN caller'.id ELSE 0
      BY <1>10, <1>11, <2>1
    <2> QED
      BY <1>5, <1>11, <2>2, <2>3 DEF Configured, StreamsTo, At
  <1> QED
    BY <1>11, <1>12, <1>13 DEF IndInv

\* Configuring: the device is put into the mode of the controller that is to be attached, or
\* of none, with every joint disabled.
LEMMA ConfigureStep ==
    ASSUME IndInv,
           \/ WriteStep("configure_attached", AttachedBatch(upstream[caller.id]))
           \/ WriteStep("configure_detached", DetachedBatch)
    PROVE  IndInv'
  <1>1. TypeOK /\ CallerFits /\ EnabledSaved /\ Configured /\ todo \in Plans
    BY DEF IndInv, TypeOK
  <1>2. PICK b : /\ Write(b)
                 /\ UNCHANGED <<attached, upstream, fresh, last_enabled, outcome, crossed>>
                 /\ \/ At("configure_attached") /\ b = AttachedBatch(upstream[caller.id])
                    \/ At("configure_detached") /\ b = DetachedBatch
    BY DEF WriteStep
  <1>3. ~Idle /\ ~At("dead") /\ ~At("read") /\ ~At("write_disabled")
    BY <1>2 DEF At
  <1>4. /\ Then("revert_disabled")
        /\ \/ Goal = "handler_attach" /\ b = AttachedBatch(upstream[caller.id])
           \/ Goal = "handler_detach" /\ b = DetachedBatch
    BY <1>1, <1>2, <1>3, Course DEF At
  <1>5. PICK o \in Operators \cup {0} : o = IF Goal = "handler_attach" THEN caller.id ELSE 0
    BY <1>1 DEF TypeOK
  <1>6. /\ Batch(b) /\ \A r \in ControlModes : r \in DOMAIN b /\ b[r] = IF o = 0 THEN 6 ELSE 5
        /\ PdoEnabled \in DOMAIN b /\ b[PdoEnabled] = Bit(o # 0)
        /\ o # 0 => TPdoId \in DOMAIN b /\ b[TPdoId] = Bit(upstream[o])
        /\ \A j \in Joints : Enabled(j) \notin DOMAIN b
    <2>1. CASE Goal = "handler_attach" /\ b = AttachedBatch(upstream[caller.id])
      <3>1. o = caller.id /\ o # 0 /\ upstream[o] \in BOOLEAN
        BY <1>1, <1>5, <2>1 DEF CallerFits, TypeOK
      <3>2. /\ Batch(b) /\ DOMAIN b = ControlModes \cup {PdoEnabled, TPdoId}
            /\ \A r \in ControlModes : b[r] = 5
            /\ b[PdoEnabled] = 1 /\ b[TPdoId] = Bit(upstream[o])
        BY <2>1, <3>1, ModeBatches
      <3> QED
        BY <3>1, <3>2, RegistersApart DEF Bit
    <2>2. CASE Goal = "handler_detach" /\ b = DetachedBatch
      <3>1. o = 0
        BY <1>5, <2>2
      <3>2. /\ Batch(b) /\ DOMAIN b = ControlModes \cup {PdoEnabled}
            /\ \A r \in ControlModes : b[r] = 6
            /\ b[PdoEnabled] = 0
        BY <2>2, ModeBatches
      <3> QED
        BY <3>1, <3>2, RegistersApart DEF Bit
    <2> QED
      BY <1>4, <2>1, <2>2
  <1>7. last_enabled' \in [Joints -> {0, 1}]
    BY <1>1, <1>2 DEF TypeOK
  <1>8. SUFFICES ASSUME ~IndInv'
                 PROVE  IndInv'
    OBVIOUS
  <1>9. /\ Continue /\ faults' = faults /\ \A r \in DOMAIN b : device'[r] = b[r]
        /\ \A j \in Joints : stored'[j] = stored[j]
        /\ stored' \in [Joints -> {0, 1}] /\ device' \in [Registers -> Nat]
        /\ faults' \in Nat /\ unsure' \subseteq Joints
        /\ \A j \in Joints \ unsure' : device'[Enabled(j)] = stored'[j]
    BY <1>2, <1>3, <1>6, <1>7, <1>8, Round
  <1>10. todo' = Tail(todo) /\ caller' = caller /\ UNCHANGED <<operators, before>>
    BY <1>3, <1>4, <1>9 DEF Continue, Then
  <1>11. /\ TypeOK' /\ CallerFits' /\ OperatorsKnown' /\ DeathExplained'
         /\ Head(todo)' = "revert_disabled" /\ ~Idle' /\ Goal' = Goal /\ outcome' # "ok"
    BY <1>1, <1>2, <1>3, <1>4, <1>7, <1>9, <1>10, Advanced DEF TypeOK
  <1>12. EnabledKnown' /\ EnabledSaved'
    <2>1. last_enabled = before /\ \A j \in Joints : stored[j] = 0
      BY <1>1, <1>2, <1>4 DEF EnabledSaved
    <2> QED
      BY <1>2, <1>9, <1>10, <1>11, <2>1 DEF EnabledKnown, EnabledSaved, At
  <1>13. Configured'
    <2>1. StreamsTo(o)'
      <3>1. \A j \in Joints : ControlMode(j) \in ControlModes
        BY DEF ControlModes
      <3> QED
        BY <1>2, <1>6, <1>9, <3>1 DEF StreamsTo
    <2>2. o = IF Goal' = "handler_attach" THEN caller'.id ELSE 0
      BY <1>5, <1>10, <1>11
    <2> QED
      BY <1>11, <2>1, <2>2 DEF Configured, StreamsTo
  <1> QED
    BY <1>11, <1>12, <1>13 DEF IndInv

\* Reading leaves everything as it is, or throws.
LEMMA ReadStep ==
    ASSUME IndInv, Read
    PROVE  IndInv'
  <1>1. TypeOK /\ CallerFits /\ EnabledKnown /\ EnabledSaved /\ Configured /\ todo \in Plans
    BY DEF IndInv, TypeOK
  <1>2. /\ At("read") /\ ~Idle /\ ~At("dead") /\ ~At("write_disabled")
        /\ UNCHANGED <<stored, device, unsure, attached, upstream, fresh, last_enabled, outcome,
                       crossed>>
    BY DEF Read, At
  <1>3. PICK h \in {"write_disabled", "revert_enabled"} :
            /\ Then(h) /\ (h = "write_disabled" <=> Goal = "configure_idle")
            /\ Goal \in {"configure_idle", "handler_attach"}
    BY <1>1, <1>2, Course DEF At
  <1>4. /\ outcome # "ok"
        /\ stored' \in [Joints -> {0, 1}] /\ device' \in [Registers -> Nat]
        /\ unsure' \subseteq Joints /\ last_enabled' \in [Joints -> {0, 1}]
    BY <1>1, <1>2 DEF Configured, TypeOK
  <1>5. Goal # "configure_idle" => \A j \in Joints \ unsure' : device'[Enabled(j)] = stored'[j]
    BY <1>1, <1>2 DEF EnabledKnown
  <1>6. CASE Continue /\ faults' = faults
    <2>1. todo' = Tail(todo) /\ caller' = caller /\ UNCHANGED <<operators, before>>
      BY <1>2, <1>3, <1>6 DEF Continue, Then
    <2>2. /\ TypeOK' /\ CallerFits' /\ OperatorsKnown' /\ DeathExplained'
          /\ Head(todo)' = h /\ ~Idle' /\ Goal' = Goal /\ outcome' # "ok"
      BY <1>1, <1>2, <1>3, <1>4, <1>6, <2>1, Advanced DEF TypeOK
    <2>3. Configured' /\ EnabledKnown'
      BY <1>3, <1>5, <2>2 DEF Configured, EnabledKnown, At
    <2>4. EnabledSaved'
      BY <1>1, <1>2, <1>3, <2>1, <2>2 DEF EnabledSaved, At
    <2> QED
      BY <2>2, <2>3, <2>4 DEF IndInv
  <1>7. CASE Throw
    <2>1. \/ caller.kind = "constructor" /\ Outdated /\ faults' = faults
          \/ faults' = faults + 1
          \/ Continue /\ faults' = faults
      BY DEF Read
    <2>2. faults' \in Nat
      BY <1>1, <2>1 DEF TypeOK
    <2>3. Outdated' = Outdated
      BY <1>2 DEF Outdated
    <2>4. CASE Continue /\ faults' = faults
      BY <1>6, <2>4
    <2>5. CASE \/ caller.kind = "constructor" /\ Outdated /\ faults' = faults
               \/ faults' = faults + 1
      <3>1. faults' > 0 \/ (caller.kind = "constructor" /\ Outdated')
        BY <1>1, <2>3, <2>5 DEF TypeOK
      <3> QED
        BY <1>2, <1>4, <1>5, <1>7, <2>2, <3>1, Thrown
    <2> QED
      BY <2>1, <2>4, <2>5
  <1> QED
    BY <1>6, <1>7 DEF Read

LEMMA MakeOperatorStep ==
    ASSUME IndInv, MakeOperator
    PROVE  IndInv'
  <1>1. /\ TypeOK /\ CallerFits /\ EnabledKnown /\ EnabledSaved /\ Configured /\ todo \in Plans
        /\ caller.id \in Operators \cup {0} /\ operators \subseteq Operators
    BY DEF IndInv, TypeOK
  <1>2. /\ At("make_operator") /\ ~Idle /\ ~At("dead") /\ ~At("write_disabled") /\ ~At("read")
        /\ todo' = Tail(todo) /\ operators' = operators \cup {caller.id}
        /\ UNCHANGED <<stored, device, faults, unsure, caller, attached, upstream, fresh,
                       last_enabled, outcome, before, crossed>>
    BY DEF MakeOperator, memory, At
  <1>3. Goal = "handler_attach" /\ Then("save_disable")
    BY <1>1, <1>2, Course DEF At
  <1>4. operators' \subseteq Operators
    BY <1>1, <1>2, <1>3 DEF CallerFits
  <1>5. /\ TypeOK' /\ CallerFits' /\ OperatorsKnown' /\ DeathExplained'
        /\ Head(todo)' = "save_disable" /\ ~Idle' /\ Goal' = Goal /\ outcome' # "ok"
    BY <1>1, <1>2, <1>3, <1>4, Advanced DEF TypeOK
  <1>6. EnabledKnown' /\ EnabledSaved' /\ Configured'
    BY <1>1, <1>2, <1>3, <1>5 DEF EnabledKnown, EnabledSaved, Configured, At
  <1> QED
    BY <1>5, <1>6 DEF IndInv

\* The handler takes the controller if it has none, and gives up the one it has.
LEMMA HandlerStep ==
    ASSUME IndInv, HandlerAttach \/ HandlerDetach
    PROVE  IndInv'
  <1>1. /\ TypeOK /\ CallerFits /\ EnabledKnown /\ EnabledSaved /\ Configured /\ OperatorsKnown
        /\ todo \in Plans
        /\ caller.id \in Operators \cup {0} /\ operators \subseteq Operators
    BY DEF IndInv, TypeOK
  <1>2. /\ At("handler_attach") \/ At("handler_detach")
        /\ ~Idle /\ ~At("dead") /\ ~At("write_disabled") /\ ~At("read")
        /\ UNCHANGED <<stored, device, faults, unsure, upstream, fresh, last_enabled, crossed>>
    BY DEF HandlerAttach, HandlerDetach, memory, At
  <1>3. /\ Tail(todo) = <<>>
        /\ At("handler_attach") <=> Goal = "handler_attach"
        /\ At("handler_detach") <=> Goal = "handler_detach"
    BY <1>1, <1>2, Course DEF At
  <1>4. \A j \in Joints \ unsure : device[Enabled(j)] = stored[j]
    BY <1>1, <1>2 DEF EnabledKnown
  <1>5. CASE /\ Throw /\ UNCHANGED <<attached, outcome>>
             /\ (At("handler_attach") /\ attached # 0) \/ (At("handler_detach") /\ attached = 0)
    <2>1. outcome # "ok"
      BY <1>1, <1>2 DEF Configured
    <2>2. ~crossed /\ caller # NoCaller => faults > 0
      <3>1. CASE At("handler_attach") /\ attached # 0
        BY <1>1, <1>3, <3>1 DEF OperatorsKnown
      <3>2. CASE At("handler_detach") /\ attached = 0
        BY <1>1, <1>3, <3>2 DEF OperatorsKnown, CallerFits, TypeOK
      <3> QED
        BY <1>5, <3>1, <3>2
    <2>3. caller # NoCaller /\ caller.kind # "user" => caller.kind = "destructor" /\ attached = 0
      BY <1>1, <1>3, <1>5 DEF CallerFits
    <2> QED
      BY <1>1, <1>2, <1>4, <1>5, <2>1, <2>2, <2>3, Thrown DEF TypeOK
  <1>6. CASE /\ Continue
             /\ \/ At("handler_attach") /\ attached = 0 /\ attached' = caller.id
                \/ At("handler_detach") /\ attached' = 0
    <2>1. /\ todo' = <<>> /\ caller' = NoCaller /\ UNCHANGED <<operators, before>>
          /\ Idle' /\ Goal' = "none" /\ ~At("dead")' /\ todo' \in Plans
      BY <1>2, <1>3, <1>6, Ends DEF Continue
    <2>2. PICK o \in Operators \cup {0} :
              /\ attached' = o
              /\ o = IF Goal = "handler_attach" THEN caller.id ELSE 0
      BY <1>1, <1>3, <1>6 DEF At
    <2>3. TypeOK' /\ CallerFits'
      BY <1>1, <1>2, <2>1, <2>2 DEF TypeOK, CallerFits, NoCaller
    <2>4. EnabledKnown' /\ EnabledSaved' /\ DeathExplained'
      BY <1>2, <1>4, <2>1 DEF EnabledKnown, EnabledSaved, DeathExplained, At
    <2>5. Configured'
      <3>1. StreamsTo(o)
        BY <1>1, <1>2, <2>2 DEF Configured
      <3>2. StreamsTo(o)'
        BY <1>2, <3>1, StreamsKept
      <3> QED
        BY <2>1, <2>2, <3>2 DEF Configured, StreamsTo, At
    <2>6. OperatorsKnown'
      BY <1>1, <1>2, <1>3, <2>1, <2>2 DEF OperatorsKnown
    <2> QED
      BY <2>3, <2>4, <2>5, <2>6 DEF IndInv
  <1> QED
    BY <1>5, <1>6 DEF HandlerAttach, HandlerDetach

\* A call, or a destructor, begins between calls, with Enabled as it is.
LEMMA Begun ==
    ASSUME IndInv, Idle, NEW s \in {ControllerSteps, AttachSteps, DetachSteps}, todo' = s,
           UNCHANGED <<memory, attached, last_enabled>>,
           upstream' \in [Operators -> BOOLEAN], operators' \subseteq operators,
           fresh' \subseteq Operators, crossed' \in BOOLEAN, ~crossed' => ~crossed,
           before' = stored, outcome' = "begun",
           caller' \in [kind : {"user", "destructor"}, id : Operators \cup {0}],
           s # DetachSteps =>
               /\ caller'.kind = "user" /\ caller'.id # 0
               /\ ~crossed' => attached = 0,
           s = DetachSteps =>
               /\ caller'.kind = "destructor" \/ caller' = NoCaller
               /\ ~crossed' => operators' = {}
               /\ ~crossed' /\ caller'.kind = "destructor" => attached # 0
    PROVE  IndInv'
  <1>1. TypeOK /\ EnabledKnown /\ OperatorsKnown /\ 0 \notin Operators
    BY HandAssumption DEF IndInv, TypeOK
  <1>2. \A j \in Joints \ unsure : device[Enabled(j)] = stored[j]
    BY <1>1 DEF EnabledKnown, At
  <1>3. /\ todo' \in Plans /\ ~Idle'
        /\ Head(todo') \in {"save_enable", "save_disable"}
        /\ Goal' = IF s = DetachSteps THEN "handler_detach" ELSE "handler_attach"
    BY Entry DEF Idle, Goal
  <1>4. TypeOK' /\ CallerFits'
    BY <1>1, <1>3 DEF TypeOK, CallerFits, memory
  <1>5. EnabledKnown' /\ EnabledSaved' /\ Configured' /\ DeathExplained'
    BY <1>2, <1>3 DEF EnabledKnown, EnabledSaved, Configured, DeathExplained, At, memory
  <1>6. OperatorsKnown'
    <2>1. ~crossed' => operators \subseteq {attached}
      BY <1>1 DEF OperatorsKnown
    <2>2. ~crossed' /\ s # DetachSteps => operators' = {}
      BY <1>1, <2>1 DEF TypeOK
    <2> QED
      BY <1>3, <2>2 DEF OperatorsKnown
  <1> QED
    BY <1>4, <1>5, <1>6 DEF IndInv

LEMMA CallStep ==
    ASSUME IndInv,
           RealtimeController \/ UserAttach \/ UserDetach \/ \E o \in operators : DestroyOperator(o)
    PROVE  IndInv'
  <1>1. /\ TypeOK /\ OperatorsKnown /\ Idle /\ 0 \notin Operators
        /\ attached \in Operators \cup {0} /\ operators \subseteq Operators
        /\ fresh \subseteq Operators /\ upstream \in [Operators -> BOOLEAN] /\ crossed \in BOOLEAN
    BY HandAssumption DEF IndInv, TypeOK, RealtimeController, UserAttach, StartAttach, UserDetach,
                          DestroyOperator, Call
  <1>2. ASSUME NEW s \in {ControllerSteps, AttachSteps}, StartAttach(s)
        PROVE  IndInv'
    <2>1. PICK o \in fresh, up \in BOOLEAN :
              /\ Call(s, o)
              /\ fresh' = fresh \ {o}
              /\ upstream' = [upstream EXCEPT ![o] = up]
              /\ crossed' = (crossed \/ attached # 0)
      BY <1>2 DEF StartAttach
    <2>2. /\ todo' = s /\ caller' = [kind |-> "user", id |-> o] /\ o \in Operators /\ o # 0
          /\ before' = stored /\ outcome' = "begun"
          /\ UNCHANGED <<memory, operators, attached, last_enabled>>
      BY <1>1, <2>1 DEF Call
    <2>3. /\ upstream' \in [Operators -> BOOLEAN] /\ fresh' \subseteq Operators
          /\ crossed' \in BOOLEAN /\ (~crossed' => ~crossed /\ attached = 0)
      BY <1>1, <2>1
    <2>4. s # DetachSteps
      BY Entry
    <2> QED
      BY <1>1, <2>2, <2>3, <2>4, Begun
  <1>3. CASE UserDetach
    <2>1. /\ todo' = DetachSteps /\ caller' = NoCaller
          /\ before' = stored /\ outcome' = "begun"
          /\ UNCHANGED <<memory, operators, attached, last_enabled, upstream, fresh>>
          /\ crossed' = (crossed \/ attached \in operators)
      BY <1>3 DEF UserDetach, Call, NoCaller
    <2>2. crossed' \in BOOLEAN /\ (~crossed' => ~crossed /\ operators = {})
      BY <1>1, <2>1 DEF OperatorsKnown
    <2>3. caller' \in [kind : {"user", "destructor"}, id : Operators \cup {0}]
          /\ caller'.kind # "destructor"
      BY <2>1 DEF NoCaller
    <2>4. DetachSteps # ControllerSteps /\ DetachSteps # AttachSteps
      BY Entry
    <2> QED
      BY <1>1, <2>1, <2>2, <2>3, <2>4, Begun
  <1>4. ASSUME NEW o \in operators, DestroyOperator(o)
        PROVE  IndInv'
    <2>1. /\ todo' = DetachSteps /\ caller' = [kind |-> "destructor", id |-> o]
          /\ before' = stored' /\ outcome' = "begun" /\ operators' = operators \ {o}
          /\ UNCHANGED <<memory, attached, last_enabled, upstream, fresh, crossed>>
      BY <1>4 DEF DestroyOperator, Destroy
    <2>2. before' = stored
      BY <2>1 DEF memory
    <2>3. ~crossed => operators' = {} /\ attached # 0
      BY <1>1, <2>1 DEF OperatorsKnown
    <2>4. DetachSteps # ControllerSteps /\ DetachSteps # AttachSteps
      BY Entry
    <2> QED
      BY <1>1, <2>1, <2>2, <2>3, <2>4, Begun
  <1> QED
    BY <1>2, <1>3, <1>4 DEF RealtimeController, UserAttach

\* A write of Enabled between calls.
LEMMA UserEnablesStep ==
    ASSUME IndInv, NEW j \in Joints, NEW v \in {0, 1}, UserEnables({j}, v)
    PROVE  IndInv'
  <1>1. /\ TypeOK /\ CallerFits /\ EnabledKnown /\ Configured /\ OperatorsKnown
        /\ attached \in Operators \cup {0} /\ 0 \notin Operators /\ operators \subseteq Operators
    BY HandAssumption DEF IndInv, TypeOK
  <1> DEFINE js == {j}
             b == EnableAll(js, v)
  <1>2. /\ Idle /\ ~At("dead") /\ ~At("read") /\ ~At("write_disabled") /\ Goal = "none"
        /\ Write(b)
        /\ UNCHANGED <<attached, upstream, fresh, last_enabled, outcome, crossed>>
    BY DEF UserEnables, At, Goal
  <1>3. Batch(b) /\ DOMAIN b = EnabledOf(js)
    BY EnableBatch
  <1> HIDE DEF b
  <1>4. /\ stored' \in [Joints -> {0, 1}] /\ device' \in [Registers -> Nat]
        /\ faults' \in Nat /\ unsure' \subseteq Joints
        /\ \A r \in Registers \ DOMAIN b : device'[r] = device[r]
        /\ \A k \in Joints \ unsure' :
               \/ Enabled(k) \in DOMAIN b /\ device'[Enabled(k)] = stored'[k]
               \/ /\ k \notin unsure /\ Enabled(k) \notin DOMAIN b
                  /\ device'[Enabled(k)] = device[Enabled(k)] /\ stored'[k] = stored[k]
        /\ \/ Continue /\ faults' = faults
           \/ Throw /\ faults' > 0
    BY <1>1, <1>2, <1>3, Written
  <1>5. \A k \in Joints \ unsure' : device'[Enabled(k)] = stored'[k]
    BY <1>1, <1>2, <1>4 DEF EnabledKnown
  <1>6. outcome = "ok" => StreamsTo(attached)'
    <2>1. PICK o \in Operators \cup {0} : o = attached
      BY <1>1
    <2>2. ASSUME outcome = "ok"
          PROVE  StreamsTo(o)'
      <3>1. StreamsTo(o)
        BY <1>1, <2>1, <2>2 DEF Configured
      <3>2. \A r \in ControlModes \cup {PdoEnabled, TPdoId} : device'[r] = device[r]
        <4>1. js \in SUBSET Joints
          OBVIOUS
        <4> HIDE DEF js
        <4> QED
          BY <1>3, <1>4, <4>1, JointsUntouched
      <3> QED
        BY <1>2, <3>1, <3>2, StreamsKept
    <2> QED
      BY <1>2, <2>1, <2>2 DEF StreamsTo
  <1>7. last_enabled' \in [Joints -> {0, 1}]
    BY <1>1, <1>2 DEF TypeOK
  <1>8. CASE Throw /\ faults' > 0
    BY <1>2, <1>4, <1>5, <1>6, <1>7, <1>8, Thrown
  <1>9. CASE Continue /\ faults' = faults
    <2>1. /\ todo' = <<>> /\ caller' = NoCaller /\ UNCHANGED <<operators, before>>
          /\ Idle' /\ Goal' = "none" /\ ~At("dead")' /\ todo' \in Plans
      BY <1>2, <1>9, Ends DEF Continue, Idle
    <2>2. TypeOK' /\ CallerFits'
      BY <1>1, <1>2, <1>4, <1>7, <2>1 DEF TypeOK, CallerFits, NoCaller
    <2>3. EnabledKnown' /\ EnabledSaved' /\ Configured' /\ DeathExplained'
      BY <1>2, <1>5, <1>6, <2>1 DEF EnabledKnown, EnabledSaved, Configured, DeathExplained, At
    <2>4. OperatorsKnown'
      BY <1>1, <1>2, <2>1 DEF OperatorsKnown
    <2> QED
      BY <2>2, <2>3, <2>4 DEF IndInv
  <1> QED
    BY <1>4, <1>8, <1>9

--------------------------------------------------------------------------------
\* The theorems.

LEMMA InitInv ==
    ASSUME Init
    PROVE  IndInv
  <1>1. PICK js \in SUBSET Joints, m \in {5, 6}, p \in {0, 1}, f \in {2, 3} :
            device = [r \in Registers |-> CASE r \in EnabledOf(js) -> 1
                                           [] r \in ControlModes -> m
                                           [] r = PdoEnabled -> p
                                           [] r = FirmwareVersion -> f
                                           [] OTHER -> 0]
    BY DEF Init
  <1>2. device \in [Registers -> Nat]
    BY <1>1
  <1>3. todo \in Plans /\ At("read") /\ ~At("dead") /\ ~Idle /\ Goal = "configure_idle"
    BY Entry DEF Init, At, Idle, Goal
  <1>4. TypeOK
    BY <1>2, <1>3 DEF Init, TypeOK
  <1>5. CallerFits /\ EnabledKnown /\ EnabledSaved /\ DeathExplained
    BY <1>3 DEF Init, CallerFits, EnabledKnown, EnabledSaved, DeathExplained, At
  <1>6. Configured /\ OperatorsKnown
    BY <1>3 DEF Init, Configured, OperatorsKnown, At
  <1> QED
    BY <1>4, <1>5, <1>6 DEF IndInv

LEMMA StepInv ==
    ASSUME IndInv, [Next]_vars
    PROVE  IndInv'
  <1>1. CASE Sequence
    BY <1>1, ReadStep, ConstructStep, SaveStep, RevertStep, MakeOperatorStep, ConfigureStep,
       HandlerStep DEF Sequence
  <1>2. CASE RealtimeController \/ UserAttach \/ UserDetach \/ \E o \in operators : DestroyOperator(o)
    BY <1>2, CallStep
  <1>3. CASE \E j \in Joints, v \in {0, 1} : UserEnables({j}, v)
    BY <1>3, UserEnablesStep
  <1>4. CASE UNCHANGED vars
    BY <1>4 DEF vars, memory, progress, IndInv, TypeOK, CallerFits, EnabledKnown, EnabledSaved,
                Configured, OperatorsKnown, DeathExplained, At, Idle, Goal, StreamsTo, Outdated
  <1> QED
    BY <1>1, <1>2, <1>3, <1>4 DEF Next

\* IndInv is an invariant: whatever times out, with or without the device having taken it,
\* the host knows at every step of every sequence where Enabled and the mode stand.
THEOREM Invariance == Spec => []IndInv
  <1>1. Init => IndInv
    BY InitInv
  <1>2. IndInv /\ [Next]_vars => IndInv'
    BY StepInv
  <1> QED
    BY <1>1, <1>2, PTL DEF Spec

\* Attaching and detaching put Enabled back on every joint, through two or four rounds of
\* writes.
THEOREM EnabledSafe == Spec => []EnabledPutBack
  <1>1. IndInv => EnabledPutBack
    <2> SUFFICES ASSUME IndInv, At("handler_attach") \/ At("handler_detach")
                 PROVE  stored = before /\ \A j \in Joints \ unsure : device[Enabled(j)] = before[j]
      BY DEF EnabledPutBack
    <2>1. todo \in Plans /\ ~Idle /\ ~At("dead") /\ EnabledKnown /\ EnabledSaved
      BY DEF IndInv, TypeOK, At
    <2>2. Goal \in {"handler_attach", "handler_detach"}
      BY <2>1, Course DEF At
    <2> QED
      BY <2>1, <2>2 DEF EnabledKnown, EnabledSaved, At
  <1> QED
    BY <1>1, Invariance, PTL

\* After an attach or a detach that ended well the device is in the mode the host is in.
THEOREM ModeSafe == Spec => []DeviceFollowsHost
  <1>1. IndInv => DeviceFollowsHost
    BY DEF IndInv, Configured, StreamsTo, DeviceFollowsHost
  <1> QED
    BY <1>1, Invariance, PTL

\* An operator that can be used points to the attached controller, unless calls crossed.
THEOREM OperatorSafe == Spec => []OperatorsAttached
  <1>1. IndInv => OperatorsAttached
    BY DEF IndInv, OperatorsKnown, OperatorsAttached
  <1> QED
    BY <1>1, Invariance, PTL

\* Without a timeout, on a firmware that is not outdated, only a destructor that finds no
\* controller after crossed calls kills the process.
THEOREM DeathSafe == Spec => []DeathExplained
  <1>1. IndInv => DeathExplained
    BY DEF IndInv
  <1> QED
    BY <1>1, Invariance, PTL

\* No step but the ones that configure writes the mode of a joint.
LEMMA ModeWriters ==
    ASSUME TypeOK, [Next]_vars, NEW j \in Joints, device'[ControlMode(j)] # device[ControlMode(j)]
    PROVE  At("configure_idle") \/ At("configure_attached") \/ At("configure_detached")
  <1>1. device' # device
    OBVIOUS
  <1>2. ASSUME NEW js \in SUBSET Joints, NEW v \in {0, 1}, Write(EnableAll(js, v))
        PROVE  FALSE
    <2> DEFINE b == EnableAll(js, v)
    <2>1. Batch(b) /\ DOMAIN b = EnabledOf(js)
      BY EnableBatch
    <2>2. Write(b)
      BY <1>2
    <2> HIDE DEF b
    <2>3. \A r \in Registers \ DOMAIN b : device'[r] = device[r]
      BY <2>1, <2>2, Written
    <2>4. ControlMode(j) \in ControlModes
      BY DEF ControlModes
    <2> QED
      BY <2>1, <2>3, <2>4, JointsUntouched
  <1>3. CASE Construct
    BY <1>2, <1>3 DEF Construct, WriteStep
  <1>4. ASSUME NEW step, NEW v \in {0, 1}, Save(step, v) \/ Revert(step, v)
        PROVE  FALSE
    <2>1. {k \in Joints : stored[k] = v} \in SUBSET Joints
          /\ {k \in Joints : last_enabled[k] = v} \in SUBSET Joints /\ 1 - v \in {0, 1}
      OBVIOUS
    <2> QED
      BY <1>2, <1>4, <2>1 DEF Save, Revert, WriteStep
  <1>5. CASE \/ WriteStep("configure_attached", AttachedBatch(upstream[caller.id]))
             \/ WriteStep("configure_detached", DetachedBatch)
    BY <1>5 DEF WriteStep
  <1>6. CASE Read \/ MakeOperator \/ HandlerAttach \/ HandlerDetach
    BY <1>1, <1>6 DEF Read, MakeOperator, HandlerAttach, HandlerDetach, memory
  <1>7. CASE RealtimeController \/ UserAttach \/ UserDetach \/ \E o \in operators : DestroyOperator(o)
    BY <1>1, <1>7 DEF RealtimeController, UserAttach, StartAttach, UserDetach, DestroyOperator,
                      Call, memory
  <1>8. CASE \E k \in Joints, v \in {0, 1} : UserEnables({k}, v)
    BY <1>2, <1>8 DEF UserEnables
  <1>9. CASE UNCHANGED vars
    BY <1>1, <1>9 DEF vars, memory
  <1>10. CASE Sequence
    BY <1>3, <1>4, <1>5, <1>6, <1>10 DEF Sequence
  <1> QED
    BY <1>7, <1>8, <1>9, <1>10 DEF Next

\* The control mode of a joint changes while the joint is disabled, save one whose last
\* write of Enabled timed out.
THEOREM RestSafe == Spec => ModeChangesAtRest
  <1>1. ASSUME IndInv, [Next]_vars
        PROVE  [\A j \in Joints :
                    device'[ControlMode(j)] # device[ControlMode(j)]
                        => device[Enabled(j)] = 0 \/ j \in unsure]_vars
    <2>1. ASSUME NEW j \in Joints, device'[ControlMode(j)] # device[ControlMode(j)]
          PROVE  device[Enabled(j)] = 0 \/ j \in unsure
      <3>1. At("configure_idle") \/ At("configure_attached") \/ At("configure_detached")
        BY <1>1, <2>1, ModeWriters DEF IndInv
      <3>2. todo \in Plans /\ ~Idle /\ ~At("dead") /\ EnabledKnown /\ EnabledSaved
        BY <1>1, <3>1 DEF IndInv, TypeOK, At
      <3>3. Goal \in {"configure_idle", "handler_attach", "handler_detach"}
            /\ (Goal = "configure_idle" => At("configure_idle"))
        BY <3>1, <3>2, Course DEF At
      <3>4. stored[j] = 0
        BY <3>1, <3>2, <3>3 DEF EnabledSaved
      <3> QED
        BY <3>1, <3>2, <3>4 DEF EnabledKnown, At
    <2> QED
      BY <2>1
  <1> QED
    BY <1>1, Invariance, PTL DEF Spec, ModeChangesAtRest

================================================================================
