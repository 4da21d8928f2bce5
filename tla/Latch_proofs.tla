------------------------------ MODULE Latch_proofs ------------------------------
(* Theorems about Latch, for every set of operations and every number of starts. *)
EXTENDS Latch, FiniteSetTheorems, TLAPS

--------------------------------------------------------------------------------
\* The inductive invariant: the count is the number of pending operations, and the
\* operation thread is where the counts and the notifications allow it to be.
IndInv ==
    /\ TypeOK
    /\ waiting_count = Cardinality(Pending)
    /\ \A o \in Ops : pc[o] = "counted" => upc = "publish"
    /\ \A o, p \in Ops : pc[o] = "counted" /\ pc[p] = "counted" => o = p
    /\ upc = "wait" => current # 0
    /\ upc = "exchange" => Pending = {}
    /\ NoLostWakeUp

--------------------------------------------------------------------------------
\* The set of pending operations is finite, and its size moves with its elements.
LEMMA PendingSize ==
    /\ IsFiniteSet(Pending)
    /\ Cardinality(Pending) \in Nat
    /\ Cardinality(Pending) = 0 <=> Pending = {}
  <1>1. IsFiniteSet(Pending)
    BY LatchAssumption, FS_Subset DEF Pending
  <1> QED
    BY <1>1, FS_CardinalityType, FS_EmptySet

\* Counting an operation up makes the pending set one larger.
LEMMA PendingGrows ==
    ASSUME NEW o \in Ops, pc \in [Ops -> Stages], pc[o] = "idle", NEW s \in Stages, s # "idle",
           pc' = [pc EXCEPT ![o] = s]
    PROVE  Cardinality(Pending') = Cardinality(Pending) + 1
  <1>1. Pending' = Pending \cup {o} /\ o \notin Pending
    BY DEF Pending, Stages
  <1> QED
    BY <1>1, PendingSize, FS_AddElement

\* Counting an operation down makes it one smaller.
LEMMA PendingShrinks ==
    ASSUME NEW o \in Ops, pc \in [Ops -> Stages], pc[o] # "idle", pc' = [pc EXCEPT ![o] = "idle"]
    PROVE  Cardinality(Pending') = Cardinality(Pending) - 1
  <1>1. Pending' = Pending \ {o} /\ o \in Pending
    BY DEF Pending, Stages
  <1> QED
    BY <1>1, PendingSize, FS_RemoveElement

\* Moving on within an operation leaves the pending set as it is.
LEMMA PendingStays ==
    ASSUME NEW o \in Ops, pc \in [Ops -> Stages], pc[o] # "idle", NEW s \in Stages, s # "idle",
           pc' = [pc EXCEPT ![o] = s]
    PROVE  Pending' = Pending
  BY DEF Pending, Stages

\* Every step preserves the inductive invariant.
LEMMA IndInvStep ==
    ASSUME IndInv, [Next]_vars
    PROVE  IndInv'
  <1> USE LatchAssumption DEF IndInv, TypeOK, NoLostWakeUp
  <1>1. CASE CallWait \/ Load \/ Wait \/ Exchange \/ NotifyOne \/ UNCHANGED vars
    <2>1. pc' = pc /\ waiting_count' = waiting_count
      BY <1>1 DEF CallWait, Load, Wait, Exchange, NotifyOne, vars
    <2>2. Pending' = Pending
      BY <2>1 DEF Pending
    <2>3. TypeOK'
      BY <1>1 DEF CallWait, Load, Wait, Exchange, NotifyOne, vars
    <2>4. (upc = "exchange" => Pending = {})'
      BY <1>1, <2>2, PendingSize DEF CallWait, Load, Wait, Exchange, NotifyOne, vars
    <2>5. (/\ \A o \in Ops : pc[o] = "counted" => upc = "publish"
           /\ \A o, p \in Ops : pc[o] = "counted" /\ pc[p] = "counted" => o = p
           /\ upc = "wait" => current # 0)'
      BY <1>1, <2>1 DEF CallWait, Load, Wait, Exchange, NotifyOne, vars
    <2>6. NoLostWakeUp'
      <3>1. CASE Wait
        BY <3>1, <2>1, PendingSize DEF Wait
      <3>2. CASE NotifyOne
        BY <3>2 DEF NotifyOne
      <3>3. CASE CallWait \/ Load \/ Exchange \/ UNCHANGED vars
        BY <3>3 DEF CallWait, Load, Exchange, vars
      <3> QED
        BY <1>1, <3>1, <3>2, <3>3
    <2> QED
      BY <2>1, <2>2, <2>3, <2>4, <2>5, <2>6
  <1>2. ASSUME NEW o \in Ops, CountUp(o)
        PROVE  IndInv'
    <2>1. Cardinality(Pending') = Cardinality(Pending) + 1
      BY <1>2, PendingGrows DEF CountUp, Stages
    <2> QED
      BY <1>2, <2>1, PendingSize DEF CountUp, Stages
  <1>3. ASSUME NEW o \in Ops, Publish(o)
        PROVE  IndInv'
    <2>1. Pending' = Pending
      BY <1>3, PendingStays DEF Publish, Stages
    <2> QED
      BY <1>3, <2>1 DEF Publish, Stages
  <1>4. ASSUME NEW o \in Ops, CountError(o)
        PROVE  IndInv'
    <2>1. Pending' = Pending
      BY <1>4, PendingStays DEF CountError, Stages
    <2> QED
      BY <1>4, <2>1 DEF CountError, Stages
  <1>5. ASSUME NEW o \in Ops, CountDown(o)
        PROVE  IndInv'
    <2>1. Cardinality(Pending') = Cardinality(Pending) - 1
      BY <1>5, PendingShrinks DEF CountDown
    <2>2. upc # "exchange"
      BY <1>5 DEF CountDown, Pending
    <2> QED
      BY <1>5, <2>1, <2>2, PendingSize DEF CountDown, Stages
  <1> QED
    BY <1>1, <1>2, <1>3, <1>4, <1>5 DEF Next, Waiting

\* The inductive invariant holds in every reachable state.
THEOREM Invariance == Spec => []IndInv
  <1>1. Init => IndInv
    <2> SUFFICES ASSUME Init
                 PROVE  IndInv
      OBVIOUS
    <2>1. Pending = {}
      BY DEF Init, Pending
    <2> QED
      BY <2>1, PendingSize, LatchAssumption DEF Init, IndInv, TypeOK, Stages, NoLostWakeUp
  <1> QED
    BY <1>1, IndInvStep, PTL DEF Spec

\* When a wait is about to return, no operation can still touch the latch's counts.
THEOREM WaitSafe == Spec => []ReturnsWhenDone
  <1>1. IndInv => ReturnsWhenDone
    BY DEF IndInv, ReturnsWhenDone
  <1> QED
    BY <1>1, Invariance, PTL

\* No wake-up of the sleeping thread is lost.
THEOREM WakeUpSafe == Spec => []NoLostWakeUp
  <1>1. IndInv => NoLostWakeUp
    BY DEF IndInv
  <1> QED
    BY <1>1, Invariance, PTL

\* The latch implements the completion barrier.
THEOREM Implements == Spec => BarrierSpec
  <1> USE DEF Barrier!Begin, Barrier!Fail, Barrier!Finish, Barrier!Return, Barrier!vars
  <1>1. Init => Barrier!Init
    BY DEF Init, Barrier!Init, Pending
  <1>2. ASSUME IndInv, [Next]_vars
        PROVE  [Barrier!Next]_(Barrier!vars)
    <2> USE <1>2 DEF IndInv, TypeOK
    <2>1. CASE Exchange
      <3>1. Pending = {} /\ Pending' = Pending
        BY <2>1 DEF Exchange, Pending
      <3> QED
        BY <2>1, <3>1 DEF Exchange, Barrier!Next
    <2>2. CASE CallWait \/ Load \/ Wait \/ NotifyOne \/ UNCHANGED vars
      BY <2>2 DEF CallWait, Load, Wait, NotifyOne, vars, Pending
    <2>3. ASSUME NEW o \in Ops, CountUp(o)
          PROVE  Barrier!Begin(o)
      BY <2>3 DEF CountUp, Pending
    <2>4. ASSUME NEW o \in Ops, Publish(o)
          PROVE  UNCHANGED Barrier!vars
      BY <2>4 DEF Publish, Pending
    <2>5. ASSUME NEW o \in Ops, CountError(o)
          PROVE  Barrier!Fail(o)
      BY <2>5 DEF CountError, Pending
    <2>6. ASSUME NEW o \in Ops, CountDown(o)
          PROVE  Barrier!Finish(o)
      BY <2>6 DEF CountDown, Pending
    <2> QED
      BY <2>1, <2>2, <2>3, <2>4, <2>5, <2>6 DEF Next, Waiting, Barrier!Next
  <1> QED
    BY <1>1, <1>2, Invariance, PTL DEF Spec, BarrierSpec, Barrier!Spec

================================================================================
