-------------------------- MODULE TransmitBuffer_proofs --------------------------
(* Theorems about TransmitBuffer, for every finite pool and every length of frame. *)
EXTENDS TransmitBuffer, FiniteSetTheorems, SequenceTheorems, TLAPS

--------------------------------------------------------------------------------
\* The inductive invariant, part by part.

\* What the owner thread has at hand, depending on where it is.
OwnerHolds ==
    /\ pc \in {"popping", "popping_fetch"} => taken # None
    /\ pc \notin {"popping", "popping_fetch", "terminated"} => taken = None
    /\ unpublished => taken # None
    /\ pc \in {"fetch", "popping_fetch"} => want \in [size : Chunks, type : Types]
    /\ pc = "fetched" => free # <<>> /\ type[Head(free)] # NoType

\* A transfer that is not with libusb is empty, or holds chunks of the type in its header
\* and leaves room for the check sum.  The owner takes no empty one from the ring.
FilledWell ==
    /\ \A t \in InRing \cup ({taken} \ {None}) :
           IF type[t] = NoType THEN length[t] = Prefill /\ gathered[t] = {}
           ELSE length[t] + Crc =< MaxLength /\ gathered[t] = {type[t]}
    /\ taken # None => type[taken] # NoType

\* The inductive invariant.
IndInv ==
    /\ TypeOK /\ EveryTransferOnce /\ OwnerHolds /\ FilledWell
    /\ FramesWellFormed /\ OnlyFrontFilled

--------------------------------------------------------------------------------
\* Sequences without repetition.

Distinct(s) == \A i, j \in DOMAIN s : s[i] = s[j] => i = j
ElementsOf(s) == {s[i] : i \in DOMAIN s}

\* Taking the first element off.
LEMMA TailElements ==
    ASSUME NEW T, NEW s \in Seq(T), s # <<>>
    PROVE  /\ Head(s) \in T /\ Head(s) = s[1] /\ 1 \in DOMAIN s
           /\ Head(s) \in ElementsOf(s)
           /\ Tail(s) \in Seq(T) /\ Len(Tail(s)) = Len(s) - 1
           /\ \A i \in DOMAIN Tail(s) : i + 1 \in DOMAIN s \ {1} /\ Tail(s)[i] = s[i + 1]
           /\ Distinct(s) => /\ Distinct(Tail(s))
                             /\ ElementsOf(Tail(s)) = ElementsOf(s) \ {Head(s)}
  <1>1. /\ Len(s) \in Nat /\ Len(s) >= 1 /\ DOMAIN s = 1..Len(s)
        /\ Head(s) \in T /\ Head(s) = s[1]
    OBVIOUS
  <1>2. /\ Tail(s) \in Seq(T) /\ Len(Tail(s)) = Len(s) - 1
        /\ DOMAIN Tail(s) = 1..(Len(s) - 1)
        /\ \A i \in 1..(Len(s) - 1) : Tail(s)[i] = s[i + 1]
    BY HeadTailProperties
  <1>3. \A i \in DOMAIN Tail(s) : i + 1 \in DOMAIN s \ {1} /\ Tail(s)[i] = s[i + 1]
    BY <1>1, <1>2
  <1>4. \A k \in DOMAIN s \ {1} : k - 1 \in DOMAIN Tail(s) /\ Tail(s)[k - 1] = s[k]
    <2> TAKE k \in DOMAIN s \ {1}
    <2>1. k - 1 \in 1..(Len(s) - 1) /\ (k - 1) + 1 = k
      BY <1>1
    <2> QED
      BY <1>2, <2>1
  <1>5. ASSUME Distinct(s)
        PROVE  Distinct(Tail(s)) /\ ElementsOf(Tail(s)) = ElementsOf(s) \ {Head(s)}
    <2>1. Distinct(Tail(s))
      <3> SUFFICES ASSUME NEW i \in DOMAIN Tail(s), NEW j \in DOMAIN Tail(s),
                          Tail(s)[i] = Tail(s)[j]
                   PROVE  i = j
        BY DEF Distinct
      <3>1. i + 1 = j + 1
        BY <1>3, <1>5 DEF Distinct
      <3> QED
        BY <3>1, <1>2
    <2>2. ASSUME NEW i \in DOMAIN Tail(s)
          PROVE  Tail(s)[i] \in ElementsOf(s) \ {Head(s)}
      BY <1>1, <1>3, <1>5 DEF ElementsOf, Distinct
    <2>3. ASSUME NEW k \in DOMAIN s, s[k] # Head(s)
          PROVE  s[k] \in ElementsOf(Tail(s))
      BY <1>1, <1>4, <2>3 DEF ElementsOf
    <2> QED
      BY <2>1, <2>2, <2>3 DEF ElementsOf
  <1>6. 1 \in DOMAIN s /\ Head(s) \in ElementsOf(s)
    BY <1>1 DEF ElementsOf
  <1> QED
    BY <1>1, <1>2, <1>3, <1>5, <1>6

\* Putting an element at the end.
LEMMA AppendElements ==
    ASSUME NEW T, NEW s \in Seq(T), NEW x \in T
    PROVE  /\ Append(s, x) \in Seq(T) /\ Append(s, x) # <<>>
           /\ Len(Append(s, x)) = Len(s) + 1
           /\ \A i \in DOMAIN Append(s, x) :
                  \/ i \in DOMAIN s /\ Append(s, x)[i] = s[i]
                  \/ i = Len(s) + 1 /\ Append(s, x)[i] = x
           /\ ElementsOf(Append(s, x)) = ElementsOf(s) \cup {x}
           /\ Distinct(s) /\ x \notin ElementsOf(s) => Distinct(Append(s, x))
           /\ s # <<>> => Head(Append(s, x)) = Head(s)
  <1>1. /\ Len(s) \in Nat /\ DOMAIN s = 1..Len(s)
        /\ Append(s, x) \in Seq(T) /\ Append(s, x) # <<>>
        /\ Len(Append(s, x)) = Len(s) + 1 /\ DOMAIN Append(s, x) = 1..(Len(s) + 1)
        /\ \A i \in 1..Len(s) : Append(s, x)[i] = s[i]
        /\ Append(s, x)[Len(s) + 1] = x
    BY AppendProperties
  <1>2. /\ Len(s) + 1 \in DOMAIN Append(s, x)
        /\ \A i \in DOMAIN s : i \in DOMAIN Append(s, x)
        /\ \A i \in DOMAIN Append(s, x) :
               \/ i \in DOMAIN s /\ Append(s, x)[i] = s[i]
               \/ i = Len(s) + 1 /\ Append(s, x)[i] = x
    BY <1>1
  <1>3. ElementsOf(Append(s, x)) = ElementsOf(s) \cup {x}
    BY <1>1, <1>2 DEF ElementsOf
  <1>4. Distinct(s) /\ x \notin ElementsOf(s) => Distinct(Append(s, x))
    BY <1>2 DEF ElementsOf, Distinct
  <1>5. s # <<>> => Head(Append(s, x)) = Head(s)
    BY <1>1
  <1> QED
    BY <1>1, <1>2, <1>3, <1>4, <1>5

\* A sequence without repetition has as many elements as places.
LEMMA DistinctSize ==
    ASSUME NEW T, NEW s \in Seq(T), Distinct(s)
    PROVE  IsFiniteSet(ElementsOf(s)) /\ Cardinality(ElementsOf(s)) = Len(s)
  <1>1. Len(s) \in Nat /\ DOMAIN s = 1..Len(s)
    OBVIOUS
  <1>2. IsFiniteSet(1..Len(s)) /\ Cardinality(1..Len(s)) = Len(s)
    <2>1. \A n \in Nat : IsFiniteSet(1..n) /\ Cardinality(1..n) = n
      <3> TAKE n \in Nat
      <3>1. 1 \in Int /\ n \in Int
        OBVIOUS
      <3>2. /\ IsFiniteSet(1..n)
            /\ Cardinality(1..n) = IF 1 > n THEN 0 ELSE n - 1 + 1
        BY <3>1, FS_Interval, Zenon
      <3> DEFINE c == Cardinality(1..n)
      <3>3. c = IF 1 > n THEN 0 ELSE n - 1 + 1
        BY <3>2
      <3> HIDE DEF c
      <3>4. c = n
        BY <3>3
      <3> QED
        BY <3>2, <3>4 DEF c
    <2> QED
      BY <1>1, <2>1, Zenon
  <1>3. s \in Bijection(1..Len(s), ElementsOf(s))
    BY <1>1 DEF Bijection, Injection, Surjection, IsInjective, ElementsOf, Distinct
  <1> QED
    BY <1>2, <1>3, FS_Bijection DEF ExistsBijection

--------------------------------------------------------------------------------
\* Frames.

\* Padding a frame that leaves room for the check sum gives whole blocks that fit.
LEMMA PaddedFits ==
    ASSUME NEW n \in Nat, n + Crc =< MaxLength
    PROVE  Padded(n) \in Nat /\ Padded(n) =< MaxLength /\ Padded(n) % Block = 0
  <1> DEFINE m == n + Crc - 1
             q == m \div Block
             b == MaxLength \div Block
  <1>1. Block \in Nat /\ Block > 0 /\ MaxLength \in Nat /\ Crc \in Nat /\ m \in Nat
    BY PoolAssumption
  <1>2. MaxLength = b * Block /\ b \in Nat
    BY <1>1, PoolAssumption
  <1>3. q \in Nat /\ q * Block =< m
    BY <1>1
  <1> HIDE DEF q, b
  <1>4. q < b
    <2>1. q * Block < b * Block
      BY <1>1, <1>2, <1>3
    <2> QED
      BY <2>1, <1>1, <1>2, <1>3
  <1>5. Padded(n) = Block * (q + 1)
    BY DEF Padded, q
  <1>6. (q + 1) * Block =< b * Block
    BY <1>1, <1>2, <1>3, <1>4
  <1>7. (Block * (q + 1)) % Block = 0
    BY <1>1, <1>3
  <1> QED
    BY <1>1, <1>2, <1>3, <1>5, <1>6, <1>7

\* Where the free transfers are.
LEMMA RingElements == InRing = ElementsOf(free)
  BY DEF InRing, ElementsOf

\* Counting the transfers: as long as one is flying the ring has room, also for the
\* element that a pop has not published yet.
LEMMA RoomWhileFlying ==
    ASSUME TypeOK, EveryTransferOnce, OwnerHolds
    PROVE  RecycleHasRoom
  <1> SUFFICES ASSUME NEW t \in flying
               PROVE  ~RingIsFull
    BY DEF RecycleHasRoom
  <1>1. IsFiniteSet(InRing) /\ Cardinality(InRing) = Len(free) /\ Len(free) \in Nat
    BY RingElements, DistinctSize DEF TypeOK, EveryTransferOnce, Distinct
  <1>2. IsFiniteSet(InRing \cup {t}) /\ Cardinality(InRing \cup {t}) = Len(free) + 1
    BY <1>1, FS_AddElement DEF EveryTransferOnce
  <1>3. Cardinality(Transfers) \in Nat /\ Cardinality(Transfers) =< RingSize /\ RingSize \in Nat
    BY PoolAssumption, FS_CardinalityType
  <1>4. CASE ~unpublished
    <2>1. InRing \cup {t} \in SUBSET Transfers
      BY DEF EveryTransferOnce, TypeOK
    <2>2. Cardinality(InRing \cup {t}) =< Cardinality(Transfers)
      BY <2>1, PoolAssumption, FS_Subset
    <2> QED
      BY <1>1, <1>2, <1>3, <1>4, <2>2 DEF RingIsFull
  <1>5. CASE unpublished
    <2>1. taken \in Transfers /\ taken \notin InRing \cup {t}
      BY <1>5 DEF OwnerHolds, EveryTransferOnce, TypeOK
    <2>2. Cardinality((InRing \cup {t}) \cup {taken}) = Len(free) + 2
      <3> DEFINE ring == InRing \cup {t}
      <3>1. IsFiniteSet(ring) /\ Cardinality(ring) = Len(free) + 1 /\ taken \notin ring
        BY <1>2, <2>1
      <3> HIDE DEF ring
      <3>2. Cardinality(ring \cup {taken}) = Cardinality(ring) + 1
        BY <3>1, FS_AddElement
      <3>3. Cardinality(ring \cup {taken}) = Len(free) + 2
        BY <1>1, <3>1, <3>2
      <3> QED
        BY <3>3 DEF ring
    <2>3. (InRing \cup {t}) \cup {taken} \in SUBSET Transfers
      BY <2>1 DEF EveryTransferOnce, TypeOK
    <2>4. Cardinality((InRing \cup {t}) \cup {taken}) =< Cardinality(Transfers)
      BY <2>3, PoolAssumption, FS_Subset
    <2> QED
      BY <1>1, <1>3, <1>5, <2>2, <2>4 DEF RingIsFull
  <1> QED
    BY <1>4, <1>5 DEF TypeOK

--------------------------------------------------------------------------------
\* The actions.

LEMMA InitIndInv == Init => IndInv
  <1> SUFFICES ASSUME Init
               PROVE  IndInv
    OBVIOUS
  <1> DEFINE n == Cardinality(Transfers)
  <1>1. n \in Nat /\ IsFiniteSet(1..n) /\ Cardinality(1..n) = n
    BY PoolAssumption, FS_CardinalityType, FS_Interval
  <1>2. /\ free \in [1..n -> Transfers] /\ free \in Seq(Transfers) /\ DOMAIN free = 1..n
        /\ Distinct(free)
    BY <1>1 DEF Init, Distinct
  <1>3. InRing = Transfers
    <2>1. Cardinality(InRing) = n
      BY <1>1, <1>2, DistinctSize, RingElements
    <2>2. InRing \in SUBSET Transfers
      BY <1>2 DEF InRing
    <2> QED
      BY <2>1, <2>2, PoolAssumption, FS_Subset
  <1>4. TypeOK
    BY <1>2, PoolAssumption DEF Init, TypeOK, NoChunk
  <1>5. EveryTransferOnce
    BY <1>2, <1>3, PoolAssumption DEF Init, EveryTransferOnce, Distinct
  <1>6. OwnerHolds /\ FilledWell /\ FramesWellFormed
    BY <1>3 DEF Init, OwnerHolds, FilledWell, FramesWellFormed
  <1>7. OnlyFrontFilled
    BY <1>2 DEF Init, OnlyFrontFilled
  <1> QED
    BY <1>4, <1>5, <1>6, <1>7 DEF IndInv

\* Steps that move nothing but the owner, or the published counter of the ring.
LEMMA QuietSteps ==
    ASSUME IndInv,
           \/ \E size \in Chunks, ty \in Types : Request(size, ty)
           \/ FetchExhausted \/ TriggerEmpty \/ PublishOut \/ SubmitFails
           \/ Destroy \/ FinishDestroy \/ GiveUp \/ UNCHANGED vars
    PROVE  IndInv'
  <1>1. UNCHANGED <<free, length, type, flying, taken, released, gathered>>
    BY DEF Request, FetchExhausted, TriggerEmpty, PublishOut, SubmitFails, Destroy,
           FinishDestroy, GiveUp, vars
  <1>2. unpublished' = unpublished \/ (unpublished' = FALSE)
    BY DEF Request, FetchExhausted, TriggerEmpty, PublishOut, SubmitFails, Destroy,
           FinishDestroy, GiveUp, vars
  <1>3. TypeOK'
    <2>1. want' \in [size : Chunks \cup {0}, type : Types \cup {NoType}]
      BY DEF Request, FetchExhausted, TriggerEmpty, PublishOut, SubmitFails, Destroy,
             FinishDestroy, GiveUp, vars, IndInv, TypeOK
    <2>2. pc' = pc \/ pc' \in {"fetch", "idle", "terminated", "draining", "destroyed", "leaked"}
      BY DEF Request, FetchExhausted, TriggerEmpty, PublishOut, SubmitFails, Destroy,
             FinishDestroy, GiveUp, vars
    <2> QED
      BY <1>1, <1>2, <2>1, <2>2 DEF IndInv, TypeOK
  <1>4. EveryTransferOnce' /\ FilledWell' /\ FramesWellFormed' /\ OnlyFrontFilled'
    BY <1>1 DEF IndInv, EveryTransferOnce, FilledWell, FramesWellFormed, OnlyFrontFilled, InRing
  <1>5. OwnerHolds'
    <2>1. ASSUME NEW size \in Chunks, NEW ty \in Types, Request(size, ty)
          PROVE  OwnerHolds'
      BY <2>1 DEF Request, IndInv, OwnerHolds
    <2>2. CASE FetchExhausted \/ TriggerEmpty \/ PublishOut \/ SubmitFails
      BY <2>2, <1>1 DEF FetchExhausted, TriggerEmpty, PublishOut, SubmitFails, IndInv, OwnerHolds
    <2>3. CASE Destroy \/ FinishDestroy \/ GiveUp \/ UNCHANGED vars
      BY <2>3, <1>1 DEF Destroy, FinishDestroy, GiveUp, vars, IndInv, OwnerHolds
    <2> QED
      BY <2>1, <2>2, <2>3
  <1> QED
    BY <1>3, <1>4, <1>5 DEF IndInv

\* Gathering a chunk fills the front transfer.
LEMMA FetchStep ==
    ASSUME IndInv, FetchFromFront
    PROVE  IndInv'
  <1> DEFINE t == Head(free)
  <1>1. /\ free # <<>> /\ Fits(t)
        /\ length' = [length EXCEPT ![t] = @ + want.size]
        /\ type' = [type EXCEPT ![t] = want.type]
        /\ gathered' = [gathered EXCEPT ![t] = @ \cup {want.type}]
        /\ pc = "fetch" /\ pc' = "fetched" /\ want' = NoChunk
        /\ UNCHANGED <<free, unpublished, flying, taken, released>>
    BY DEF FetchFromFront
  <1>2. /\ want.size \in Chunks /\ want.type \in Types /\ want.size \in Nat
        /\ want.type # NoType /\ NoChunk \in [size : Chunks \cup {0}, type : Types \cup {NoType}]
    BY <1>1, PoolAssumption DEF IndInv, OwnerHolds, NoChunk
  <1>3. t \in InRing /\ t \in Transfers /\ t \notin flying /\ taken = None /\ t = free[1]
    BY <1>1, TailElements, RingElements DEF IndInv, TypeOK, EveryTransferOnce, OwnerHolds
  <1> HIDE DEF t
  <1>4. TypeOK'
    <2>1. length[t] + want.size \in Nat /\ gathered[t] \cup {want.type} \in SUBSET Types
      BY <1>2, <1>3 DEF IndInv, TypeOK
    <2>2. /\ length' \in [Transfers -> Nat] /\ type' \in [Transfers -> Types \cup {NoType}]
          /\ gathered' \in [Transfers -> SUBSET Types]
      BY <1>1, <1>2, <2>1 DEF IndInv, TypeOK
    <2> QED
      BY <1>1, <1>2, <2>2 DEF IndInv, TypeOK
  <1>5. EveryTransferOnce'
    BY <1>1 DEF IndInv, EveryTransferOnce, InRing
  <1>6. /\ length'[t] = length[t] + want.size /\ type'[t] = want.type
        /\ gathered'[t] = gathered[t] \cup {want.type}
        /\ \A u \in Transfers \ {t} : length'[u] = length[u] /\ type'[u] = type[u]
                                      /\ gathered'[u] = gathered[u]
    BY <1>1, <1>3 DEF IndInv, TypeOK
  <1>7. length'[t] + Crc =< MaxLength /\ gathered'[t] = {type'[t]}
    <2>1. MaxLength - length[t] >= want.size + Crc /\ type[t] \in {NoType, want.type}
      BY <1>1 DEF Fits, FitsAnyType
    <2>2. length[t] \in Nat /\ MaxLength \in Nat /\ Crc \in Nat
      BY <1>3, PoolAssumption DEF IndInv, TypeOK
    <2>3. gathered[t] \in {{}, {want.type}}
      BY <1>3, <2>1 DEF IndInv, FilledWell
    <2> QED
      BY <1>2, <1>6, <2>1, <2>2, <2>3
  <1>8. InRing' = InRing /\ InRing \subseteq Transfers
    BY <1>1 DEF InRing, IndInv, EveryTransferOnce
  <1>9. FilledWell'
    BY <1>1, <1>2, <1>3, <1>6, <1>7, <1>8 DEF IndInv, FilledWell
  <1>10. OwnerHolds'
    BY <1>1, <1>2, <1>3, <1>6 DEF IndInv, OwnerHolds, t
  <1>11. FramesWellFormed'
    BY <1>1, <1>3, <1>6 DEF IndInv, FramesWellFormed, TypeOK
  <1>12. OnlyFrontFilled'
    <2> SUFFICES ASSUME NEW i \in DOMAIN free \ {1}
                 PROVE  length'[free[i]] = Prefill /\ type'[free[i]] = NoType
      BY <1>1 DEF OnlyFrontFilled
    <2>1. 1 \in DOMAIN free
      BY <1>1, TailElements DEF IndInv, TypeOK
    <2>2. free[i] \in Transfers \ {t}
      BY <2>1, <1>3, <1>8 DEF IndInv, EveryTransferOnce, InRing
    <2> QED
      BY <2>2, <1>6 DEF IndInv, OnlyFrontFilled
  <1> QED
    BY <1>4, <1>5, <1>9, <1>10, <1>11, <1>12 DEF IndInv

\* Taking the front transfer out of the ring: what FetchSubmitsFront and Trigger have in
\* common.  The transfer taken is never an empty one.
LEMMA PopStep ==
    ASSUME IndInv, FetchSubmitsFront \/ Trigger
    PROVE  IndInv'
  <1> DEFINE t == Head(free)
  <1>1. /\ taken' = t /\ free' = Tail(free) /\ unpublished' = TRUE
        /\ UNCHANGED <<length, type, flying, want, released, gathered>>
        /\ \/ pc = "fetch" /\ pc' = "popping_fetch"
           \/ pc = "fetched" /\ pc' = "popping"
    BY DEF FetchSubmitsFront, Trigger, Pop
  <1>2. free # <<>> /\ free \in Seq(Transfers) /\ Distinct(free) /\ taken = None
    BY DEF FetchSubmitsFront, Trigger, IndInv, OwnerHolds, TypeOK, EveryTransferOnce, Distinct
  <1>3. /\ t \in Transfers /\ t \in InRing /\ t # None
        /\ Tail(free) \in Seq(Transfers) /\ Distinct(Tail(free))
        /\ InRing' = InRing \ {t}
    <2>1. /\ t \in Transfers /\ t \in ElementsOf(free)
          /\ Tail(free) \in Seq(Transfers) /\ Distinct(Tail(free))
          /\ ElementsOf(Tail(free)) = ElementsOf(free) \ {t}
      BY <1>2, TailElements, Zenon
    <2>2. InRing' = ElementsOf(Tail(free))
      BY <1>1 DEF InRing, ElementsOf
    <2>3. None \notin Transfers
      BY PoolAssumption
    <2> QED
      BY <2>1, <2>2, <2>3, RingElements, Zenon
  <1>4. type[t] # NoType
    <2>1. CASE Trigger
      BY <2>1 DEF Trigger, IndInv, OwnerHolds
    <2>2. CASE FetchSubmitsFront
      <3> SUFFICES ASSUME type[t] = NoType
                   PROVE  FALSE
        OBVIOUS
      <3>1. ~Fits(t) /\ want.size \in Chunks
        BY <2>2 DEF FetchSubmitsFront, IndInv, OwnerHolds
      <3>2. length[t] = Prefill
        BY <1>3 DEF IndInv, FilledWell
      <3>3. /\ MaxLength \in Nat /\ Prefill \in Nat /\ Crc \in Nat /\ want.size \in Nat
            /\ Prefill + want.size + Crc =< MaxLength
        BY <3>1, PoolAssumption
      <3> HIDE DEF t
      <3>4. MaxLength - length[t] >= want.size + Crc
        BY <3>2, <3>3
      <3> QED
        BY <3>1, <3>4 DEF Fits, FitsAnyType
    <2> QED
      BY <2>1, <2>2
  <1>5. \A i \in DOMAIN free' : i + 1 \in DOMAIN free \ {1} /\ free'[i] = free[i + 1]
    BY <1>1, <1>2, TailElements
  <1> HIDE DEF t
  <1>6. TypeOK'
    BY <1>1, <1>3 DEF IndInv, TypeOK
  <1>7. EveryTransferOnce'
    BY <1>1, <1>2, <1>3 DEF IndInv, EveryTransferOnce, Distinct
  <1>8. OwnerHolds'
    BY <1>1, <1>3 DEF IndInv, OwnerHolds
  <1>9. FilledWell'
    BY <1>1, <1>2, <1>3, <1>4 DEF IndInv, FilledWell
  <1>10. FramesWellFormed'
    BY <1>1 DEF IndInv, FramesWellFormed
  <1>11. OnlyFrontFilled'
    BY <1>1, <1>5 DEF IndInv, OnlyFrontFilled
  <1> QED
    BY <1>6, <1>7, <1>8, <1>9, <1>10, <1>11 DEF IndInv

\* The frame that libusb takes is padded to whole blocks.
LEMMA SubmitStep ==
    ASSUME IndInv, Submit
    PROVE  IndInv'
  <1>1. /\ ~unpublished /\ UNCHANGED <<free, unpublished, type, want, released, gathered>>
        /\ length' = [length EXCEPT ![taken] = Padded(@)]
        /\ flying' = flying \cup {taken} /\ taken' = None
        /\ \/ pc = "popping" /\ pc' = "idle"
           \/ pc = "popping_fetch" /\ pc' = "fetch"
    BY DEF Submit
  <1>2. /\ taken \in Transfers /\ taken # None /\ taken \notin InRing \cup flying \cup released
        /\ type[taken] # NoType /\ length[taken] \in Nat
        /\ length[taken] + Crc =< MaxLength /\ gathered[taken] = {type[taken]}
    BY <1>1 DEF IndInv, OwnerHolds, TypeOK, EveryTransferOnce, FilledWell
  <1>3. /\ Padded(length[taken]) \in Nat /\ Padded(length[taken]) =< MaxLength
        /\ Padded(length[taken]) % Block = 0
    BY <1>2, PaddedFits
  <1>4. /\ length' \in [Transfers -> Nat] /\ length'[taken] = Padded(length[taken])
        /\ \A u \in Transfers \ {taken} : length'[u] = length[u]
    BY <1>1, <1>2, <1>3 DEF IndInv, TypeOK
  <1>5. InRing' = InRing
    BY <1>1 DEF InRing
  <1>6. TypeOK'
    BY <1>1, <1>2, <1>4 DEF IndInv, TypeOK
  <1>7. EveryTransferOnce'
    BY <1>1, <1>2, <1>5, PoolAssumption DEF IndInv, EveryTransferOnce, TypeOK
  <1>8. OwnerHolds'
    BY <1>1 DEF IndInv, OwnerHolds, TypeOK
  <1>9. FilledWell'
    BY <1>1, <1>2, <1>4, <1>5 DEF IndInv, FilledWell, EveryTransferOnce
  <1>10. FramesWellFormed'
    BY <1>1, <1>2, <1>3, <1>4 DEF IndInv, FramesWellFormed, TypeOK
  <1>11. OnlyFrontFilled'
    <2>1. \A i \in DOMAIN free \ {1} : free[i] \in Transfers \ {taken}
      BY <1>2 DEF InRing, IndInv, EveryTransferOnce
    <2> QED
      BY <1>1, <1>4, <2>1 DEF IndInv, OnlyFrontFilled
  <1> QED
    BY <1>6, <1>7, <1>8, <1>9, <1>10, <1>11 DEF IndInv

\* A completed transfer goes back to the ring, empty.
LEMMA RecycleStep ==
    ASSUME IndInv, NEW t \in Transfers, Recycle(t)
    PROVE  IndInv'
  <1>1. ~RingIsFull
    BY RoomWhileFlying DEF Recycle, IndInv, RecycleHasRoom
  <1>2. /\ t \in flying /\ flying' = flying \ {t}
        /\ length' = [length EXCEPT ![t] = Prefill]
        /\ type' = [type EXCEPT ![t] = NoType]
        /\ gathered' = [gathered EXCEPT ![t] = {}]
        /\ free' = Append(free, t)
        /\ UNCHANGED <<pc, unpublished, want, taken, released>>
    BY <1>1 DEF Recycle
  <1>3. free \in Seq(Transfers) /\ Distinct(free) /\ t \notin InRing
    BY <1>2 DEF IndInv, TypeOK, EveryTransferOnce, Distinct
  <1>4. /\ free' \in Seq(Transfers) /\ free' # <<>> /\ Distinct(free')
        /\ InRing' = InRing \cup {t}
        /\ \A i \in DOMAIN free' : (i \in DOMAIN free /\ free'[i] = free[i]) \/ free'[i] = t
        /\ free # <<>> => Head(free') = Head(free)
    <2>1. t \notin ElementsOf(free)
      BY <1>3, RingElements
    <2>2. /\ Append(free, t) \in Seq(Transfers) /\ Append(free, t) # <<>>
          /\ Distinct(Append(free, t))
          /\ ElementsOf(Append(free, t)) = ElementsOf(free) \cup {t}
          /\ \A i \in DOMAIN Append(free, t) :
                 \/ i \in DOMAIN free /\ Append(free, t)[i] = free[i]
                 \/ Append(free, t)[i] = t
          /\ free # <<>> => Head(Append(free, t)) = Head(free)
      BY <1>3, <2>1, AppendElements
    <2>3. InRing' = ElementsOf(Append(free, t))
      BY <1>2 DEF InRing, ElementsOf
    <2> QED
      BY <1>2, <2>2, <2>3, RingElements
  <1>5. /\ length'[t] = Prefill /\ type'[t] = NoType /\ gathered'[t] = {}
        /\ \A u \in Transfers \ {t} : length'[u] = length[u] /\ type'[u] = type[u]
                                      /\ gathered'[u] = gathered[u]
    BY <1>2 DEF IndInv, TypeOK
  <1>6. TypeOK'
    <2>1. /\ length' \in [Transfers -> Nat] /\ type' \in [Transfers -> Types \cup {NoType}]
          /\ gathered' \in [Transfers -> SUBSET Types]
      BY <1>2, PoolAssumption DEF IndInv, TypeOK
    <2> QED
      BY <1>2, <1>4, <2>1 DEF IndInv, TypeOK
  <1>7. EveryTransferOnce'
    BY <1>2, <1>4 DEF IndInv, EveryTransferOnce, Distinct
  <1>8. OwnerHolds'
    <2>1. ASSUME pc = "fetched"
          PROVE  free' # <<>> /\ type'[Head(free')] # NoType
      <3>1. free # <<>> /\ type[Head(free)] # NoType /\ Head(free) \in InRing
        BY <1>3, <2>1, TailElements, RingElements DEF IndInv, OwnerHolds
      <3>2. Head(free) \in Transfers \ {t}
        BY <3>1, <1>3 DEF IndInv, EveryTransferOnce
      <3> QED
        BY <3>1, <3>2, <1>4, <1>5
    <2> QED
      BY <1>2, <2>1 DEF IndInv, OwnerHolds
  <1>9. FilledWell'
    <2>1. t # taken /\ InRing \subseteq Transfers /\ taken \in Transfers \cup {None}
      BY <1>2 DEF IndInv, EveryTransferOnce, TypeOK
    <2> QED
      BY <1>2, <1>3, <1>4, <1>5, <2>1 DEF IndInv, FilledWell
  <1>10. FramesWellFormed'
    BY <1>2, <1>5 DEF IndInv, FramesWellFormed, TypeOK
  <1>11. OnlyFrontFilled'
    <2> SUFFICES ASSUME NEW i \in DOMAIN free' \ {1}
                 PROVE  length'[free'[i]] = Prefill /\ type'[free'[i]] = NoType
      BY DEF OnlyFrontFilled
    <2>1. CASE free'[i] = t
      BY <2>1, <1>5
    <2>2. CASE i \in DOMAIN free /\ free'[i] = free[i]
      <3>1. free[i] \in Transfers \ {t}
        BY <2>2, <1>3 DEF InRing, IndInv, EveryTransferOnce
      <3> QED
        BY <2>2, <3>1, <1>5 DEF IndInv, OnlyFrontFilled
    <2> QED
      BY <1>4, <2>1, <2>2
  <1> QED
    BY <1>6, <1>7, <1>8, <1>9, <1>10, <1>11 DEF IndInv

\* The destructor frees what is in the ring.
LEMMA ReleaseStep ==
    ASSUME IndInv, Release
    PROVE  IndInv'
  <1>1. /\ pc = "draining" /\ released' = released \cup InRing /\ free' = <<>>
        /\ UNCHANGED <<unpublished, length, type, flying, pc, want, taken, gathered>>
    BY DEF Release, InRing
  <1>2. InRing' = {} /\ DOMAIN free' = {} /\ free' \in Seq(Transfers)
    BY <1>1 DEF InRing
  <1>3. TypeOK' /\ EveryTransferOnce'
    BY <1>1, <1>2 DEF IndInv, TypeOK, EveryTransferOnce
  <1>4. OwnerHolds' /\ FilledWell' /\ FramesWellFormed' /\ OnlyFrontFilled'
    BY <1>1, <1>2 DEF IndInv, OwnerHolds, FilledWell, FramesWellFormed, OnlyFrontFilled
  <1> QED
    BY <1>3, <1>4 DEF IndInv

--------------------------------------------------------------------------------
\* The theorems.

\* The inductive invariant holds in every reachable state.
THEOREM Invariance == Spec => []IndInv
  <1>1. IndInv /\ [Next]_vars => IndInv'
    BY QuietSteps, FetchStep, PopStep, SubmitStep, RecycleStep, ReleaseStep
       DEF Next, Gather, OwnerStep, DrainStep
  <1> QED
    BY <1>1, InitIndInv, PTL DEF Spec

\* No transfer is lost, or in two places at once.
THEOREM TransferSafe == Spec => []EveryTransferOnce
  <1>1. IndInv => EveryTransferOnce
    BY DEF IndInv
  <1> QED
    BY <1>1, Invariance, PTL

\* A transfer that comes back always finds room in the ring.
THEOREM RoomSafe == Spec => []RecycleHasRoom
  <1>1. IndInv => RecycleHasRoom
    BY RoomWhileFlying DEF IndInv
  <1> QED
    BY <1>1, Invariance, PTL

\* What libusb is given are whole blocks that fit, of one type.
THEOREM FrameSafe == Spec => []FramesWellFormed
  <1>1. IndInv => FramesWellFormed
    BY DEF IndInv
  <1> QED
    BY <1>1, Invariance, PTL

\* Behind the front of the ring there are only empty transfers.
THEOREM FrontOnly == Spec => []OnlyFrontFilled
  <1>1. IndInv => OnlyFrontFilled
    BY DEF IndInv
  <1> QED
    BY <1>1, Invariance, PTL

================================================================================
