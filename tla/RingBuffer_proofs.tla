---------------------------- MODULE RingBuffer_proofs ----------------------------
(* Theorems about RingBuffer, for every set of elements, every size and every width *)
(* of the counters that the size divides.                                          *)
EXTENDS RingBuffer, SequenceTheorems, TLAPS

--------------------------------------------------------------------------------
\* The inductive invariant, part by part.

\* How far each side is tells what it may count on: a batch fits, or is there, until its
\* own side is done with it, and a consumer in wait_data loaded an in_ equal to out_.
BatchesFit ==
    /\ Used =< Size
    /\ IF ppc = "construct" THEN pdone =< pcount /\ pcount > 0 /\ Used + pcount =< Size
                            ELSE pcount = 0 /\ pdone = 0
    /\ IF cpc = "destroy" THEN cdone =< ccount /\ ccount > 0 /\ ccount =< Used
                          ELSE ccount = 0 /\ cdone = 0
    /\ cpc = "wait" => cin = out_

\* The inductive invariant.
IndInv == TypeOK /\ BatchesFit /\ NothingLeaks /\ NoMissedData

--------------------------------------------------------------------------------
\* Remainders by a symbolic divisor.

LEMMA Distributes ==
    \A x, y, d \in Int : /\ (x + y) * d = (x * d) + (y * d)
                         /\ (x - y) * d = (x * d) - (y * d)
  OBVIOUS

\* A remainder is between 0 and the divisor.
LEMMA RemainderType == \A a \in Int, d \in Nat \ {0} : a % d \in 0..(d - 1)
  OBVIOUS

\* Every integer is a multiple of the divisor and its remainder.
LEMMA Division == \A a \in Int, d \in Nat \ {0} : \E q \in Int : a = (q * d) + (a % d)
  <1> TAKE a \in Int, d \in Nat \ {0}
  <1>1. a \div d \in Int /\ a = ((a \div d) * d) + (a % d)
    OBVIOUS
  <1> QED
    BY <1>1

\* ... and there is only one way to split it.
LEMMA Remainder == \A q \in Int, d \in Nat \ {0} : \A r \in 0..(d - 1) : ((q * d) + r) % d = r
  OBVIOUS

\* Adding a multiple of the divisor leaves the remainder as it is.
LEMMA SameRemainder == \A b, q \in Int, d \in Nat \ {0} : ((q * d) + b) % d = b % d
  <1> TAKE b, q \in Int, d \in Nat \ {0}
  <1> DEFINE r == b % d
  <1>1. r \in 0..(d - 1)
    BY RemainderType
  <1>2. PICK p \in Int : b = (p * d) + r
    BY Division
  <1> HIDE DEF r
  <1>3. (q * d) + b = ((q + p) * d) + r
    <2>1. (q + p) * d = (q * d) + (p * d)
      BY Distributes
    <2> QED
      BY <1>1, <1>2, <2>1
  <1>4. q + p \in Int /\ (((q + p) * d) + r) % d = r
    BY <1>1, Remainder
  <1>5. ((q * d) + b) % d = r
    BY <1>3, <1>4
  <1> QED
    BY <1>5 DEF r

\* Two numbers closer than the divisor have different remainders.
LEMMA Window ==
    \A a, i, j \in Int, d \in Nat \ {0} :
        i - j < d /\ j - i < d /\ (a + i) % d = (a + j) % d => i = j
  <1> SUFFICES ASSUME NEW a \in Int, NEW i \in Int, NEW j \in Int, NEW d \in Nat \ {0},
                      i - j < d, j - i < d, (a + i) % d = (a + j) % d
               PROVE  i = j
    OBVIOUS
  <1> DEFINE r == (a + i) % d
             x(p, q) == p - q
  <1>1. a + i \in Int /\ a + j \in Int /\ r \in Int
    BY RemainderType
  <1>2. PICK p \in Int : a + i = (p * d) + r
    BY <1>1, Division
  <1>3. PICK q \in Int : a + j = (q * d) + r
    BY <1>1, Division
  <1> HIDE DEF r
  <1>4. x(p, q) \in Int /\ i - j = x(p, q) * d
    <2>1. (p - q) * d = (p * d) - (q * d)
      BY Distributes
    <2>2. p * d \in Int /\ q * d \in Int
      OBVIOUS
    <2> QED
      BY <1>1, <1>2, <1>3, <2>1, <2>2
  <1> HIDE DEF x
  <1>5. x(p, q) = 0
    <2>1. x(p, q) * d < d /\ x(p, q) * d > -d
      BY <1>4
    <2> QED
      BY <1>4, <2>1
  <1> QED
    BY <1>4, <1>5

\* A number less than a round away is at most one round off its remainder.
LEMMA OnceAround ==
    \A x \in Int, d \in Nat \ {0} :
        -d =< x /\ x < 2 * d
            => x % d = IF x < 0 THEN x + d ELSE IF x < d THEN x ELSE x - d
  <1> SUFFICES ASSUME NEW x \in Int, NEW d \in Nat \ {0}, -d =< x, x < 2 * d
               PROVE  x % d = IF x < 0 THEN x + d ELSE IF x < d THEN x ELSE x - d
    OBVIOUS
  <1>1. CASE x < 0
    <2>1. x = ((-1) * d) + (x + d) /\ x + d \in 0..(d - 1)
      BY <1>1
    <2> QED
      BY <1>1, <2>1, Remainder
  <1>2. CASE 0 =< x /\ x < d
    <2>1. x = (0 * d) + x /\ x \in 0..(d - 1)
      BY <1>2
    <2> QED
      BY <1>2, <2>1, Remainder
  <1>3. CASE d =< x
    <2>1. x = (1 * d) + (x - d) /\ x - d \in 0..(d - 1)
      BY <1>3
    <2> QED
      BY <1>3, <2>1, Remainder
  <1> QED
    BY <1>1, <1>2, <1>3

--------------------------------------------------------------------------------
\* Counters and slots.

\* What the constants are.
LEMMA Sizes ==
    /\ Size \in Nat \ {0} /\ CounterMod \in Nat \ {0}
    /\ Size \in Int /\ CounterMod \in Int
    /\ Size > 1 /\ CounterMod > Size /\ CounterMod % Size = 0
  BY RingAssumption

\* The lemmas above for the two divisors of the ring.
LEMMA SlotRemainder ==
    /\ \A a \in Int : a % Size \in 0..(Size - 1)
    /\ \A a \in Int : \E q \in Int : a = (q * Size) + (a % Size)
    /\ \A b, q \in Int : ((q * Size) + b) % Size = b % Size
    /\ \A a, i, j \in Int : i - j < Size /\ j - i < Size /\ (a + i) % Size = (a + j) % Size => i = j
    /\ \A x \in Int : -Size =< x /\ x < 2 * Size
           => x % Size = IF x < 0 THEN x + Size ELSE IF x < Size THEN x ELSE x - Size
  <1>1. \A a \in Int : a % Size \in 0..(Size - 1)
    BY Sizes, RemainderType, Zenon
  <1>2. \A a \in Int : \E q \in Int : a = (q * Size) + (a % Size)
    BY Sizes, Division, Zenon
  <1>3. \A b, q \in Int : ((q * Size) + b) % Size = b % Size
    BY Sizes, SameRemainder, Zenon
  <1>4. \A a, i, j \in Int :
            i - j < Size /\ j - i < Size /\ (a + i) % Size = (a + j) % Size => i = j
    BY Sizes, Window, Zenon
  <1>5. \A x \in Int : -Size =< x /\ x < 2 * Size
            => x % Size = IF x < 0 THEN x + Size ELSE IF x < Size THEN x ELSE x - Size
    BY Sizes, OnceAround, Zenon
  <1> QED
    BY <1>1, <1>2, <1>3, <1>4, <1>5

LEMMA CounterRemainder ==
    /\ \A a \in Int : a % CounterMod \in 0..(CounterMod - 1)
    /\ \A a \in Int : \E q \in Int : a = (q * CounterMod) + (a % CounterMod)
    /\ \A x \in Int : -CounterMod =< x /\ x < 2 * CounterMod
           => x % CounterMod = IF x < 0 THEN x + CounterMod
                               ELSE IF x < CounterMod THEN x ELSE x - CounterMod
  BY Sizes, RemainderType, Division, OnceAround, Zenon

\* The slot of the k-th place behind the consumer's counter.
At(k) == (out_ + k) % Size

\* The size divides the range of the counters: a counter that wraps around keeps its slot.
LEMMA WrapKeepsSlot ==
    \A c, k \in Int : ((c % CounterMod) + k) % Size = (c + k) % Size
  <1> TAKE c, k \in Int
  <1> DEFINE w == c % CounterMod
  <1>1. w \in Int
    BY CounterRemainder
  <1>2. PICK p \in Int : c = (p * CounterMod) + w
    BY CounterRemainder
  <1>3. PICK m \in Int : CounterMod = m * Size
    <2>1. PICK m \in Int : CounterMod = (m * Size) + (CounterMod % Size)
      BY Sizes, SlotRemainder
    <2> QED
      BY <2>1, Sizes
  <1> HIDE DEF w
  <1>4. c + k = ((p * m) * Size) + (w + k)
    <2>1. p * (m * Size) = (p * m) * Size
      BY Sizes
    <2> QED
      BY <1>1, <1>2, <1>3, <2>1
  <1>5. c + k \in Int /\ w + k \in Int /\ p * m \in Int
    BY <1>1
  <1>6. (c + k) % Size = (w + k) % Size
    <2>1. (((p * m) * Size) + (w + k)) % Size = (w + k) % Size
      BY <1>5, SlotRemainder, Zenon
    <2> QED
      BY <1>4, <2>1
  <1> QED
    BY <1>6 DEF w

\* The two slices of a batch are the slots that follow the counter, around the end.
LEMMA SlotFollows ==
    ASSUME NEW c \in Int, NEW count \in 0..Size, NEW i \in 0..(count - 1)
    PROVE  Slot(c, i, count) = (c + i) % Size
  <1> DEFINE r == c % Size
             to == r + i
  <1>1. r \in 0..(Size - 1)
    BY SlotRemainder
  <1>2. PICK q \in Int : c = (q * Size) + r
    BY SlotRemainder
  <1>3. Slot(c, i, count) = LET slice == Min2(count, Size - r)
                            IN  IF i < slice THEN r + i ELSE i - slice
    BY DEF Slot
  <1> HIDE DEF r
  <1>4. to \in Int /\ -Size =< to /\ to < 2 * Size /\ to >= 0
    BY <1>1, Sizes
  <1>5. Slot(c, i, count) = IF to < Size THEN to ELSE to - Size
    BY <1>1, <1>3, Sizes DEF Min2
  <1>6. c + i \in Int /\ c + i = (q * Size) + to
    BY <1>1, <1>2, Sizes
  <1> HIDE DEF to
  <1>7. (c + i) % Size = to % Size
    <2>1. ((q * Size) + to) % Size = to % Size
      BY <1>4, SlotRemainder, Zenon
    <2> QED
      BY <1>6, <2>1
  <1>8. to % Size = IF to < 0 THEN to + Size ELSE IF to < Size THEN to ELSE to - Size
    BY <1>4, SlotRemainder, Zenon
  <1> QED
    BY <1>4, <1>5, <1>7, <1>8

\* How many elements are between the counters.
LEMMA UsedIs ==
    ASSUME TypeOK
    PROVE  /\ Used = IF in_ >= out_ THEN in_ - out_ ELSE (in_ - out_) + CounterMod
           /\ Used \in Nat
  <1> DEFINE x == in_ - out_
  <1>1. x \in Int /\ -CounterMod =< x /\ x < 2 * CounterMod /\ x < CounterMod
    BY Sizes DEF TypeOK
  <1>2. x % CounterMod = IF x < 0 THEN x + CounterMod
                         ELSE IF x < CounterMod THEN x ELSE x - CounterMod
    <2> HIDE DEF x
    <2> QED
      BY <1>1, CounterRemainder, Zenon
  <1> QED
    BY <1>1, <1>2, Sizes DEF TypeOK, Used

\* The producer's slots are those behind the elements in use.
LEMMA ProducerAt ==
    ASSUME TypeOK, NEW k \in Int
    PROVE  (in_ + k) % Size = At(Used + k)
  <1> DEFINE x == out_ + Used
  <1>1. x \in Int /\ -CounterMod =< x /\ x < 2 * CounterMod /\ x >= 0
    BY UsedIs, Sizes DEF TypeOK
  <1>2. x % CounterMod = IF x < 0 THEN x + CounterMod
                         ELSE IF x < CounterMod THEN x ELSE x - CounterMod
    <2> HIDE DEF x
    <2> QED
      BY <1>1, CounterRemainder, Zenon
  <1>3. in_ = x % CounterMod
    BY <1>1, <1>2, UsedIs, Sizes DEF TypeOK
  <1>4. (in_ + k) % Size = (x + k) % Size
    <2> HIDE DEF x
    <2> QED
      BY <1>1, <1>3, WrapKeepsSlot
  <1>5. x + k = out_ + (Used + k)
    BY UsedIs DEF TypeOK
  <1> QED
    BY <1>4, <1>5 DEF At

\* Places fewer than a round apart have slots of their own.
LEMMA AtSlots ==
    ASSUME TypeOK
    PROVE  /\ \A k \in Int : At(k) \in Slots
           /\ \A i, j \in Int : i - j < Size /\ j - i < Size /\ At(i) = At(j) => i = j
  <1>1. out_ \in Int
    BY DEF TypeOK
  <1>2. \A k \in Int : At(k) \in Slots
    BY <1>1, SlotRemainder DEF At, Slots
  <1>3. \A i, j \in Int : i - j < Size /\ j - i < Size /\ At(i) = At(j) => i = j
    BY <1>1, SlotRemainder DEF At
  <1> QED
    BY <1>2, <1>3

\* The slots that the sides work on, as places behind the consumer's counter.
LEMMA WorkedOn ==
    ASSUME TypeOK, BatchesFit
    PROVE  /\ ppc = "construct" /\ pdone < pcount => Slot(in_, pdone, pcount) = At(Used + pdone)
           /\ cpc = "destroy" /\ cdone < ccount => Slot(out_, cdone, ccount) = At(cdone)
  <1>1. ASSUME ppc = "construct", pdone < pcount
        PROVE  Slot(in_, pdone, pcount) = At(Used + pdone)
    <2>1. in_ \in Int /\ pcount \in 0..Size /\ pdone \in 0..(pcount - 1) /\ pdone \in Int
      BY <1>1, Sizes DEF TypeOK
    <2>2. Slot(in_, pdone, pcount) = (in_ + pdone) % Size
      BY <2>1, SlotFollows
    <2> QED
      BY <2>1, <2>2, ProducerAt
  <1>2. ASSUME cpc = "destroy", cdone < ccount
        PROVE  Slot(out_, cdone, ccount) = At(cdone)
    <2>1. out_ \in Int /\ ccount \in 0..Size /\ cdone \in 0..(ccount - 1)
      BY <1>2, Sizes DEF TypeOK
    <2> QED
      BY <2>1, SlotFollows DEF At
  <1> QED
    BY <1>1, <1>2

\* The places in use are those between the two sides.
Places == cdone..(Used + pdone - 1)

LEMMA InUseIs == InUse = {At(k) : k \in Places}
  BY DEF InUse, Places, At

\* Storing in_ adds the batch to what the consumer may take.
LEMMA UsedGrows ==
    ASSUME TypeOK, NEW n \in Nat, Used + n =< Size,
           in_' = (in_ + n) % CounterMod, out_' = out_
    PROVE  Used' = Used + n /\ in_' \in 0..(CounterMod - 1)
  <1> DEFINE x == in_ + n
             y == x % CounterMod
             z == y - out_
  <1>1. x \in Int /\ -CounterMod =< x /\ x < 2 * CounterMod /\ x >= 0
    BY UsedIs, Sizes DEF TypeOK
  <1>2. y = IF x < 0 THEN x + CounterMod ELSE IF x < CounterMod THEN x ELSE x - CounterMod
    <2> HIDE DEF x
    <2> QED
      BY <1>1, CounterRemainder, Zenon
  <1>3. y \in 0..(CounterMod - 1)
    BY <1>1, <1>2, Sizes
  <1> HIDE DEF y
  <1>4. z \in Int /\ -CounterMod =< z /\ z < 2 * CounterMod
    BY <1>3, Sizes DEF TypeOK
  <1>5. z % CounterMod = IF z < 0 THEN z + CounterMod
                         ELSE IF z < CounterMod THEN z ELSE z - CounterMod
    <2> HIDE DEF z
    <2> QED
      BY <1>4, CounterRemainder, Zenon
  <1>6. z % CounterMod = Used + n
    BY <1>1, <1>2, <1>3, <1>4, <1>5, UsedIs, Sizes DEF TypeOK
  <1>7. in_' = y
    BY DEF y
  <1> QED
    BY <1>3, <1>6, <1>7 DEF Used

\* Storing out_ takes the batch away and moves the places.
LEMMA UsedShrinks ==
    ASSUME TypeOK, NEW n \in Nat, n =< Used, Used =< Size,
           out_' = (out_ + n) % CounterMod, in_' = in_
    PROVE  /\ Used' = Used - n
           /\ out_' \in 0..(CounterMod - 1)
           /\ \A k \in Int : At(k)' = At(n + k)
  <1> DEFINE x == out_ + n
             y == x % CounterMod
             z == in_ - y
  <1>1. x \in Int /\ -CounterMod =< x /\ x < 2 * CounterMod /\ x >= 0
    BY UsedIs, Sizes DEF TypeOK
  <1>2. y = IF x < 0 THEN x + CounterMod ELSE IF x < CounterMod THEN x ELSE x - CounterMod
    <2> HIDE DEF x
    <2> QED
      BY <1>1, CounterRemainder, Zenon
  <1>3. y \in 0..(CounterMod - 1)
    BY <1>1, <1>2, Sizes
  <1>4. \A k \in Int : (y + k) % Size = At(n + k)
    <2> TAKE k \in Int
    <2>1. (y + k) % Size = (x + k) % Size
      <3> HIDE DEF x
      <3> QED
        BY <1>1, WrapKeepsSlot
    <2>2. x + k = out_ + (n + k)
      BY DEF TypeOK
    <2> QED
      BY <2>1, <2>2 DEF At
  <1> HIDE DEF y
  <1>5. z \in Int /\ -CounterMod =< z /\ z < 2 * CounterMod
    BY <1>3, Sizes DEF TypeOK
  <1>6. z % CounterMod = IF z < 0 THEN z + CounterMod
                         ELSE IF z < CounterMod THEN z ELSE z - CounterMod
    <2> HIDE DEF z
    <2> QED
      BY <1>5, CounterRemainder, Zenon
  <1>7. z % CounterMod = Used - n
    BY <1>1, <1>2, <1>3, <1>5, <1>6, UsedIs, Sizes DEF TypeOK
  <1>8. out_' = y
    BY DEF y
  <1>9. \A k \in Int : At(k)' = At(n + k)
    BY <1>4, <1>8 DEF At
  <1> QED
    BY <1>3, <1>7, <1>8, <1>9 DEF Used

--------------------------------------------------------------------------------
\* The invariant.

LEMMA InitIndInv == Init => IndInv
  <1> SUFFICES ASSUME Init
               PROVE  IndInv
    OBVIOUS
  <1>1. TypeOK
    BY Sizes DEF Init, TypeOK
  <1>2. Used = 0
    BY <1>1, UsedIs DEF Init
  <1>3. NothingLeaks
    <2>1. Live = {}
      BY DEF Init, Live
    <2>2. Places = {}
      BY <1>2 DEF Init, Places
    <2> QED
      BY <2>1, <2>2, InUseIs DEF NothingLeaks
  <1>4. BatchesFit /\ NoMissedData
    BY <1>2, Sizes DEF Init, BatchesFit, NoMissedData
  <1> QED
    BY <1>1, <1>3, <1>4 DEF IndInv

\* A step that touches neither the counters nor the slots, and leaves the places where
\* they are.
LEMMA NothingMoves ==
    ASSUME UNCHANGED <<in_, out_, storage_>>, pdone' = pdone, cdone' = cdone, NothingLeaks
    PROVE  Used' = Used /\ NothingLeaks'
  BY DEF Used, NothingLeaks, Live, InUse

\* Starting and leaving a batch, going to sleep and waking up.
LEMMA QuietSteps ==
    ASSUME IndInv, StartPut \/ NotifyOne \/ StartTake \/ WaitData \/ Sleep \/ UNCHANGED vars
    PROVE  IndInv' /\ Contents' = Contents
  <1> USE DEF IndInv
  <1>1. UNCHANGED <<in_, out_, storage_>> /\ pdone' = pdone /\ cdone' = cdone
    BY DEF BatchesFit, TypeOK, StartPut, NotifyOne, StartTake, WaitData, Sleep, vars, producer,
           consumer
  <1>2. Used' = Used /\ NothingLeaks'
    BY <1>1, NothingMoves
  <1>3. Used \in Nat /\ (Used = 0 <=> in_ = out_)
    BY UsedIs, Sizes DEF TypeOK
  <1>4. TypeOK' /\ BatchesFit' /\ NoMissedData'
    <2>1. CASE StartPut
      BY <2>1, <1>1, <1>2, <1>3, Sizes DEF StartPut, TypeOK, BatchesFit, NoMissedData, Min2, consumer
    <2>2. CASE NotifyOne
      BY <2>2, <1>1, <1>2, <1>3, Sizes DEF NotifyOne, TypeOK, BatchesFit, NoMissedData
    <2>3. CASE StartTake
      BY <2>3, <1>1, <1>2, <1>3, Sizes DEF StartTake, TypeOK, BatchesFit, NoMissedData, Min2, producer
    <2>4. CASE WaitData
      BY <2>4, <1>1, <1>2, <1>3, Sizes DEF WaitData, TypeOK, BatchesFit, NoMissedData, producer
    <2>5. CASE Sleep
      BY <2>5, <1>1, <1>2, <1>3, Sizes DEF Sleep, TypeOK, BatchesFit, NoMissedData, producer
    <2>6. CASE UNCHANGED vars
      BY <2>6, <1>1, <1>2 DEF vars, producer, consumer, TypeOK, BatchesFit, NoMissedData
    <2> QED
      BY <2>1, <2>2, <2>3, <2>4, <2>5, <2>6
  <1>5. Contents' = Contents
    BY <1>1, <1>2 DEF Contents
  <1> QED
    BY <1>2, <1>4, <1>5

\* Constructing an element fills the first free place.
LEMMA ConstructStep ==
    ASSUME IndInv, Construct
    PROVE  /\ IndInv'
           /\ storage_[Slot(in_, pdone, pcount)] = Raw
  <1> USE DEF IndInv
  <1> DEFINE next == Used + pdone
             new == At(next)
  <1>1. /\ Used \in Nat /\ pdone \in Nat /\ pcount \in Nat /\ cdone \in Nat
        /\ pdone < pcount /\ Used + pcount =< Size /\ cdone =< Used
    BY UsedIs DEF Construct, BatchesFit, TypeOK
  <1>2. Slot(in_, pdone, pcount) = new
    BY WorkedOn DEF Construct
  <1>3. PICK e \in Elems : storage_' = [storage_ EXCEPT ![new] = e]
    BY <1>2 DEF Construct
  <1>4. Used' = Used /\ out_' = out_
    BY DEF Construct, Used
  <1>5. new \in Slots /\ Used + pdone \in Int
    BY <1>1, AtSlots
  <1>6. new \notin InUse
    <2> SUFFICES ASSUME NEW k \in Places, At(k) = new
                 PROVE  FALSE
      BY InUseIs
    <2>1. k \in Int /\ next \in Int /\ k < next /\ next - k < Size /\ k - next < Size
      BY <1>1, Sizes DEF Places
    <2> HIDE DEF next
    <2>2. k = next
      BY <2>1, AtSlots
    <2> QED
      BY <2>1, <2>2
  <1>7. NothingLeaks'
    <2>1. Live' = Live \cup {new}
      BY <1>3, <1>5, RingAssumption DEF Live, TypeOK
    <2>2. Places' = Places \cup {Used + pdone}
      BY <1>1, <1>4 DEF Places, Construct, consumer
    <2>3. InUse' = {At(k)' : k \in Places'}
      BY InUseIs DEF InUse, Places, At
    <2>4. \A k \in Int : At(k)' = At(k)
      BY <1>4 DEF At
    <2>5. InUse' = InUse \cup {new}
      BY <2>2, <2>3, <2>4, <1>1, InUseIs DEF Places
    <2> QED
      BY <2>1, <2>5 DEF NothingLeaks
  <1>8. TypeOK'
    <2>1. storage_' \in [Slots -> Elems \cup {Raw}]
      BY <1>3, <1>5 DEF TypeOK
    <2>2. pdone' \in 0..Size
      BY <1>1, Sizes DEF Construct
    <2> QED
      BY <2>1, <2>2 DEF Construct, TypeOK, consumer
  <1>9. BatchesFit' /\ NoMissedData'
    BY <1>1, <1>4 DEF Construct, consumer, BatchesFit, NoMissedData, TypeOK
  <1>10. storage_[new] = Raw
    BY <1>5, <1>6 DEF NothingLeaks, Live
  <1> QED
    BY <1>2, <1>7, <1>8, <1>9, <1>10

\* Destroying one empties the first place.
LEMMA DestroyStep ==
    ASSUME IndInv, Destroy
    PROVE  /\ IndInv'
           /\ storage_[Slot(out_, cdone, ccount)] # Raw
  <1> USE DEF IndInv
  <1> DEFINE old == At(cdone)
  <1>1. /\ Used \in Nat /\ pdone \in Nat /\ ccount \in Nat /\ cdone \in Nat /\ pcount \in Nat
        /\ cdone < ccount /\ ccount =< Used /\ Used + pdone =< Size
    BY UsedIs, Sizes DEF Destroy, BatchesFit, TypeOK
  <1>2. storage_' = [storage_ EXCEPT ![old] = Raw]
    BY WorkedOn DEF Destroy
  <1>3. Used' = Used /\ out_' = out_
    BY DEF Destroy, Used
  <1>4. old \in Slots /\ cdone \in Int /\ cdone \in Places
    BY <1>1, AtSlots DEF Places
  <1>5. old \in InUse
    BY <1>4, InUseIs
  <1>6. NothingLeaks'
    <2>1. Live' = Live \ {old}
      BY <1>2, <1>4 DEF Live, TypeOK
    <2>2. Places' = Places \ {cdone}
      BY <1>1, <1>3 DEF Places, Destroy, producer
    <2>3. InUse' = {At(k)' : k \in Places'}
      BY InUseIs DEF InUse, Places, At
    <2>4. \A k \in Int : At(k)' = At(k)
      BY <1>3 DEF At
    <2>5. \A k \in Places : At(k) = old => k = cdone
      <3> TAKE k \in Places
      <3>1. k \in Int /\ k - cdone < Size /\ cdone - k < Size
        BY <1>1, Sizes DEF Places
      <3> QED
        BY <3>1, <1>4, AtSlots
    <2>6. InUse' = InUse \ {old}
      <3>1. Places \subseteq Int
        BY <1>1 DEF Places
      <3> QED
        BY <2>2, <2>3, <2>4, <2>5, <3>1, InUseIs
    <2> QED
      BY <2>1, <2>6 DEF NothingLeaks
  <1>7. TypeOK'
    <2>1. storage_' \in [Slots -> Elems \cup {Raw}]
      BY <1>2, <1>4 DEF TypeOK
    <2>2. cdone' \in 0..Size
      BY <1>1, Sizes DEF Destroy, TypeOK
    <2> QED
      BY <2>1, <2>2 DEF Destroy, TypeOK, producer
  <1>8. BatchesFit' /\ NoMissedData'
    BY <1>1, <1>3 DEF Destroy, producer, BatchesFit, NoMissedData, TypeOK
  <1>9. storage_[old] # Raw
    BY <1>5 DEF NothingLeaks, Live
  <1> QED
    BY WorkedOn, <1>6, <1>7, <1>8, <1>9 DEF Destroy

\* Publishing a batch turns the producer's places into the consumer's.
LEMMA PublishInStep ==
    ASSUME IndInv, PublishIn
    PROVE  IndInv' /\ Used' = Used + pcount
  <1> USE DEF IndInv
  <1>1. /\ Used \in Nat /\ pcount \in Nat /\ pdone = pcount /\ Used + pcount =< Size
        /\ in_' = (in_ + pcount) % CounterMod /\ out_' = out_
    BY UsedIs, Sizes DEF PublishIn, BatchesFit, TypeOK
  <1>2. Used' = Used + pcount /\ in_' \in 0..(CounterMod - 1)
    BY <1>1, UsedGrows
  <1>3. NothingLeaks'
    <2>1. Live' = Live
      BY DEF PublishIn, Live
    <2>2. Places' = Places
      BY <1>1, <1>2 DEF PublishIn, consumer, Places
    <2>3. InUse' = InUse
      BY <2>2, <1>1 DEF InUse, Places
    <2> QED
      BY <2>1, <2>3 DEF NothingLeaks
  <1>4. TypeOK'
    BY <1>2, Sizes DEF PublishIn, consumer, TypeOK
  <1>5. BatchesFit' /\ NoMissedData'
    BY <1>1, <1>2 DEF PublishIn, consumer, BatchesFit, NoMissedData, TypeOK
  <1> QED
    BY <1>2, <1>3, <1>4, <1>5

\* Publishing out_ only renumbers the places.
LEMMA PublishOutStep ==
    ASSUME IndInv, PublishOut
    PROVE  /\ IndInv' /\ Used' = Used - ccount
           /\ \A k \in Int : At(k)' = At(ccount + k)
  <1> USE DEF IndInv
  <1>1. /\ Used \in Nat /\ ccount \in Nat /\ cdone = ccount /\ ccount =< Used /\ Used =< Size
        /\ pdone \in Nat /\ pcount \in Nat
        /\ out_' = (out_ + ccount) % CounterMod /\ in_' = in_
    BY UsedIs, Sizes DEF PublishOut, BatchesFit, TypeOK
  <1>2. /\ Used' = Used - ccount /\ out_' \in 0..(CounterMod - 1)
        /\ \A k \in Int : At(k)' = At(ccount + k)
    BY <1>1, UsedShrinks
  <1>3. NothingLeaks'
    <2>1. Live' = Live
      BY DEF PublishOut, Live
    <2>2. Places' = 0..(Used - ccount + pdone - 1) /\ Places = ccount..(Used + pdone - 1)
      BY <1>1, <1>2 DEF PublishOut, producer, Places
    <2>3. InUse' = {At(k)' : k \in Places'}
      BY InUseIs DEF InUse, Places, At
    <2>4. InUse' = InUse
      <3>1. ASSUME NEW k \in Places'
            PROVE  At(k)' \in InUse
        <4>1. k \in Int /\ ccount + k \in Places
          BY <1>1, <2>2
        <4> QED
          BY <4>1, <1>2, InUseIs
      <3>2. ASSUME NEW k \in Places
            PROVE  At(k) \in InUse'
        <4>1. PICK j \in Places' : j \in Int /\ ccount + j = k
          <5>1. k - ccount \in Places' /\ k - ccount \in Int /\ ccount + (k - ccount) = k
            BY <1>1, <2>2
          <5> QED
            BY <5>1
        <4>2. At(j)' = At(k)
          BY <4>1, <1>2
        <4> QED
          BY <4>1, <4>2, <2>3
      <3> QED
        BY <3>1, <3>2, <2>3, InUseIs
    <2> QED
      BY <2>1, <2>4 DEF NothingLeaks
  <1>4. TypeOK'
    BY <1>2, Sizes DEF PublishOut, producer, TypeOK
  <1>5. BatchesFit' /\ NoMissedData'
    <2>1. Used' =< Size /\ (ppc = "construct" => Used' + pcount =< Size)
      BY <1>1, <1>2, Sizes DEF BatchesFit
    <2> QED
      BY <1>1, <2>1 DEF PublishOut, producer, BatchesFit, NoMissedData
  <1> QED
    BY <1>2, <1>3, <1>4, <1>5

\* The inductive invariant holds in every reachable state.
THEOREM Invariance == Spec => []IndInv
  <1>1. IndInv /\ [Next]_vars => IndInv'
    <2> SUFFICES ASSUME IndInv, [Next]_vars
                 PROVE  IndInv'
      OBVIOUS
    <2>1. CASE StartPut \/ NotifyOne \/ StartTake \/ WaitData \/ Sleep \/ UNCHANGED vars
      BY <2>1, QuietSteps
    <2>2. CASE Construct
      BY <2>2, ConstructStep
    <2>3. CASE PublishIn
      BY <2>3, PublishInStep
    <2>4. CASE Destroy
      BY <2>4, DestroyStep
    <2>5. CASE PublishOut
      BY <2>5, PublishOutStep
    <2> QED
      BY <2>1, <2>2, <2>3, <2>4, <2>5 DEF Next
  <1> QED
    BY <1>1, InitIndInv, PTL DEF Spec

\* The producer never constructs over a live object, and the consumer never destroys a
\* slot that holds none.
THEOREM SlotsSafe == Spec => []SlotsExclusive
  <1>1. IndInv => SlotsExclusive
    <2> SUFFICES ASSUME IndInv
                 PROVE  SlotsExclusive
      OBVIOUS
    <2> USE DEF IndInv
    <2>1. /\ Used \in Nat /\ pdone \in Nat /\ pcount \in Nat /\ cdone \in Nat /\ ccount \in Nat
          /\ Used =< Size
      BY UsedIs, Sizes DEF TypeOK, BatchesFit
    <2>2. ASSUME ppc = "construct", pdone < pcount
          PROVE  storage_[Slot(in_, pdone, pcount)] = Raw
      <3> DEFINE next == Used + pdone
      <3>1. next \in Int /\ \A k \in Places : k \in Int /\ next - k < Size /\ k - next < Size /\ k # next
        BY <2>1, <2>2, Sizes DEF Places, BatchesFit
      <3> HIDE DEF next
      <3>2. At(next) \in Slots /\ At(next) \notin InUse
        BY <3>1, AtSlots, InUseIs
      <3> QED
        BY <2>2, <3>2, WorkedOn DEF NothingLeaks, Live, next
    <2>3. ASSUME cpc = "destroy", cdone < ccount
          PROVE  storage_[Slot(out_, cdone, ccount)] # Raw
      <3>1. cdone \in Places
        BY <2>1, <2>3 DEF Places, BatchesFit
      <3> QED
        BY <2>3, <3>1, WorkedOn, InUseIs DEF NothingLeaks, Live
    <2> QED
      BY <2>2, <2>3 DEF SlotsExclusive
  <1> QED
    BY <1>1, Invariance, PTL

\* The objects alive are those between the two sides.
THEOREM NoLeak == Spec => []NothingLeaks
  <1>1. IndInv => NothingLeaks
    BY DEF IndInv
  <1> QED
    BY <1>1, Invariance, PTL

\* A consumer asleep in wait_data misses no data.
THEOREM WaitSafe == Spec => []NoMissedData
  <1>1. IndInv => NoMissedData
    BY DEF IndInv
  <1> QED
    BY <1>1, Invariance, PTL

--------------------------------------------------------------------------------
\* The ring implements the queue.

LEMMA ContentsIs ==
    ASSUME IndInv
    PROVE  /\ Used - cdone \in Nat
           /\ Contents = [i \in 1..(Used - cdone) |-> storage_[At(cdone + i - 1)]]
           /\ Contents \in [1..(Used - cdone) -> Elems]
           /\ Len(Contents) = Used - cdone
           /\ \A k \in Places : storage_[At(k)] \in Elems
  <1>1. Used - cdone \in Nat /\ cdone \in Nat /\ Used \in Nat /\ pdone \in Nat /\ out_ \in Nat
    BY UsedIs, Sizes DEF IndInv, BatchesFit, TypeOK
  <1>2. \A k \in Places : storage_[At(k)] \in Elems
    <2> TAKE k \in Places
    <2>1. At(k) \in Live
      BY InUseIs DEF IndInv, NothingLeaks
    <2> QED
      BY <2>1 DEF Live, IndInv, TypeOK
  <1>3. \A i \in 1..(Used - cdone) :
            /\ cdone + i - 1 \in Places
            /\ (out_ + cdone + i - 1) % Size = At(cdone + i - 1)
    <2> TAKE i \in 1..(Used - cdone)
    <2>1. cdone + i - 1 \in Places /\ out_ + cdone + i - 1 = out_ + (cdone + i - 1)
      BY <1>1 DEF Places
    <2> QED
      BY <2>1 DEF At
  <1>4. Contents = [i \in 1..(Used - cdone) |-> storage_[At(cdone + i - 1)]]
    BY <1>3 DEF Contents
  <1>5. Contents \in [1..(Used - cdone) -> Elems]
    BY <1>2, <1>3, <1>4
  <1>6. Len(Contents) = Used - cdone
    <2> DEFINE n == Used - cdone
    <2>1. n \in Nat /\ Contents \in [1..n -> Elems]
      BY <1>1, <1>5
    <2> HIDE DEF n
    <2>2. Contents \in Seq(Elems) /\ DOMAIN Contents = 1..n
      BY <2>1
    <2>3. Len(Contents) = n
      BY <2>1, <2>2
    <2> QED
      BY <2>3 DEF n
  <1> QED
    BY <1>1, <1>2, <1>4, <1>5, <1>6

\* Publishing a batch puts it into the queue.
LEMMA PublishPuts ==
    ASSUME IndInv, PublishIn
    PROVE  Fifo!Put
  <1> DEFINE n == Used - cdone
             batch == [i \in 1..pcount |-> storage_[At(Used + i - 1)]]
  <1>1. /\ Used \in Nat /\ cdone \in Nat /\ pcount \in 1..Size /\ pdone = pcount
        /\ Used + pcount =< Size /\ cdone' = cdone
        /\ out_' = out_ /\ storage_' = storage_
    BY UsedIs, Sizes DEF IndInv, TypeOK, BatchesFit, PublishIn, consumer
  <1>2. n \in Nat /\ Len(Contents) = n /\ Contents \in [1..n -> Elems]
    BY ContentsIs
  <1>3. batch \in [1..pcount -> Elems]
    <2> SUFFICES ASSUME NEW i \in 1..pcount
                 PROVE  storage_[At(Used + i - 1)] \in Elems
      OBVIOUS
    <2>1. Used + i - 1 \in Places
      BY <1>1, <1>2 DEF Places
    <2> QED
      BY <2>1, ContentsIs
  <1>4. batch \in Fifo!Batches /\ Len(batch) = pcount
    <2> HIDE DEF batch
    <2>1. batch \in Seq(Elems) /\ DOMAIN batch = 1..pcount
      BY <1>1, <1>3
    <2> QED
      BY <1>1, <1>3, <2>1 DEF Fifo!Batches
  <1>5. Contents' = [i \in 1..(n + pcount) |-> storage_[At(cdone + i - 1)]]
    <2>1. Used' - cdone' = n + pcount
      BY <1>1, PublishInStep
    <2>2. Contents' = [i \in 1..(n + pcount) |-> storage_[(out_ + cdone + i - 1) % Size]]
      BY <1>1, <2>1 DEF Contents
    <2>3. \A i \in 1..(n + pcount) : (out_ + cdone + i - 1) % Size = At(cdone + i - 1)
      <3> TAKE i \in 1..(n + pcount)
      <3>1. out_ + cdone + i - 1 = out_ + (cdone + i - 1)
        BY <1>1, <1>2 DEF IndInv, TypeOK
      <3> QED
        BY <3>1 DEF At
    <2> QED
      BY <2>2, <2>3
  <1>6. Contents' = Contents \o batch
    <2>1. Contents \o batch = [i \in 1..(n + pcount) |->
                                  IF i =< n THEN Contents[i] ELSE batch[i - n]]
      <3> HIDE DEF n, batch
      <3>1. Contents \in Seq(Elems) /\ batch \in Seq(Elems)
        BY <1>1, <1>2, <1>3
      <3>2. /\ Contents \o batch \in Seq(Elems)
            /\ Len(Contents \o batch) = n + pcount
            /\ \A i \in 1..(n + pcount) :
                   (Contents \o batch)[i] = IF i =< n THEN Contents[i] ELSE batch[i - n]
        BY <1>2, <1>4, <3>1, ConcatProperties
      <3> DEFINE both == Contents \o batch
      <3> HIDE DEF both
      <3>3. both \in Seq(Elems) /\ Len(both) = n + pcount
        BY <3>2 DEF both
      <3>4. both = [i \in 1..(n + pcount) |-> both[i]]
        BY <3>3
      <3> QED
        BY <3>2, <3>4 DEF both
    <2>2. ASSUME NEW i \in 1..(n + pcount)
          PROVE  (IF i =< n THEN Contents[i] ELSE batch[i - n]) = storage_[At(cdone + i - 1)]
      <3>1. CASE i =< n
        <4>1. i \in 1..n
          BY <3>1, <1>1, <1>2
        <4> QED
          BY <3>1, <4>1, ContentsIs
      <3>2. CASE ~(i =< n)
        <4>1. i - n \in 1..pcount /\ Used + (i - n) - 1 = cdone + i - 1
          BY <3>2, <1>1, <1>2
        <4> QED
          BY <3>2, <4>1
      <3> QED
        BY <3>1, <3>2
    <2> QED
      BY <1>5, <2>1, <2>2
  <1>7. Len(Contents) + Len(batch) =< Size
    <2>1. n + pcount =< Size
      BY <1>1, Sizes
    <2> HIDE DEF batch, n
    <2> QED
      BY <1>2, <1>4, <2>1
  <1> QED
    BY <1>4, <1>6, <1>7 DEF Fifo!Put

\* Destroying an element takes it from the queue.
LEMMA DestroyTakes ==
    ASSUME IndInv, Destroy
    PROVE  Fifo!Take
  <1> DEFINE n == Used - cdone
  <1>1. /\ Used \in Nat /\ cdone \in Nat /\ pdone \in Nat /\ pcount \in Nat /\ cdone < Used
        /\ Used + pdone =< Size
        /\ Used' = Used /\ out_' = out_ /\ cdone' = cdone + 1
    BY UsedIs, Sizes DEF IndInv, TypeOK, BatchesFit, Destroy, Used
  <1>2. /\ n \in Nat /\ n > 0 /\ Len(Contents) = n /\ Contents \in [1..n -> Elems]
        /\ Contents = [i \in 1..n |-> storage_[At(cdone + i - 1)]]
    BY ContentsIs, <1>1
  <1>3. storage_' = [storage_ EXCEPT ![At(cdone)] = Raw]
    BY WorkedOn DEF IndInv, Destroy
  <1>4. Contents' = [i \in 1..(n - 1) |-> storage_'[At(cdone + i)]]
    <2>1. Contents' = [i \in 1..(Used - (cdone + 1)) |->
                          storage_'[(out_ + (cdone + 1) + i - 1) % Size]]
      BY <1>1 DEF Contents
    <2>2. \A i \in 1..(n - 1) : (out_ + (cdone + 1) + i - 1) % Size = At(cdone + i)
      <3> TAKE i \in 1..(n - 1)
      <3>1. out_ + (cdone + 1) + i - 1 = out_ + (cdone + i)
        BY <1>1 DEF IndInv, TypeOK
      <3> QED
        BY <3>1 DEF At
    <2>3. Used - (cdone + 1) = n - 1
      BY <1>1
    <2> QED
      BY <2>1, <2>2, <2>3
  <1>5. \A i \in 1..(n - 1) : storage_'[At(cdone + i)] = storage_[At(cdone + i)]
    <2> TAKE i \in 1..(n - 1)
    <2> DEFINE k == cdone + i
    <2>1. k \in Int /\ cdone \in Int /\ k - cdone < Size /\ cdone - k < Size /\ k # cdone
      BY <1>1, Sizes
    <2> HIDE DEF k
    <2>2. At(k) # At(cdone) /\ At(k) \in Slots
      BY <2>1, AtSlots DEF IndInv
    <2>3. storage_'[At(k)] = storage_[At(k)]
      BY <2>2, <1>3 DEF IndInv, TypeOK
    <2> QED
      BY <2>3 DEF k
  <1>6. Contents # <<>> /\ Tail(Contents) = [i \in 1..(n - 1) |-> Contents[i + 1]]
    <2> HIDE DEF n
    <2>1. Contents \in Seq(Elems)
      BY <1>2
    <2> QED
      BY <1>2, <2>1
  <1>7. \A i \in 1..(n - 1) : Contents[i + 1] = storage_[At(cdone + i)]
    <2> TAKE i \in 1..(n - 1)
    <2>1. i + 1 \in 1..n /\ cdone + (i + 1) - 1 = cdone + i
      BY <1>1
    <2> QED
      BY <2>1, <1>2
  <1>8. Contents' = Tail(Contents)
    BY <1>4, <1>5, <1>6, <1>7
  <1> QED
    BY <1>6, <1>8 DEF Fifo!Take

\* Publishing out_ is not seen by the queue.
LEMMA PublishOutStutters ==
    ASSUME IndInv, PublishOut
    PROVE  Contents' = Contents
  <1>1. /\ Used \in Nat /\ ccount \in Nat /\ cdone = ccount /\ cdone' = 0
        /\ storage_' = storage_ /\ out_' \in Int
        /\ Used' = Used - ccount /\ \A k \in Int : At(k)' = At(ccount + k)
    BY PublishOutStep, UsedIs, Sizes DEF IndInv, TypeOK, BatchesFit, PublishOut
  <1>2. Contents' = [i \in 1..(Used - ccount) |-> storage_[(out_' + 0 + i - 1) % Size]]
    <2>1. Used' - cdone' = Used - ccount
      BY <1>1
    <2> QED
      BY <1>1, <2>1 DEF Contents
  <1>3. \A i \in 1..(Used - ccount) : (out_' + 0 + i - 1) % Size = At(cdone + i - 1)
    <2> TAKE i \in 1..(Used - ccount)
    <2>1. PICK j \in Int : j = i - 1
      OBVIOUS
    <2>2. out_' + 0 + i - 1 = out_' + j /\ cdone + i - 1 = ccount + j
      BY <1>1, <2>1
    <2>3. At(j)' = At(ccount + j)
      BY <1>1
    <2> QED
      BY <2>2, <2>3 DEF At
  <1> QED
    BY <1>1, <1>2, <1>3, ContentsIs

\* The ring is a bounded first-in first-out queue: its steps put a batch, take an element,
\* or are not seen.
THEOREM Implements == Spec => FifoSpec
  <1>1. Init => Fifo!Init
    <2> SUFFICES ASSUME Init
                 PROVE  Contents = <<>>
      BY DEF Fifo!Init
    <2>1. Used - cdone = 0
      BY InitIndInv, UsedIs DEF Init, IndInv
    <2> QED
      BY <2>1, InitIndInv, ContentsIs
  <1>2. IndInv /\ [Next]_vars => [Fifo!Next]_Contents
    <2> SUFFICES ASSUME IndInv, [Next]_vars
                 PROVE  Fifo!Next \/ Contents' = Contents
      OBVIOUS
    <2>1. CASE StartPut \/ NotifyOne \/ StartTake \/ WaitData \/ Sleep \/ UNCHANGED vars
      BY <2>1, QuietSteps
    <2>2. CASE Construct
      <3>1. /\ Used \in Nat /\ pdone \in Nat /\ pcount \in Nat /\ cdone \in Nat
            /\ pdone < pcount /\ Used + pcount =< Size
        BY <2>2, UsedIs, Sizes DEF IndInv, TypeOK, BatchesFit, Construct
      <3>2. /\ Used' = Used /\ cdone' = cdone /\ out_' = out_
            /\ \E e \in Elems : storage_' = [storage_ EXCEPT ![At(Used + pdone)] = e]
        BY <2>2, WorkedOn DEF IndInv, Construct, Used, consumer
      <3>3. \A i \in 1..(Used - cdone) :
                storage_'[At(cdone + i - 1)] = storage_[At(cdone + i - 1)]
        <4> TAKE i \in 1..(Used - cdone)
        <4> DEFINE k == cdone + i - 1
                   new == Used + pdone
        <4>1. k \in Int /\ new \in Int /\ k - new < Size /\ new - k < Size /\ k # new
          BY <3>1, Sizes
        <4> HIDE DEF k, new
        <4>2. At(k) # At(new) /\ At(k) \in Slots
          BY <4>1, AtSlots DEF IndInv
        <4>3. storage_'[At(k)] = storage_[At(k)]
          BY <4>2, <3>2 DEF IndInv, TypeOK, new
        <4> QED
          BY <4>3 DEF k
      <3>4. Contents' = [i \in 1..(Used - cdone) |-> storage_'[(out_ + cdone + i - 1) % Size]]
        BY <3>2 DEF Contents
      <3>5. \A i \in 1..(Used - cdone) : (out_ + cdone + i - 1) % Size = At(cdone + i - 1)
        <4> TAKE i \in 1..(Used - cdone)
        <4>1. out_ + cdone + i - 1 = out_ + (cdone + i - 1)
          BY <3>1 DEF IndInv, TypeOK
        <4> QED
          BY <4>1 DEF At
      <3> QED
        BY <3>3, <3>4, <3>5, ContentsIs
    <2>3. CASE PublishIn
      BY <2>3, PublishPuts DEF Fifo!Next
    <2>4. CASE Destroy
      BY <2>4, DestroyTakes DEF Fifo!Next
    <2>5. CASE PublishOut
      BY <2>5, PublishOutStutters
    <2> QED
      BY <2>1, <2>2, <2>3, <2>4, <2>5 DEF Next
  <1> QED
    BY <1>1, <1>2, Invariance, PTL DEF Spec, FifoSpec, Fifo!Spec

================================================================================
