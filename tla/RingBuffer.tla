------------------------------- MODULE RingBuffer -------------------------------
(***************************************************************************)
(* utility::RingBuffer (src/src/utility/ring_buffer.hpp): a lock-free ring *)
(* with one producer thread and one consumer thread.  in_ and out_ are     *)
(* free-running counters that wrap around; an index into the storage is a  *)
(* counter masked by the size.  Loading the other side's counter, working  *)
(* on each slot and storing one's own counter are separate steps.          *)
(***************************************************************************)
EXTENDS Integers, Sequences

CONSTANTS
    Elems,      \* what the ring stores
    Raw,        \* a slot that holds no live object
    Size,       \* mask + 1, a power of two
    CounterMod  \* size_t counts modulo this

\* The constructor rounds the size up to a power of two, at least 2, which divides
\* the 2^64 values of a counter.
ASSUME RingAssumption ==
    /\ Raw \notin Elems
    /\ Size \in Nat \ {0, 1}
    /\ CounterMod \in Nat /\ CounterMod > Size /\ CounterMod % Size = 0

VARIABLES
    in_, out_, storage_,
    ppc, pcount, pdone,   \* the producer: batch size and slots constructed so far
    cpc, ccount, cdone,   \* the consumer: batch size and slots destroyed so far
    cin                   \* wait_data: the value of in_ it waits to change

producer == <<ppc, pcount, pdone>>
consumer == <<cpc, ccount, cdone, cin>>
vars == <<in_, out_, storage_, producer, consumer>>

Slots == 0..(Size - 1)

Init ==
    /\ in_ = 0 /\ out_ = 0
    /\ storage_ = [i \in Slots |-> Raw]
    /\ ppc = "idle" /\ pcount = 0 /\ pdone = 0
    /\ cpc = "idle" /\ ccount = 0 /\ cdone = 0 /\ cin = 0

Min2(a, b) == IF a < b THEN a ELSE b

\* in_ - out_ in the unsigned arithmetic of size_t.
Used == (in_ - out_) % CounterMod

\* The i-th slot of a batch that starts at counter c: a first slice up to the end of
\* the storage, the rest from its beginning.
SlotWithoutWrap(c, i, count) == Min2((c % Size) + i, Size - 1)
Slot(c, i, count) ==
    LET offset == c % Size
        slice == Min2(count, Size - offset)
    IN  IF i < slice THEN offset + i ELSE i - slice

--------------------------------------------------------------------------------
\* The producer: emplace_back_multi.

StartPutUnchecked ==
    \E count \in 1..Size :
        /\ ppc = "idle"
        /\ pcount' = count /\ pdone' = 0
        /\ ppc' = "construct"
        /\ UNCHANGED <<in_, out_, storage_, consumer>>

\* A full ring takes nothing and returns 0.
StartPut ==
    \E count \in 1..Size :
        /\ ppc = "idle" /\ Used < Size
        /\ pcount' = Min2(count, Size - Used) /\ pdone' = 0
        /\ ppc' = "construct"
        /\ UNCHANGED <<in_, out_, storage_, consumer>>

Construct ==
    /\ ppc = "construct" /\ pdone < pcount
    /\ \E e \in Elems : storage_' = [storage_ EXCEPT ![Slot(in_, pdone, pcount)] = e]
    /\ pdone' = pdone + 1
    /\ UNCHANGED <<in_, out_, ppc, pcount, consumer>>

PublishInEarly ==
    /\ ppc = "construct"
    /\ in_' = (in_ + pcount) % CounterMod
    /\ ppc' = "notify" /\ pcount' = 0 /\ pdone' = 0
    /\ UNCHANGED <<out_, storage_, consumer>>

PublishIn ==
    /\ ppc = "construct" /\ pdone = pcount
    /\ in_' = (in_ + pcount) % CounterMod
    /\ ppc' = "notify" /\ pcount' = 0 /\ pdone' = 0
    /\ UNCHANGED <<out_, storage_, consumer>>

NotifyOne ==
    /\ ppc = "notify"
    /\ ppc' = "idle"
    /\ cpc' = IF cpc = "asleep" THEN "idle" ELSE cpc
    /\ UNCHANGED <<in_, out_, storage_, pcount, pdone, ccount, cdone, cin>>

--------------------------------------------------------------------------------
\* The consumer: pop_front_multi and wait_data.

StartTake ==
    \E count \in 1..Size :
        /\ cpc = "idle" /\ Used > 0
        /\ ccount' = Min2(count, Used) /\ cdone' = 0
        /\ cpc' = "destroy"
        /\ UNCHANGED <<in_, out_, storage_, producer, cin>>

Destroy ==
    /\ cpc = "destroy" /\ cdone < ccount
    /\ storage_' = [storage_ EXCEPT ![Slot(out_, cdone, ccount)] = Raw]
    /\ cdone' = cdone + 1
    /\ UNCHANGED <<in_, out_, producer, cpc, ccount, cin>>

PublishOut ==
    /\ cpc = "destroy" /\ cdone = ccount
    /\ out_' = (out_ + ccount) % CounterMod
    /\ cpc' = "idle" /\ ccount' = 0 /\ cdone' = 0
    /\ UNCHANGED <<in_, storage_, producer, cin>>

\* wait_data loads in_, and goes to sleep only if in_ still has that value.
WaitData ==
    /\ cpc = "idle" /\ Used = 0
    /\ cin' = in_
    /\ cpc' = "wait"
    /\ UNCHANGED <<in_, out_, storage_, producer, ccount, cdone>>

SleepUnchecked ==
    /\ cpc = "wait"
    /\ cpc' = "asleep" /\ cin' = 0
    /\ UNCHANGED <<in_, out_, storage_, producer, ccount, cdone>>

Sleep ==
    /\ cpc = "wait"
    /\ cpc' = IF in_ = cin THEN "asleep" ELSE "idle"
    /\ cin' = 0
    /\ UNCHANGED <<in_, out_, storage_, producer, ccount, cdone>>

Next ==
    \/ StartPut \/ Construct \/ PublishIn \/ NotifyOne
    \/ StartTake \/ Destroy \/ PublishOut \/ WaitData \/ Sleep

Spec == Init /\ [][Next]_vars

--------------------------------------------------------------------------------
\* Properties.

\* Each variable stays in its domain.
TypeOK ==
    /\ in_ \in 0..(CounterMod - 1) /\ out_ \in 0..(CounterMod - 1)
    /\ storage_ \in [Slots -> Elems \cup {Raw}]
    /\ ppc \in {"idle", "construct", "notify"} /\ pcount \in 0..Size /\ pdone \in 0..Size
    /\ cpc \in {"idle", "destroy", "wait", "asleep"} /\ ccount \in 0..Size /\ cdone \in 0..Size
    /\ cin \in 0..(CounterMod - 1)

\* The producer never constructs over a live object, and the consumer never moves from
\* or destroys a slot that holds none.
SlotsExclusive ==
    /\ ppc = "construct" /\ pdone < pcount => storage_[Slot(in_, pdone, pcount)] = Raw
    /\ cpc = "destroy" /\ cdone < ccount => storage_[Slot(out_, cdone, ccount)] # Raw

\* The objects alive are exactly those between the two sides: none leaks.
Live == {i \in Slots : storage_[i] # Raw}
InUse == {(out_ + i) % Size : i \in cdone..(Used + pdone - 1)}
NothingLeaks == Live = InUse

\* The elements between the counters that the consumer has not taken yet.
Contents == [i \in 1..(Used - cdone) |-> storage_[(out_ + cdone + i - 1) % Size]]

\* The ring is a bounded first-in first-out queue.
Fifo == INSTANCE BoundedFifo WITH queue <- Contents, Capacity <- Size

FifoSpec == Fifo!Spec

\* A consumer that sleeps in wait_data, which the handler does not use, finds the ring
\* empty, or is about to be notified.
NoMissedData == cpc = "asleep" => Used = 0 \/ ppc = "notify"

================================================================================
