----------------------------- MODULE TransmitBuffer -----------------------------
(***************************************************************************)
(* Driver::AsyncTransmitBuffer (src/src/driver/async_transmit_buffer.hpp)  *)
(* as protocol::Handler uses it: a pool of libusb transfers.  One thread   *)
(* (the tick thread, or the realtime thread) gathers chunks into the first *)
(* free transfer and submits it; the event thread recycles a transfer that *)
(* libusb completed.  The free transfers are in a RingBuffer, of which     *)
(* this module keeps what its users can tell: the contents, the capacity   *)
(* and the moment between taking an element and publishing out_.           *)
(***************************************************************************)
EXTENDS Integers, Sequences, FiniteSets

CONSTANTS
    Transfers,  \* the transfers that the pool allocates
    RingSize,   \* max_size() of the ring that was asked for that many
    Types,      \* header types: 0x21 for SDO frames, 0x11 for PDO frames
    NoType,     \* header.type = 0, an unused transfer
    None,       \* no transfer
    Chunks,     \* sizes of the chunks, 0 for an empty frame
    Prefill, Crc, Block, MaxLength   \* bytes: header, check, padding unit, buffer

ASSUME PoolAssumption ==
    /\ IsFiniteSet(Transfers) /\ Transfers # {} /\ None \notin Transfers
    /\ RingSize \in Nat /\ Cardinality(Transfers) =< RingSize
    /\ NoType \notin Types
    /\ Prefill \in Nat /\ Crc \in Nat \ {0} /\ Block \in Nat \ {0}
    /\ MaxLength \in Nat /\ MaxLength % Block = 0
    /\ \A c \in Chunks : c \in Nat /\ Prefill + c + Crc =< MaxLength

VARIABLES
    free,       \* free_transfers_, front first
    unpublished,\* a pop took its element and has not stored out_ yet
    length,     \* transfer->length
    type,       \* header.type
    flying,     \* submitted to libusb and not completed
    pc,         \* the owner thread
    want,       \* the chunk it is fetching a place for
    taken,      \* the transfer it popped
    released,   \* freed by the destructor
    gathered    \* history: the types of the chunks gathered in each transfer

vars == <<free, unpublished, length, type, flying, pc, want, taken, released, gathered>>

NoChunk == [size |-> 0, type |-> NoType]

\* The constructor has filled the ring.  It may throw while it does; what that does to the
\* driver is in EventLoop, and the transfers allocated by then leak.
Init ==
    /\ free \in {s \in [1..Cardinality(Transfers) -> Transfers] :
                     \A i, j \in DOMAIN s : s[i] = s[j] => i = j}
    /\ unpublished = FALSE
    /\ length = [t \in Transfers |-> Prefill]
    /\ type = [t \in Transfers |-> NoType]
    /\ flying = {} /\ pc = "idle" /\ want = NoChunk /\ taken = None /\ released = {}
    /\ gathered = [t \in Transfers |-> {}]

--------------------------------------------------------------------------------
\* The owner thread: fetch_sdo_buffer and fetch_pdo_buffer.

Request(size, ty) ==
    /\ pc \in {"idle", "fetched"}
    /\ want' = [size |-> size, type |-> ty]
    /\ pc' = "fetch"
    /\ UNCHANGED <<free, unpublished, length, type, flying, taken, released, gathered>>

FitsAnyType(t) == MaxLength - length[t] >= want.size + Crc

\* The check that fetch_sdo_buffer and fetch_pdo_buffer pass to try_fetch_buffer.
Fits(t) == FitsAnyType(t) /\ type[t] \in {NoType, want.type}

\* "No buffer available!" leaves the thread function: the process terminates.
FetchExhausted ==
    /\ pc = "fetch" /\ free = <<>>
    /\ pc' = "terminated"
    /\ UNCHANGED <<free, unpublished, length, type, flying, want, taken, released, gathered>>

FetchFromFront ==
    /\ pc = "fetch" /\ free # <<>> /\ Fits(Head(free))
    /\ length' = [length EXCEPT ![Head(free)] = @ + want.size]
    /\ type' = [type EXCEPT ![Head(free)] = want.type]
    /\ gathered' = [gathered EXCEPT ![Head(free)] = @ \cup {want.type}]
    /\ pc' = "fetched" /\ want' = NoChunk
    /\ UNCHANGED <<free, unpublished, flying, taken, released>>

\* pop_front hands its element to the functor first and stores out_ last.
Pop ==
    /\ taken' = Head(free)
    /\ free' = Tail(free)
    /\ unpublished' = TRUE
    /\ UNCHANGED <<length, type, flying, want, released, gathered>>

FetchSubmitsFront ==
    /\ pc = "fetch" /\ free # <<>> /\ ~Fits(Head(free))
    /\ pc' = "popping_fetch"
    /\ Pop

\* trigger_transmission.  Its callers have just fetched from the front transfer.
Trigger ==
    /\ pc = "fetched"
    /\ pc' = "popping"
    /\ Pop

\* trigger_transmission(false) does nothing with a transfer that has only its header.
TriggerEmpty ==
    /\ pc = "fetched" /\ length[Head(free)] =< Prefill
    /\ pc' = "idle"
    /\ UNCHANGED <<free, unpublished, length, type, flying, want, taken, released, gathered>>

PublishOut ==
    /\ unpublished
    /\ unpublished' = FALSE
    /\ UNCHANGED <<free, length, type, flying, pc, want, taken, released, gathered>>

Padded(n) == Block * (((n + Crc - 1) \div Block) + 1)

SubmitWhilePopping ==
    /\ pc \in {"popping", "popping_fetch"} /\ taken # None
    /\ length' = [length EXCEPT ![taken] = Padded(@)]
    /\ flying' = flying \cup {taken}
    /\ pc' = IF pc = "popping" THEN "idle" ELSE "fetch"
    /\ taken' = None
    /\ UNCHANGED <<free, unpublished, type, want, released, gathered>>

\* before_submitting_transmit_transfer pads the frame, libusb_submit_transfer takes it.
Submit ==
    /\ pc \in {"popping", "popping_fetch"} /\ ~unpublished
    /\ length' = [length EXCEPT ![taken] = Padded(@)]
    /\ flying' = flying \cup {taken}
    /\ pc' = IF pc = "popping" THEN "idle" ELSE "fetch"
    /\ taken' = None
    /\ UNCHANGED <<free, unpublished, type, want, released, gathered>>

SubmitFails ==
    /\ pc \in {"popping", "popping_fetch"} /\ ~unpublished
    /\ pc' = "terminated"
    /\ UNCHANGED <<free, unpublished, length, type, flying, want, taken, released, gathered>>

--------------------------------------------------------------------------------
\* The event thread: usb_transmit_complete_callback.  A transfer that failed or came
\* up short is logged and recycled like any other.

RingIsFull == Len(free) + (IF unpublished THEN 1 ELSE 0) >= RingSize

RecycleKeepingType(t) ==
    /\ pc # "terminated" /\ t \in flying
    /\ flying' = flying \ {t}
    /\ length' = [length EXCEPT ![t] = Prefill]
    /\ free' = Append(free, t)
    /\ UNCHANGED <<unpublished, type, pc, want, taken, released, gathered>>

Recycle(t) ==
    /\ pc # "terminated" /\ t \in flying
    /\ flying' = flying \ {t}
    /\ length' = [length EXCEPT ![t] = Prefill]
    /\ type' = [type EXCEPT ![t] = NoType]
    /\ gathered' = [gathered EXCEPT ![t] = {}]
    /\ IF RingIsFull
       THEN pc' = "terminated" /\ UNCHANGED free
       ELSE free' = Append(free, t) /\ UNCHANGED pc
    /\ UNCHANGED <<unpublished, want, taken, released>>

--------------------------------------------------------------------------------
\* The destructor, when the owner thread has been joined.

Destroy ==
    /\ pc \in {"idle", "fetched"}
    /\ pc' = "draining"
    /\ UNCHANGED <<free, unpublished, length, type, flying, want, taken, released, gathered>>

ReleaseUncounted ==
    /\ pc = "draining" /\ free # <<>>
    /\ free' = <<>>
    /\ UNCHANGED <<unpublished, length, type, flying, pc, want, taken, released, gathered>>

ReleaseAtOnce ==
    /\ pc = "draining"
    /\ released' = Transfers
    /\ free' = <<>>
    /\ pc' = "destroyed"
    /\ UNCHANGED <<unpublished, length, type, flying, want, taken, gathered>>

Release ==
    /\ pc = "draining" /\ free # <<>>
    /\ released' = released \cup {free[i] : i \in DOMAIN free}
    /\ free' = <<>>
    /\ UNCHANGED <<unpublished, length, type, flying, pc, want, taken, gathered>>

FinishDestroy ==
    /\ pc = "draining" /\ released = Transfers
    /\ pc' = "destroyed"
    /\ UNCHANGED <<free, unpublished, length, type, flying, want, taken, released, gathered>>

\* libusb_handle_events failed, or a second went by: what is still flying is leaked.
GiveUp ==
    /\ pc = "draining" /\ free = <<>> /\ released # Transfers
    /\ pc' = "leaked"
    /\ UNCHANGED <<free, unpublished, length, type, flying, want, taken, released, gathered>>

Gather ==
    \/ \E size \in Chunks, ty \in Types : Request(size, ty)
    \/ Trigger \/ TriggerEmpty

OwnerStep == FetchExhausted \/ FetchFromFront \/ FetchSubmitsFront \/ PublishOut \/ Submit

DrainStep == Release \/ FinishDestroy

Next ==
    \/ Gather \/ OwnerStep \/ SubmitFails
    \/ \E t \in Transfers : Recycle(t)
    \/ Destroy \/ DrainStep \/ GiveUp

Spec == Init /\ [][Next]_vars

\* The owner finishes what it began, and libusb completes what was submitted.
Fairness ==
    /\ WF_vars(OwnerStep) /\ WF_vars(DrainStep)
    /\ \A t \in Transfers : WF_vars(Recycle(t))

LiveSpec == Spec /\ Fairness

--------------------------------------------------------------------------------
\* Properties.

InRing == {free[i] : i \in DOMAIN free}

\* Each variable stays in its domain.
TypeOK ==
    /\ free \in Seq(Transfers) /\ unpublished \in BOOLEAN
    /\ length \in [Transfers -> Nat] /\ type \in [Transfers -> Types \cup {NoType}]
    /\ flying \subseteq Transfers /\ released \subseteq Transfers
    /\ pc \in {"idle", "fetch", "fetched", "popping", "popping_fetch", "terminated",
               "draining", "destroyed", "leaked"}
    /\ want \in [size : Chunks \cup {0}, type : Types \cup {NoType}]
    /\ taken \in Transfers \cup {None}
    /\ gathered \in [Transfers -> SUBSET Types]

\* No transfer is lost or in two places: it is in the ring once, in the hands of the
\* owner, flying or released.
EveryTransferOnce ==
    /\ \A i, j \in DOMAIN free : free[i] = free[j] => i = j
    /\ InRing \cap flying = {} /\ released \cap (InRing \cup flying) = {}
    /\ taken \notin InRing \cup flying \cup released
    /\ InRing \cup flying \cup released \cup ({taken} \ {None}) = Transfers

\* Recycling finds room in the ring: the callback's complaint is never printed.
RecycleHasRoom == flying # {} => ~RingIsFull

\* A transfer that libusb holds is a whole number of blocks and no longer than its
\* buffer, and gathers chunks of one type, the one in its header.
FramesWellFormed ==
    \A t \in flying :
        /\ length[t] =< MaxLength /\ length[t] % Block = 0
        /\ gathered[t] = {type[t]}

\* A fetch comes to an end: with a place in a transfer or with the exception.
FetchEnds == pc = "fetch" ~> pc \in {"fetched", "terminated"}

\* A destructor comes to an end.
DestroyEnds == pc = "draining" ~> pc \in {"destroyed", "leaked"}

\* Only the front transfer gathers: behind it the ring holds empty ones.
OnlyFrontFilled ==
    \A i \in DOMAIN free \ {1} : length[free[i]] = Prefill /\ type[free[i]] = NoType

================================================================================
