------------------------------- MODULE BoundedFifo -------------------------------
(***************************************************************************)
(* What utility::RingBuffer promises (src/src/utility/ring_buffer.hpp): a  *)
(* first-in first-out queue of at most Capacity elements.  The producer    *)
(* puts a batch in at once; the consumer takes the elements one by one.    *)
(***************************************************************************)
EXTENDS Naturals, Sequences

CONSTANTS Elems, Capacity

VARIABLES queue

Init == queue = <<>>

Batches == UNION {[1..n -> Elems] : n \in 1..Capacity}

Put ==
    \E batch \in Batches :
        /\ Len(queue) + Len(batch) =< Capacity
        /\ queue' = queue \o batch

Take ==
    /\ queue # <<>>
    /\ queue' = Tail(queue)

Next == Put \/ Take

Spec == Init /\ [][Next]_queue

================================================================================
