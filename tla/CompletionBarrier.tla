--------------------------- MODULE CompletionBarrier ---------------------------
(***************************************************************************)
(* What device::Latch promises (src/include/wujihandcpp/device/latch.hpp): *)
(* one thread begins operations, others finish them, and the wait of the   *)
(* first returns when none is pending, with the number of failures since   *)
(* the last return.                                                        *)
(***************************************************************************)
EXTENDS Naturals

CONSTANTS Ops   \* the operations that can be pending on the latch

VARIABLES
    pending,    \* begun and not finished
    failed,     \* pending, and already known to have failed
    failures,   \* failures since the last return
    result      \* what the last wait returned

vars == <<pending, failed, failures, result>>

Init == pending = {} /\ failed = {} /\ failures = 0 /\ result = 0

Begin(o) ==
    /\ o \notin pending
    /\ pending' = pending \cup {o}
    /\ UNCHANGED <<failed, failures, result>>

Fail(o) ==
    /\ o \in pending \ failed
    /\ failed' = failed \cup {o}
    /\ failures' = failures + 1
    /\ UNCHANGED <<pending, result>>

Finish(o) ==
    /\ o \in pending
    /\ pending' = pending \ {o}
    /\ failed' = failed \ {o}
    /\ UNCHANGED <<failures, result>>

Return ==
    /\ pending = {}
    /\ result' = failures
    /\ failures' = 0
    /\ UNCHANGED <<pending, failed>>

Next == Return \/ \E o \in Ops : Begin(o) \/ Fail(o) \/ Finish(o)

Spec == Init /\ [][Next]_vars

================================================================================
