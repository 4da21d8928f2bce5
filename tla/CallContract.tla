------------------------------ MODULE CallContract ------------------------------
(***************************************************************************)
(* What a storage unit promises to those who pass a callback to            *)
(* protocol::Handler::read_async and write_async (handler.cpp:149-189):    *)
(* each call is told once how it ended, in the order of the calls, and a   *)
(* call is taken while at most one earlier one waits to be told.  The      *)
(* promise ends when a visit of the tick thread goes astray.               *)
(***************************************************************************)
EXTENDS Naturals, Sequences

CONSTANTS Calls

VARIABLES
    open,    \* the calls that were published and not told yet, the oldest first
    told,    \* how often each call was told
    failed,  \* the calls that were told of a failure
    broken   \* nothing is promised any more

vars == <<open, told, failed, broken>>

Init ==
    open = <<>> /\ told = [n \in Calls |-> 0] /\ failed = {} /\ broken = FALSE

Publish(n) ==
    /\ Len(open) < 2 /\ told[n] = 0
    /\ \A i \in DOMAIN open : open[i] # n
    /\ open' = Append(open, n)
    /\ UNCHANGED <<told, failed, broken>>

Tell ==
    /\ open # <<>>
    /\ open' = Tail(open)
    /\ told' = [told EXCEPT ![Head(open)] = @ + 1]
    /\ failed' \in {failed, failed \cup {Head(open)}}
    /\ UNCHANGED broken

Astray == broken'

Next == (\E n \in Calls : Publish(n)) \/ Tell \/ Astray

Spec == Init /\ [][Next]_vars

================================================================================
