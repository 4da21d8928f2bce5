--------------------------------- MODULE Latch ---------------------------------
(***************************************************************************)
(* device::Latch (src/src/device/latch.cpp) with its users: the operation  *)
(* thread counts up, publishes an operation and at last waits, as          *)
(* DataOperator does, and the callbacks of the operations count down, each *)
(* from the tick thread of its hand.  waiting_count_ and error_count_ are  *)
(* two atomics; every access to one is a step.                             *)
(***************************************************************************)
EXTENDS Integers, FiniteSets

CONSTANTS
    Ops,        \* operations that one latch can wait for at a time
    MaxStarts   \* bound: operations started altogether

ASSUME LatchAssumption == IsFiniteSet(Ops) /\ MaxStarts \in Nat

VARIABLES
    waiting_count, error_count,  \* the two atomics
    pc,        \* progress of each operation: counted up, published, failure counted
    notifying, \* threads between their fetch_sub to zero and notify_one
    upc,       \* the operation thread
    current,   \* its local of try_wait_internal
    result,    \* what try_wait_internal returned last
    starts

vars == <<waiting_count, error_count, pc, notifying, upc, current, result, starts>>

Init ==
    /\ waiting_count = 0 /\ error_count = 0
    /\ pc = [o \in Ops |-> "idle"]
    /\ notifying = 0
    /\ upc = "start" /\ current = 0 /\ result = 0 /\ starts = 0

--------------------------------------------------------------------------------
\* The operation thread.

StartWithoutCounting(o) ==
    /\ upc = "start" /\ starts < MaxStarts
    /\ pc[o] = "idle"
    /\ pc' = [pc EXCEPT ![o] = "published"]
    /\ starts' = starts + 1
    /\ UNCHANGED <<waiting_count, error_count, notifying, upc, current, result>>

CountUp(o) ==
    /\ upc = "start" /\ starts < MaxStarts
    /\ pc[o] = "idle"
    /\ waiting_count' = waiting_count + 1
    /\ pc' = [pc EXCEPT ![o] = "counted"]
    /\ upc' = "publish"
    /\ starts' = starts + 1
    /\ UNCHANGED <<error_count, notifying, current, result>>

\* handler.read_async or handler.write_async: from now on the callback can come.
Publish(o) ==
    /\ upc = "publish" /\ pc[o] = "counted"
    /\ pc' = [pc EXCEPT ![o] = "published"]
    /\ upc' = "start"
    /\ UNCHANGED <<waiting_count, error_count, notifying, current, result, starts>>

CallWait ==
    /\ upc = "start" /\ starts > 0
    /\ upc' = "load"
    /\ UNCHANGED <<waiting_count, error_count, pc, notifying, current, result, starts>>

Load ==
    /\ upc = "load"
    /\ current' = waiting_count
    /\ upc' = IF waiting_count = 0 THEN "exchange" ELSE "wait"
    /\ UNCHANGED <<waiting_count, error_count, pc, notifying, result, starts>>

SleepUnchecked ==
    /\ upc = "wait"
    /\ upc' = "asleep"
    /\ UNCHANGED <<waiting_count, error_count, pc, notifying, current, result, starts>>

\* waiting_count_.wait(current) blocks only if the count still is current.
Wait ==
    /\ upc = "wait"
    /\ upc' = IF waiting_count = current THEN "asleep" ELSE "load"
    /\ UNCHANGED <<waiting_count, error_count, pc, notifying, current, result, starts>>

ExchangeKeepingErrors ==
    /\ upc = "exchange"
    /\ result' = error_count
    /\ upc' = "start"
    /\ UNCHANGED <<waiting_count, error_count, pc, notifying, current, starts>>

\* wait() throws TimeoutError exactly when the result is not 0; the latch can be
\* used again.
Exchange ==
    /\ upc = "exchange"
    /\ result' = error_count
    /\ error_count' = 0
    /\ upc' = "start"
    /\ UNCHANGED <<waiting_count, pc, notifying, current, starts>>

--------------------------------------------------------------------------------
\* count_down, run by the callback of operation o.

CountError(o) ==
    /\ pc[o] = "published"
    /\ error_count' = error_count + 1
    /\ pc' = [pc EXCEPT ![o] = "failed"]
    /\ UNCHANGED <<waiting_count, notifying, upc, current, result, starts>>

CountDownNotifyingEarly(o) ==
    /\ pc[o] \in {"published", "failed"}
    /\ waiting_count' = waiting_count - 1
    /\ pc' = [pc EXCEPT ![o] = "idle"]
    /\ notifying' = IF waiting_count = 2 THEN notifying + 1 ELSE notifying
    /\ UNCHANGED <<error_count, upc, current, result, starts>>

CountDown(o) ==
    /\ pc[o] \in {"published", "failed"}
    /\ waiting_count' = waiting_count - 1
    /\ pc' = [pc EXCEPT ![o] = "idle"]
    /\ notifying' = IF waiting_count' = 0 THEN notifying + 1 ELSE notifying
    /\ UNCHANGED <<error_count, upc, current, result, starts>>

\* notify_one wakes the operation thread if it sleeps, and is lost otherwise.
NotifyOne ==
    /\ notifying > 0
    /\ notifying' = notifying - 1
    /\ upc' = IF upc = "asleep" THEN "load" ELSE upc
    /\ UNCHANGED <<waiting_count, error_count, pc, current, result, starts>>

Waiting == Load \/ Wait \/ Exchange

Next ==
    \/ CallWait \/ Waiting \/ NotifyOne
    \/ \E o \in Ops : CountUp(o) \/ Publish(o) \/ CountError(o) \/ CountDown(o)

Spec == Init /\ [][Next]_vars

\* The callback of every published operation comes, and every thread keeps running.
Fairness ==
    /\ WF_vars(Waiting) /\ WF_vars(NotifyOne)
    /\ \A o \in Ops : WF_vars(Publish(o)) /\ WF_vars(CountDown(o))

LiveSpec == Spec /\ Fairness

--------------------------------------------------------------------------------
\* Properties.

Pending == {o \in Ops : pc[o] # "idle"}

Stages == {"idle", "counted", "published", "failed"}

\* Each variable stays in its domain.
TypeOK ==
    /\ waiting_count \in Int /\ error_count \in Nat
    /\ pc \in [Ops -> Stages]
    /\ notifying \in Nat
    /\ upc \in {"start", "publish", "load", "wait", "asleep", "exchange"}
    /\ current \in Int /\ result \in Nat /\ starts \in 0..MaxStarts

\* A wait about to return has no operation left that would touch the latch's counts:
\* DataOperator::read then destroys the latch.
ReturnsWhenDone == upc = "exchange" => Pending = {}

\* A thread that sleeps is going to be woken: the count is not zero, or somebody who
\* brought it to zero has not notified yet.
NoLostWakeUp == upc = "asleep" => waiting_count # 0 \/ notifying > 0

\* The latch is a barrier: it returns only when nothing is pending, and with the
\* number of failures since the last return.
Barrier == INSTANCE CompletionBarrier WITH
    pending <- Pending,
    failed <- {o \in Ops : pc[o] = "failed"},
    failures <- error_count

BarrierSpec == Barrier!Spec

\* A wait that was called returns.
WaitReturns == upc = "load" ~> upc = "start"

================================================================================
