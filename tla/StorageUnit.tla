------------------------------ MODULE StorageUnit ------------------------------
(***************************************************************************)
(* One storage unit of protocol::Handler (src/protocol/handler.cpp): the   *)
(* slot through which a read or a write of one device register travels.    *)
(*                                                                         *)
(* Three threads share the slot without a lock:                            *)
(*   - the user thread starts calls (read_async, write_async and their     *)
(*     _unchecked forms);                                                  *)
(*   - the tick thread visits the slot about every 5 ms: it sends, polls,  *)
(*     retires what succeeded and expires what is too old;                 *)
(*   - the event thread applies the replies that libusb delivers.          *)
(* The device behind the USB link is external.  Each atomic access of the  *)
(* code that another thread can tell from its neighbours is a step of its  *)
(* own; the memory is sequentially consistent.                             *)
(***************************************************************************)
EXTENDS Integers, Sequences

CONSTANTS
    Values,      \* what a register can hold
    InitValue,   \* what the register and the slot hold at the start
    Calls,       \* the entry points the user thread uses
    Timeouts,    \* the classes of timeout it passes
    Masked,      \* StorageInfo::MASKED is set on the unit
    Drifts,      \* the register changes by itself, as a sensor's does
    VersionMod,  \* the version counter is an integer modulo this (2^32)
    MaxCalls,    \* bound: calls that the user thread starts
    Window       \* bound on the device, which the code does not enforce: messages unanswered
                 \* when the tick thread visits

CheckedCalls == {"read_async", "write_async"}
AllCalls == CheckedCalls \cup {"read_async_unchecked", "write_async_unchecked"}
AllTimeouts == {"ordinary", "negative", "overflow"}
IsWrite(c) == c \in {"write_async", "write_async_unchecked"}

\* The last conjunct: every Data descriptor is either readable or writable, and the
\* templates of data_operator.hpp offer only the matching entry points.
ASSUME UnitAssumption ==
    /\ InitValue \in Values
    /\ Calls \subseteq AllCalls
    /\ Timeouts \subseteq AllTimeouts
    /\ Masked \in BOOLEAN
    /\ Drifts \in BOOLEAN
    /\ VersionMod \in Nat /\ VersionMod > 1
    /\ MaxCalls \in Nat \ {0}
    /\ Window \in Nat \ {0}
    /\ \A c, d \in Calls : IsWrite(c) = IsWrite(d)

VARIABLES
    \* struct StorageUnit
    op,          \* operation: the mode and the state, one atomic word
    value,       \* value
    version,     \* version
    timer,       \* the union of timeout (as passed) and timeout_point (as armed)
    callback,    \* callback and callback_context: the call it reports, 0 = nullptr
    \* the user thread
    upc, call, serial,
    \* tick_thread_main: where it is in the visit, its copies of operation and callback
    tpc, seen, tcb,
    \* read_sdo_operation_*: where it is, its copy of operation, the reply at hand
    epc, eop, reply,
    \* the link and the device
    requests, replies, register,
    \* history, read by properties only
    completions, \* how often each call was completed
    expired,     \* the calls that were reported as failed
    evidence,    \* the reply that made the last operation succeed
    held,        \* register held what value held at some time since the last Publish
    strayed      \* a visit retired the unit and then found its deadline passed as well, or
                 \* its abort met the event thread (see TickTakeExpired and TickAbort)

unit == <<op, value, version, timer, callback>>
user == <<upc, call, serial>>
tick == <<tpc, seen, tcb>>
event == <<epc, eop, reply>>
link == <<requests, replies, register>>
history == <<completions, expired, evidence, held, strayed>>
vars == <<unit, user, tick, event, link, history>>

--------------------------------------------------------------------------------
Modes == {"NONE", "READ", "WRITE"}
States == {"SUCCESS", "WAITING", "READING", "WRITING", "WRITING_CONFIRMING"}
Operation == [mode : Modes, state : States]
Serials == 1..MaxCalls

\* A message on the link.  by is history: the call that was under way when the
\* request was sent.  The protocol itself has no sequence number.
Messages == [kind : {"read", "write"}, val : Values, by : 0..MaxCalls]

NoOp == [mode |-> "NONE", state |-> "SUCCESS"]
NoCall == [name |-> "none", timeout |-> "ordinary"]
NoReply == [kind |-> "read", val |-> InitValue, by |-> 0]

\* The timer word: a duration as the user passed it, or a point in time that is
\* pending, passed or time_point::max().
TimerWords == AllTimeouts \cup {"pending", "passed", "max"}

Init ==
    /\ op = NoOp /\ value = InitValue /\ version = 0
    /\ timer = "max" /\ callback = 0
    /\ upc = "idle" /\ call = NoCall /\ serial = 0
    /\ tpc = "idle" /\ seen = NoOp /\ tcb = 0
    /\ epc = "idle" /\ eop = NoOp /\ reply = NoReply
    /\ requests = <<>> /\ replies = <<>> /\ register = InitValue
    /\ completions = [n \in Serials |-> 0]
    /\ expired = {} /\ evidence = NoReply /\ held = FALSE /\ strayed = FALSE

--------------------------------------------------------------------------------
\* The user thread.  A call that finds the unit busy throws (checked) or returns
\* (read_async_unchecked) and changes nothing; it is not a step.

Accept(c, t) ==
    /\ serial < MaxCalls
    /\ serial' = serial + 1
    /\ call' = [name |-> c, timeout |-> t]
    /\ upc' = "timeout"

BeginUnguarded(c, v, t) ==
    /\ upc = "idle"
    /\ Accept(c, t)
    /\ value' = IF IsWrite(c) THEN v ELSE value
    /\ UNCHANGED <<op, version, timer, callback, tick, event, link, history>>

\* read_async, read_async_unchecked and write_async load operation first.
Begin(c, v, t) ==
    /\ upc = "idle" /\ op.mode = "NONE"
    /\ Accept(c, t)
    /\ value' = IF IsWrite(c) THEN v ELSE value
    /\ UNCHANGED <<op, version, timer, callback, tick, event, link, history>>

\* write_async_unchecked stores the value before it looks at operation.
StoreUnchecked(v, t) ==
    /\ upc = "idle"
    /\ serial < MaxCalls
    /\ value' = v
    /\ call' = [name |-> "write_async_unchecked", timeout |-> t]
    /\ upc' = "check"
    /\ held' = (held \/ register = v)
    /\ UNCHANGED <<op, version, timer, callback, serial, tick, event, link,
                   completions, expired, evidence, strayed>>

CheckUnchecked ==
    /\ upc = "check"
    /\ IF op.mode = "NONE"
       THEN Accept(call.name, call.timeout)
       ELSE upc' = "idle" /\ call' = NoCall /\ UNCHANGED serial
    /\ UNCHANGED <<unit, tick, event, link, history>>

SetTimeout ==
    /\ upc = "timeout"
    /\ timer' = call.timeout
    /\ upc' = "callback"
    /\ UNCHANGED <<op, value, version, callback, call, serial, tick, event, link, history>>

SetCallback ==
    /\ upc = "callback"
    /\ callback' = IF call.name \in CheckedCalls THEN serial ELSE 0
    /\ upc' = "publish"
    /\ UNCHANGED <<op, value, version, timer, call, serial, tick, event, link, history>>

Publish ==
    /\ upc = "publish"
    /\ op' = [mode |-> IF IsWrite(call.name) THEN "WRITE" ELSE "READ", state |-> "WAITING"]
    /\ upc' = "idle" /\ call' = NoCall
    /\ held' = (register = value)
    /\ evidence' = NoReply
    /\ UNCHANGED <<value, version, timer, callback, serial, tick, event, link,
                   completions, expired, strayed>>

StartCall ==
    \E v \in Values, t \in Timeouts :
        \/ \E c \in Calls \ {"write_async_unchecked"} : Begin(c, v, t)
        \/ "write_async_unchecked" \in Calls /\ StoreUnchecked(v, t)

UserStep == CheckUnchecked \/ SetTimeout \/ SetCallback \/ Publish

--------------------------------------------------------------------------------
\* The tick thread, one visit of the slot.

\* now >= timeout_point.  A duration that was never armed is compared as if it were
\* a point in time: an ordinary or a negative one lies in the past.
Passed == timer \in {"passed", "ordinary", "negative"}

\* Negative or overflowed timeout never expires.
Armed == IF timer \in {"negative", "overflow"} THEN "max" ELSE "pending"

TickLoad ==
    /\ tpc = "idle"
    /\ Len(requests) + Len(replies) < Window
    /\ op.mode # "NONE"
    /\ seen' = IF Masked THEN [op EXCEPT !.state = "SUCCESS"] ELSE op
    /\ tpc' = IF seen'.state = "SUCCESS" THEN "succeeded" ELSE "unfinished"
    /\ UNCHANGED <<unit, user, tcb, event, link, history>>

TickTakeCallback ==
    /\ tpc = "succeeded"
    /\ tcb' = callback
    /\ tpc' = "retire"
    /\ UNCHANGED <<unit, user, seen, event, link, history>>

TickRetireWithoutStore ==
    /\ tpc = "retire"
    /\ seen' = NoOp
    /\ tpc' = "report"
    /\ UNCHANGED <<unit, user, tcb, event, link, history>>

\* The local copy keeps state SUCCESS and gets mode NONE, and is stored.
TickRetire ==
    /\ tpc = "retire"
    /\ op' = NoOp /\ seen' = NoOp
    /\ tpc' = "report"
    /\ UNCHANGED <<value, version, timer, callback, user, tcb, event, link, history>>

Complete ==
    completions' = IF tcb = 0 THEN completions ELSE [completions EXCEPT ![tcb] = @ + 1]

\* After the callback the visit goes on: there is no continue, so that the deadline
\* is still looked at.
TickReportSuccess ==
    /\ tpc = "report"
    /\ Complete
    /\ tcb' = 0
    /\ tpc' = "retired"
    /\ UNCHANGED <<unit, user, seen, event, link, expired, evidence, held, strayed>>

TickArm ==
    /\ tpc = "unfinished" /\ seen.state = "WAITING"
    /\ timer' = Armed
    /\ op' = [seen EXCEPT !.state = IF seen.mode = "READ" THEN "READING" ELSE "WRITING"]
    /\ tpc' = "idle" /\ seen' = NoOp
    /\ UNCHANGED <<value, version, callback, user, tcb, event, link, history>>

\* The two ways into the deadline test: an operation that is not finished, and
\* one that was retired a moment ago.
AtDeadlineTest == tpc = "retired" \/ (tpc = "unfinished" /\ seen.state # "WAITING")

TickTakeExpired ==
    /\ AtDeadlineTest /\ Passed
    /\ tcb' = callback
    /\ tpc' = "abort"
    /\ strayed' = (strayed \/ tpc = "retired")
    /\ UNCHANGED <<unit, user, seen, event, link, completions, expired, evidence, held>>

\* The store is blind: what the event thread or the user thread made of operation
\* since TickLoad is lost.
TickAbort ==
    /\ tpc = "abort"
    /\ op' = [seen EXCEPT !.mode = "NONE"]
    /\ tpc' = "expire" /\ seen' = NoOp
    /\ strayed' = (strayed \/ epc # "idle")
    /\ UNCHANGED <<value, version, timer, callback, user, tcb, event, link,
                   completions, expired, evidence, held>>

TickForgetFailure ==
    /\ tpc = "expire"
    /\ tcb' = 0
    /\ tpc' = "idle"
    /\ UNCHANGED <<unit, user, seen, event, link, history>>

TickReportFailure ==
    /\ tpc = "expire"
    /\ Complete
    /\ expired' = expired \cup ({tcb} \ {0})
    /\ tcb' = 0
    /\ tpc' = "idle"
    /\ UNCHANGED <<unit, user, seen, event, link, evidence, held, strayed>>

Request(kind) == Append(requests, [kind |-> kind, val |-> value, by |-> serial])

TickPoll ==
    /\ tpc = "unfinished" /\ ~Passed
    /\ seen.state \in {"READING", "WRITING_CONFIRMING"}
    /\ requests' = Request("read")
    /\ tpc' = "idle" /\ seen' = NoOp
    /\ UNCHANGED <<unit, user, tcb, event, replies, register, history>>

TickWrite ==
    /\ tpc = "unfinished" /\ ~Passed
    /\ seen.state = "WRITING"
    /\ op' = [seen EXCEPT !.state = "WRITING_CONFIRMING"]
    /\ tpc' = "send"
    /\ UNCHANGED <<value, version, timer, callback, user, seen, tcb, event, link, history>>

TickSend ==
    /\ tpc = "send"
    /\ requests' = Request("write")
    /\ tpc' = "idle" /\ seen' = NoOp
    /\ UNCHANGED <<unit, user, tcb, event, replies, register, history>>

TickLeave ==
    /\ tpc = "retired" /\ ~Passed
    /\ tpc' = "idle"
    /\ UNCHANGED <<unit, user, seen, tcb, event, link, history>>

TickStep ==
    \/ TickLoad \/ TickTakeCallback \/ TickRetire \/ TickReportSuccess \/ TickLeave
    \/ TickArm \/ TickTakeExpired \/ TickAbort \/ TickReportFailure
    \/ TickPoll \/ TickWrite \/ TickSend

--------------------------------------------------------------------------------
\* The event thread, one reply.

Done == epc' = "idle" /\ eop' = NoOp /\ reply' = NoReply

HandlingWhileWaiting(r) ==
    CASE op.mode = "NONE" -> "idle"
      [] op.mode = "READ" /\ r.kind = "read" -> "value"
      [] op.mode = "WRITE" /\ r.kind = "read" -> "compare"
      [] OTHER -> "idle"

\* Where the handler of a reply goes when it loads operation.
Handling(r) ==
    CASE op.mode = "NONE" -> "idle"
      [] op.mode # "NONE" /\ r.kind = "read" /\ op.state = "READING" -> "value"
      [] op.mode # "NONE" /\ r.kind = "read" /\ op.state = "WRITING_CONFIRMING" -> "compare"
      [] op.mode # "NONE" /\ r.kind = "write" /\ op.state = "WRITING" -> "store"
      [] OTHER -> "idle"

EventLoad ==
    /\ epc = "idle" /\ replies # <<>>
    /\ replies' = Tail(replies)
    /\ LET r == Head(replies)
       IN  IF Handling(r) = "idle"
           THEN Done
           ELSE /\ epc' = Handling(r)
                /\ reply' = r
                /\ eop' = IF r.kind = "write" THEN [op EXCEPT !.state = "SUCCESS"] ELSE op
    /\ UNCHANGED <<unit, user, tick, requests, register, history>>

NextVersionWithZero == (version + 1) % VersionMod

\* Version 0 means that nothing was ever read: the counter skips it.
NextVersion == IF (version + 1) % VersionMod = 0 THEN 1 ELSE (version + 1) % VersionMod

EventValue ==
    /\ epc = "value"
    /\ value' = reply.val
    /\ version' = NextVersion
    /\ eop' = [eop EXCEPT !.state = "SUCCESS"]
    /\ epc' = "store"
    /\ UNCHANGED <<op, timer, callback, user, tick, reply, link, history>>

EventTrust ==
    /\ epc = "compare"
    /\ eop' = [eop EXCEPT !.state = "SUCCESS"]
    /\ epc' = "store"
    /\ UNCHANGED <<unit, user, tick, reply, link, history>>

EventCompare ==
    /\ epc = "compare"
    /\ eop' = [eop EXCEPT !.state = IF reply.val = value THEN "SUCCESS" ELSE "WRITING"]
    /\ epc' = "store"
    /\ UNCHANGED <<unit, user, tick, reply, link, history>>

\* The second half of the read-modify-write of operation, blind as well.
EventStore ==
    /\ epc = "store"
    /\ op' = eop
    /\ evidence' = IF eop.state = "SUCCESS" THEN reply ELSE evidence
    /\ Done
    /\ UNCHANGED <<value, version, timer, callback, user, tick, link,
                   completions, expired, held, strayed>>

EventStep == EventLoad \/ EventValue \/ EventCompare \/ EventStore

--------------------------------------------------------------------------------
\* The device (external): it handles the requests in order.

Answer(q, r) ==
    /\ register' = r
    /\ requests' = Tail(requests)
    /\ replies' = Append(replies, [q EXCEPT !.val = r])
    /\ held' = (held \/ r = value)
    /\ UNCHANGED <<unit, user, tick, event, completions, expired, evidence, strayed>>

DeviceRead ==
    /\ requests # <<>> /\ Head(requests).kind = "read"
    /\ Answer(Head(requests), register)

DeviceWrite ==
    /\ requests # <<>> /\ Head(requests).kind = "write"
    /\ Answer(Head(requests), Head(requests).val)

\* An SDO error reply: read_sdo_operation_*_failed parses it and does nothing.
DeviceRefuse ==
    /\ requests # <<>>
    /\ requests' = Tail(requests)
    /\ UNCHANGED <<unit, user, tick, event, replies, register, history>>

RegisterDrifts ==
    /\ Drifts
    /\ register' \in Values
    /\ UNCHANGED <<unit, user, tick, event, requests, replies, history>>

DeadlinePasses ==
    /\ timer = "pending"
    /\ timer' = "passed"
    /\ UNCHANGED <<op, value, version, callback, user, tick, event, link, history>>

Next ==
    \/ StartCall \/ UserStep \/ TickStep \/ EventStep
    \/ DeviceRead \/ DeviceWrite \/ DeviceRefuse \/ RegisterDrifts \/ DeadlinePasses

Spec == Init /\ [][Next]_vars

\* Threads keep running and time passes.  The device may refuse a request, but not
\* all reads or all writes for ever.  The user thread need not start another call.
Fairness ==
    /\ WF_vars(UserStep) /\ WF_vars(TickStep) /\ WF_vars(EventStep)
    /\ SF_vars(DeviceRead) /\ SF_vars(DeviceWrite) /\ WF_vars(DeadlinePasses)

LiveSpec == Spec /\ Fairness

--------------------------------------------------------------------------------
\* Properties.

\* Each variable stays in its domain.
TypeOK ==
    /\ op \in Operation /\ value \in Values /\ version \in 0..(VersionMod - 1)
    /\ timer \in TimerWords /\ callback \in 0..MaxCalls
    /\ upc \in {"idle", "check", "timeout", "callback", "publish"}
    /\ call \in [name : AllCalls \cup {"none"}, timeout : AllTimeouts]
    /\ serial \in 0..MaxCalls
    /\ tpc \in {"idle", "succeeded", "retire", "report", "retired", "unfinished",
                "abort", "expire", "send"}
    /\ seen \in Operation /\ tcb \in 0..MaxCalls
    /\ epc \in {"idle", "value", "compare", "store"}
    /\ eop \in Operation /\ reply \in Messages
    /\ requests \in Seq(Messages) /\ replies \in Seq(Messages) /\ register \in Values
    /\ completions \in [Serials -> Nat] /\ expired \subseteq Serials
    /\ evidence \in Messages /\ held \in BOOLEAN /\ strayed \in BOOLEAN

\* A call is completed at most once, as long as no visit strayed.
CompletedOnce == ~strayed => \A n \in Serials : completions[n] =< 1

Busy == op.mode # "NONE"

\* The calls with a callback that were published and not told yet: one that the tick thread
\* took out of the slot to tell it, and one that is in the slot.
Open ==
    (IF tpc \in {"report", "expire"} /\ tcb # 0 THEN <<tcb>> ELSE <<>>)
        \o (IF Busy /\ callback # 0 THEN <<callback>> ELSE <<>>)

Contract == INSTANCE CallContract WITH
    Calls <- Serials,
    open <- Open,
    told <- completions,
    failed <- expired,
    broken <- strayed

\* Each call is told once, in the order of the calls, and told of a failure exactly if it
\* expired, as long as no visit strayed.
ContractSpec == Contract!Spec

\* While the tick thread retires a success it saw, the word still says SUCCESS:
\* no thread has moved the operation on (the blind store loses nothing).
RetireLosesNothing == ~strayed /\ ~Masked /\ tpc \in {"succeeded", "retire"} => op = seen

\* A read is retired only with the value of the reply that made it succeed in the
\* slot, and with a version that says so.
ReadDelivers ==
    ~strayed /\ ~Masked /\ tpc = "retire" /\ op.mode = "READ" =>
        /\ evidence.kind = "read" /\ value = evidence.val
        /\ version # 0

\* A call is retired by the answer to a request of its own, never by a late answer
\* to an earlier one.
OwnReply == ~strayed /\ ~Masked /\ tpc = "retire" => evidence.by = serial

\* A write is reported as done only if the register did hold the value.
HonestWrite == ~strayed /\ ~Masked /\ tpc = "retire" /\ op.mode = "WRITE" => held

\* A call whose timeout is negative or overflows is never reported as failed.
NeverExpires == "ordinary" \notin Timeouts => expired = {}

\* A masked unit never puts anything on the wire.
MaskedSilent == Masked => requests = <<>> /\ replies = <<>>

Published(n) == upc = "publish" /\ callback = n

\* Every published call is completed, unless a visit strayed, and provided that the user
\* does not go on storing new values unchecked: those can keep a write from ever being
\* confirmed.
EveryCallCompletes ==
    <>[](upc # "check") => \A n \in Serials : Published(n) ~> completions[n] > 0 \/ strayed

\* Every published call is completed, once: write blocks until completion and guarantees
\* success upon return.
ToldExactlyOnce == \A n \in Serials : Published(n) ~> [](completions[n] = 1)

================================================================================
