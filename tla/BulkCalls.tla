------------------------------- MODULE BulkCalls -------------------------------
(***************************************************************************)
(* Calls that cover several storage units and wait on one latch: read,     *)
(* write and their _async and _async_unchecked forms of                    *)
(* device/data_operator.hpp, on a hand that is constructed with a mask of  *)
(* joints, over the sweeps of tick_thread_main and the frames that         *)
(* receive_transfer_completed_callback takes apart                         *)
(* (src/protocol/handler.cpp).                                             *)
(* A visit of a unit up to its callback and the parsing of one SDO object  *)
(* are each one step here: StorageUnit takes them apart.  The callback is  *)
(* two, for the latch is a local of the call that waits on it, and may be  *)
(* gone between the two atomic operations of count_down.                   *)
(***************************************************************************)
EXTENDS StorageLayout, FiniteSetsExt

CONSTANTS
    Masks,     \* the masks a hand may be constructed with: sets of joints 4 * f + j
    Calls,     \* what the user thread may call: the mode, the units in the order in which
               \* iterate reaches them, and whether they share a latch or are unchecked
    MaxCalls,  \* bound: calls that the user thread makes
    Window     \* bound: frames unanswered when a sweep begins

\* The units that the calls are about; the others stay free and are not represented.
Used == UNION {{c.units[k] : k \in DOMAIN c.units} : c \in Calls}

\* The walk reaches a unit once.
ASSUME BulkAssumption ==
    /\ \A m \in Masks : m \subseteq 0..19
    /\ Calls # {}
    /\ \A c \in Calls :
          /\ c.mode \in {"READ", "WRITE"} /\ c.latched \in BOOLEAN
          /\ c.units \in Seq(0..(StorageUnitCount - 1)) /\ c.units # <<>>
          /\ \A i, j \in DOMAIN c.units : c.units[i] = c.units[j] => i = j
    /\ MaxCalls \in Nat \ {0} /\ Window \in Nat \ {0}

VARIABLES
    mask,                 \* the joints masked when the hand was constructed
    unit,                 \* StorageUnit: operation, timer, and the call its callback is for
    upc, call, todo, serial,  \* the user thread
    count, errors,        \* waiting_count_ and error_count_ of the latch of the current call
    sweep, retired,       \* tick thread: units still to visit, the one just retired
    callback,             \* tick thread: the callback it is in
    batch, frames,        \* requests of this sweep; frames the device has still to answer
    failed,               \* history: units of the current call that reported a failure
    strayed,              \* history: a visit went on to the deadline after a success
    refused,              \* history: a call threw when some of its units had been started
    dangling              \* history: a callback counted down on a latch that was gone

user == <<upc, call, todo, serial>>
latch == <<count, errors, failed, dangling>>
tick == <<sweep, retired, callback, batch, strayed>>
vars == <<mask, unit, user, latch, tick, frames, refused>>

Nobody == -1
NoCallback == [step |-> "none", unit |-> Nobody, call |-> 0, success |-> FALSE]
Free == [mode |-> "NONE", state |-> "SUCCESS", timer |-> "raw", call |-> 0]
Busy(u) == unit[u].mode # "NONE"

Init ==
    /\ mask \in Masks
    /\ unit = [u \in Used |-> Free]
    /\ upc = "idle" /\ call = (CHOOSE c \in Calls : TRUE) /\ todo = 1 /\ serial = 0
    /\ count = 0 /\ errors = 0 /\ failed = {} /\ dangling = FALSE
    /\ sweep = {} /\ retired = Nobody /\ callback = NoCallback /\ batch = <<>> /\ strayed = FALSE
    /\ frames = <<>> /\ refused = FALSE

Place == [u \in Used |-> InfoOf[u].place]
MaskedUnit(u) == Masked(Place[u], mask)

--------------------------------------------------------------------------------
\* The user thread.  The latch is a local of the call: its address is the context of the
\* callbacks, and the number of the call stands for it.

Begin(c) ==
    /\ upc = "idle" /\ serial < MaxCalls
    /\ upc' = "iterate" /\ call' = c /\ todo' = 1 /\ serial' = serial + 1
    /\ count' = 0 /\ errors' = 0 /\ failed' = {}
    /\ UNCHANGED <<mask, unit, tick, frames, dangling, refused>>

NextUnit ==
    /\ todo' = todo + 1
    /\ upc' = IF todo < Len(call.units) THEN "iterate" ELSE IF call.latched THEN "wait" ELSE "idle"
    /\ UNCHANGED <<call, serial>>

Publish(u) ==
    unit' = [unit EXCEPT ![u] = [mode |-> call.mode, state |-> "WAITING", timer |-> "raw",
                                 call |-> IF call.latched THEN serial ELSE 0]]

StartCountingOnce ==
    /\ upc = "iterate"
    /\ ~Busy(call.units[todo])
    /\ Publish(call.units[todo])
    /\ count' = IF call.latched THEN 1 ELSE 0
    /\ NextUnit
    /\ UNCHANGED <<mask, tick, frames, errors, failed, dangling, refused>>

Start ==
    /\ upc = "iterate"
    /\ ~Busy(call.units[todo])
    /\ Publish(call.units[todo])
    /\ count' = count + (IF call.latched THEN 1 ELSE 0)
    /\ NextUnit
    /\ UNCHANGED <<mask, tick, frames, errors, failed, dangling, refused>>

\* An unchecked call passes over a unit that is busy.
Skip ==
    /\ upc = "iterate" /\ ~call.latched
    /\ Busy(call.units[todo])
    /\ NextUnit
    /\ UNCHANGED <<mask, unit, latch, tick, frames, refused>>

\* The units that the latch of the call has counted up for and not down: those in flight,
\* and the one whose callback has yet to begin.
CountingFor(u) ==
    callback.step = "count" /\ callback.unit = u /\ callback.call = serial

Owed == {u \in Used : (Busy(u) /\ unit[u].call = serial) \/ CountingFor(u)}

\* A checked one throws, and its latch dies with it.
Throw ==
    /\ upc = "iterate" /\ call.latched
    /\ Busy(call.units[todo])
    /\ upc' = "idle"
    /\ refused' = (refused \/ Owed # {})
    /\ count' = 0 /\ errors' = 0 /\ failed' = {}
    /\ UNCHANGED <<mask, unit, call, todo, serial, dangling, tick, frames>>

\* wait returns, or throws a TimeoutError if there are errors.
Return ==
    /\ upc = "wait" /\ count = 0
    /\ upc' = "idle" /\ errors' = 0 /\ failed' = {}
    /\ UNCHANGED <<mask, unit, call, todo, serial, count, dangling, tick, frames, refused>>

UserStep == Start \/ Skip \/ Throw \/ Return

--------------------------------------------------------------------------------
\* The callback, count_down on the latch of a call.

\* The latch of call n exists.
Alive(n) == n = serial /\ upc \in {"iterate", "wait"}

\* The tick thread calls the callback of unit u, if there is one.
Tell(u, success) ==
    callback' = IF unit[u].call = 0 THEN NoCallback
                ELSE [step |-> "count", unit |-> u, call |-> unit[u].call, success |-> success]

TickUnchanged == UNCHANGED <<mask, unit, user, sweep, retired, batch, strayed, frames, refused>>

CountDownUncounted ==
    /\ callback.step = "count"
    /\ IF Alive(callback.call)
       THEN /\ count' = count - 1
            /\ failed' = IF callback.success THEN failed ELSE failed \cup {callback.unit}
            /\ callback' = IF count = 1 THEN [callback EXCEPT !.step = "notify"] ELSE NoCallback
            /\ UNCHANGED <<errors, dangling>>
       ELSE /\ dangling' = TRUE
            /\ callback' = NoCallback
            /\ UNCHANGED <<count, errors, failed>>
    /\ TickUnchanged

\* error_count_ and waiting_count_: the wait looks at the first only after the second.
CountDown ==
    /\ callback.step = "count"
    /\ IF Alive(callback.call)
       THEN /\ count' = count - 1
            /\ errors' = errors + (IF callback.success THEN 0 ELSE 1)
            /\ failed' = IF callback.success THEN failed ELSE failed \cup {callback.unit}
            /\ callback' = IF count = 1 THEN [callback EXCEPT !.step = "notify"] ELSE NoCallback
            /\ UNCHANGED dangling
       ELSE /\ dangling' = TRUE
            /\ callback' = NoCallback
            /\ UNCHANGED <<count, errors, failed>>
    /\ TickUnchanged

\* waiting_count_.notify_one, on a latch whose wait may have returned already.
Notify ==
    /\ callback.step = "notify"
    /\ callback' = NoCallback
    /\ UNCHANGED latch /\ TickUnchanged

Retire(u) == unit' = [unit EXCEPT ![u].mode = "NONE", ![u].state = "SUCCESS"]

--------------------------------------------------------------------------------
\* The tick thread: one sweep over the units in ascending order.

BeginSweep ==
    /\ sweep = {} /\ retired = Nobody /\ callback = NoCallback /\ batch = <<>>
    /\ Len(frames) < Window
    /\ \E u \in Used : Busy(u)
    /\ sweep' = Used
    /\ UNCHANGED <<mask, unit, user, latch, retired, callback, batch, strayed, frames, refused>>

\* The visit of the next unit, u.
At(u) == callback = NoCallback /\ retired = Nobody /\ sweep # {} /\ u = Min(sweep)
Leave(u) == sweep' = sweep \ {u}
InFlight(u, states) == Busy(u) /\ ~MaskedUnit(u) /\ unit[u].state \in states
DueNever(u) == FALSE

Due(u) == unit[u].timer # "pending"

VisitFree(u) ==
    /\ At(u) /\ ~Busy(u)
    /\ Leave(u)
    /\ UNCHANGED <<mask, unit, user, latch, retired, callback, batch, strayed, frames, refused>>

\* A masked unit is taken for successful whatever its state.
VisitSuccess(u) ==
    /\ At(u) /\ Busy(u)
    /\ MaskedUnit(u) \/ unit[u].state = "SUCCESS"
    /\ Retire(u) /\ Tell(u, TRUE)
    /\ retired' = u
    /\ UNCHANGED <<mask, user, latch, sweep, batch, strayed, frames, refused>>

\* ... and goes on to the deadline of whatever the unit holds by now.  The timer of a unit
\* that was never armed is a duration: read as a point in time, it passed long ago.
AfterSuccess(u) ==
    /\ callback = NoCallback /\ retired = u
    /\ retired' = Nobody /\ Leave(u)
    /\ IF Due(u)
       THEN Retire(u) /\ Tell(u, FALSE) /\ strayed' = TRUE
       ELSE UNCHANGED <<unit, callback, strayed>>
    /\ UNCHANGED <<mask, user, latch, batch, frames, refused>>

Arm(u) ==
    /\ At(u) /\ InFlight(u, {"WAITING"})
    /\ unit' = [unit EXCEPT ![u].timer = "pending",
                            ![u].state = IF unit[u].mode = "READ" THEN "READING" ELSE "WRITING"]
    /\ Leave(u)
    /\ UNCHANGED <<mask, user, latch, retired, callback, batch, strayed, frames, refused>>

Expire(u) ==
    /\ At(u) /\ InFlight(u, {"READING", "WRITING", "WRITING_CONFIRMING"}) /\ Due(u)
    /\ Retire(u) /\ Tell(u, FALSE)
    /\ Leave(u)
    /\ UNCHANGED <<mask, user, latch, retired, batch, strayed, frames, refused>>

Poll(u) ==
    /\ At(u) /\ InFlight(u, {"READING", "WRITING_CONFIRMING"}) /\ ~Due(u)
    /\ batch' = Append(batch, [kind |-> "read", of |-> u])
    /\ Leave(u)
    /\ UNCHANGED <<mask, unit, user, latch, retired, callback, strayed, frames, refused>>

Write(u) ==
    /\ At(u) /\ InFlight(u, {"WRITING"}) /\ ~Due(u)
    /\ unit' = [unit EXCEPT ![u].state = "WRITING_CONFIRMING"]
    /\ batch' = Append(batch, [kind |-> "write", of |-> u])
    /\ Leave(u)
    /\ UNCHANGED <<mask, user, latch, retired, callback, strayed, frames, refused>>

\* The end of the sweep: trigger_transmission.
Transmit ==
    /\ sweep = {} /\ retired = Nobody /\ callback = NoCallback /\ batch # <<>>
    /\ frames' = Append(frames, batch) /\ batch' = <<>>
    /\ UNCHANGED <<mask, unit, user, latch, sweep, retired, callback, strayed, refused>>

TickStep ==
    \/ BeginSweep \/ Transmit \/ CountDown \/ Notify
    \/ \E u \in Used : VisitFree(u) \/ VisitSuccess(u) \/ AfterSuccess(u) \/ Arm(u)
                       \/ Expire(u) \/ Poll(u) \/ Write(u)

\* now is read once, before the sweep.
DeadlinePasses(u) ==
    /\ sweep = {} /\ retired = Nobody
    /\ Busy(u) /\ unit[u].timer = "pending"
    /\ unit' = [unit EXCEPT ![u].timer = "passed"]
    /\ UNCHANGED <<mask, user, latch, tick, frames, refused>>

--------------------------------------------------------------------------------
\* The event thread: the device (external) answers a frame with a frame, one object for
\* each request, and the objects are parsed one after the other.

Object == Head(Head(frames))

NextObject ==
    frames' = IF Len(Head(frames)) = 1 THEN Tail(frames)
              ELSE <<Tail(Head(frames))>> \o Tail(frames)

\* The unit that the reply to a request of unit u is credited to.
Credit == [u \in Used |-> FindStorage(Key(InfoOf[u]), StorageUnitCount).id]

Becomes(u, states) == \E s \in states : unit' = [unit EXCEPT ![u].state = s]

\* A value ends a read.  It confirms a write, or has it sent again if it differs.
ParseValue ==
    /\ frames # <<>> /\ Object.kind = "read"
    /\ NextObject
    /\ LET u == Credit[Object.of]
       IN  IF u \in Used /\ Busy(u) /\ unit[u].state = "READING"
           THEN Becomes(u, {"SUCCESS"})
           ELSE IF u \in Used /\ Busy(u) /\ unit[u].state = "WRITING_CONFIRMING"
                THEN Becomes(u, {"SUCCESS", "WRITING"})
                ELSE UNCHANGED unit
    /\ UNCHANGED <<mask, user, latch, tick, refused>>

ParseDone ==
    /\ frames # <<>> /\ Object.kind = "write"
    /\ NextObject
    /\ LET u == Credit[Object.of]
       IN  IF u \in Used /\ Busy(u) /\ unit[u].state = "WRITING"
           THEN Becomes(u, {"SUCCESS"})
           ELSE UNCHANGED unit
    /\ UNCHANGED <<mask, user, latch, tick, refused>>

\* The device refused: the object is stepped over.
ParseRefused ==
    /\ frames # <<>>
    /\ NextObject
    /\ UNCHANGED <<mask, unit, user, latch, tick, refused>>

\* An unknown specifier or index, a truncated object or padding ends the parsing of the
\* frame, and a frame may not arrive at all.
ParseFault ==
    /\ frames # <<>>
    /\ frames' = Tail(frames)
    /\ UNCHANGED <<mask, unit, user, latch, tick, refused>>

EventStep == ParseValue \/ ParseDone \/ ParseRefused \/ ParseFault

Next ==
    \/ \E c \in Calls : Begin(c)
    \/ UserStep \/ TickStep \/ EventStep
    \/ \E u \in Used : DeadlinePasses(u)

Spec == Init /\ [][Next]_vars

\* The threads keep running, time passes, and a frame is answered or given up.
Fairness ==
    /\ WF_vars(UserStep) /\ WF_vars(TickStep) /\ WF_vars(EventStep)
    /\ \A u \in Used : SF_vars(DeadlinePasses(u))

LiveSpec == Spec /\ Fairness

--------------------------------------------------------------------------------
\* Properties.

\* A callback that has yet to count down, and a unit in flight that is owed one, find their
\* latch alive, unless the call threw half-way and left its units running, or a visit
\* strayed past a success.  It cannot be said of the notify: between the last fetch_sub and
\* its notify_one the wait may return, and the latch is gone.
LatchOutlivesCalls ==
    ~strayed /\ ~refused =>
        /\ ~dangling
        /\ callback.step = "count" => Alive(callback.call)
        /\ \A u \in Used : Busy(u) /\ unit[u].call # 0 => Alive(unit[u].call)

\* The latch counts the units of the call that have still to report, over all the frames
\* that are lost, refused or answered late, and its errors those that failed: when wait
\* returns normally, every unit of the call succeeded.
WaitMeansDone ==
    ~strayed /\ upc \in {"iterate", "wait"} /\ call.latched =>
        count = Cardinality(Owed) /\ errors = Cardinality(failed)

\* A joint that the mask names is never put on the wire, and it is that joint: bit 4 * f + j.
SilentJoints ==
    \A m \in {batch[k] : k \in DOMAIN batch}
             \cup UNION {{frames[n][k] : k \in DOMAIN frames[n]} : n \in DOMAIN frames} :
        m.of >= 12 => (m.of - 12) \div 14 \notin mask

\* The layout of the units, and the conversions, on which the calls rest.
LayoutSound == serial = 0 => RepliesNameTheirUnit
ConversionsSound == serial = 0 => PathsAgree

\* Every call that waits returns, even if the device never answers, as long as no visit
\* strayed and no callback counted down on a latch that was gone.
BulkReturns == upc = "wait" ~> upc = "idle" \/ strayed \/ dangling

SilentRequests == [kind : {"read", "write"}, of : {u \in Used : ~MaskedUnit(u)}]

\* Each variable stays in its domain: in particular what is gathered and what is on the
\* wire are requests of units that are not masked.
TypeOK ==
    /\ mask \in Masks
    /\ unit \in [Used -> [mode : {"NONE", "READ", "WRITE"},
                          state : {"WAITING", "READING", "WRITING", "WRITING_CONFIRMING", "SUCCESS"},
                          timer : {"raw", "pending", "passed"}, call : 0..serial]]
    /\ upc \in {"idle", "iterate", "wait"} /\ call \in Calls /\ serial \in Nat
    /\ todo \in Nat \ {0} /\ (upc = "iterate" => todo =< Len(call.units))
    /\ count \in Int /\ errors \in Nat /\ failed \subseteq Used
    /\ sweep \subseteq Used /\ retired \in Used \cup {Nobody}
    /\ callback \in [step : {"none", "count", "notify"}, unit : Used \cup {Nobody},
                     call : 0..serial, success : BOOLEAN]
    /\ callback.step # "none" => callback.unit \in Used
    /\ batch \in Seq(SilentRequests) /\ frames \in Seq(Seq(SilentRequests) \ {<<>>})
    /\ strayed \in BOOLEAN /\ refused \in BOOLEAN /\ dangling \in BOOLEAN

================================================================================
