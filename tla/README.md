# WujihandCpp in TLA+

Formal models of the concurrent core of WujihandCpp, the C++ SDK that drives a Wujihand over USB.
They are written from the source and checked with TLC. Every invariant, action property and refinement
that a passing run checks is also proved with TLAPS, for every value of the constants; what is left to TLC
alone is liveness. Paths below are relative to the repository; `handler.cpp` is
`src/protocol/handler.cpp`.

## 1. The system

A `device::Hand` owns a `protocol::Handler`, which is a `driver::Driver`. Every register of the hand
("data") has a slot in the handler, a *storage unit*. The user reads and writes units; threads of the
handler turn that into SDO messages to the device. A realtime controller streams positions as PDO
frames beside them. Five kinds of thread touch shared state, with atomics and no lock:

| thread | code | what it does |
|---|---|---|
| user | `Hand`, `DataOperator`, `Handler::read_async`... | prepares and publishes operations, waits on latches, attaches and detaches controllers |
| tick (199 Hz) | `tick_thread_main` | sends, polls, confirms, retires and expires operations; runs the callbacks |
| event | `handle_events` | runs libusb's callbacks: parses replies, recycles transfers |
| realtime (500 Hz) | `realtime_controller_thread_main` | calls the controller's `step` and sends its targets |
| destructor | `~Impl`, `~Driver` (on the user thread) | stops the event thread, frees the device |

### Components, their state and their operations

| component | state | operations | what makes it correct |
|---|---|---|---|
| storage unit (`handler.cpp:149-233, 374-521`) | operation word (mode, state), value, version, timer union, callback | `read_async`, `write_async`, the `_unchecked` forms, the tick visit, three kinds of reply | a call is completed exactly once; a read with the value the device sent; a write only if the register held the value; a timeout that never expires never fails |
| latch (`latch.cpp`, `latch.hpp`) | `waiting_count_`, `error_count_` | `count_up`, `count_down`, `wait`, `try_wait` | returns exactly when nothing is pending, with the failures since the last return; no lost wake-up |
| ring buffer (`ring_buffer.hpp`) | `in_`, `out_`, storage | `emplace_back_multi`, `pop_front_multi`, `wait_data` | a bounded FIFO; the sides never share a slot; no leak; no lost wake-up (of `wait_data`, which the repository does not call) |
| transmit buffer (`async_transmit_buffer.hpp`, `handler.cpp:246-316`) | ring of free transfers, length and type of each | fetch, trigger, complete, destroy | no transfer lost; recycling finds room; frames fit, are padded and of one type; nothing in flight is freed |
| driver (`driver.hpp`) | context, handle, interface, receive transfer, two flags | `init`, the rest of the constructor of `Impl`, event loop, `stop_handling_events`, `~Driver` | all or nothing; ends; once constructed, frees only what libusb does not hold |
| realtime path (`handler.cpp:122-142, 523-596`, `controller.hpp`, `low_pass.hpp`) | controller, stop token, result vector and version, inboxes | attach, detach, set, step, PDO result | no step on made-up positions; the thread never outlives its controller; a detach ends |
| hand (`hand.hpp`) | the mode the device is in, operators | constructor, `realtime_controller`, attach, detach, `~ControllerOperator` | modes change at rest; joints are put back; device and host agree; operators stay valid |
| bulk calls (`data_operator.hpp:46-197`) | a latch, a local of the call | `read`, `write`, `_async`, `_async_unchecked` of a hand, a finger or a joint | the latch counts what is pending and is alive for every decrement; each call ends, whatever happens to the frames |
| storage layout (`data_operator.hpp:200-268`, `data/`, `finger.hpp`, `joint.hpp`) | ids, index map, mask bits | compile-time iteration | every unit initialised once and found again by its replies; the mask silences the joints it names |
| conversions (`handler.cpp:206-244, 562-570, 650-655`) | none | `store_data`, `load_data`, their copies on the PDO path | a position means the same on both paths and is read back as written; limits stay in order |
| frame parser (`handler.cpp:318-438, 598-614`) | none | one object after the other | a fault drops the rest of a frame, and no call is left waiting for it |
| logging (`logging.hpp`, `singleton.hpp`) | configuration, logger, instance mutex | `get_logger`, `set_log_*` | built once; no setting lost between a setter and the constructor |
| firmware version | | comparison | the version check of the constructor |

### How they interact

`DataOperator::read` counts a latch up and publishes an operation for each unit; the tick thread
puts a request into the transmit buffer; the event thread applies the reply to the unit that the
index map names; the tick thread sees SUCCESS, frees the unit and runs the callback, which counts the
latch down and wakes the user. The tick thread and the realtime thread each own a transmit buffer,
whose ring they consume and the event thread produces into. `Hand` is a client of all that: it goes
through sequences of bulk writes, each on a latch, before it hands a controller to the handler.

### What is hard

* Three threads load and store the operation word without compare-and-swap, so every store may be
  blind to another one; the timer and the callback are plain words beside it.
* Replies carry no sequence number.
* Timeouts race with replies, and a call is often re-issued at the moment its predecessor completes.
* Lock-free wake-ups (`wait`/`notify_one`) in the latch and in the ring.
* A pool that may run dry, and a comment that explains a race that was fixed there once.
* A shutdown with a known race (`driver.hpp:70`), and destructors that can throw.
* Bulk calls and sequences that can stop in the middle, and frames that are dropped in the middle.
* A double-checked singleton whose constructor reads what setters are changing.

`PROJECT.json` lists each of these at its line, with the properties that watch it or the reason why
none does.

## 2. The modules

Each module models the state of its component as variables that keep the names of the source, and
has one action per step that another thread can tell from its neighbours: an atomic access together
with the thread-local work around it. Program counters are named for what the thread is about to do.
Memory is sequentially consistent: the orders that `relaxed` accesses would add are not explored.
Definitions whose body is that of the one below them with a change (`BeginUnguarded` before `Begin`)
are not part of the specifications: they are the mutants that show that a property can fail.

| module | models | composes or implements |
|---|---|---|
| `CallContract` | abstract: what a unit promises to those who pass a callback | |
| `StorageUnit` | one unit with the user, tick and event threads; device and link are external | implements `CallContract` |
| `StorageUnit_proofs` | theorems, the refinement among them | |
| `CompletionBarrier` | abstract: what a latch promises | |
| `Latch` | latch, waiter, callbacks | implements `CompletionBarrier` |
| `Latch_proofs` | theorems, the refinement among them | |
| `BoundedFifo` | abstract: what a ring promises | |
| `RingBuffer` | producer and consumer, slot by slot | implements `BoundedFifo` |
| `RingBuffer_proofs` | theorems, the refinement among them | |
| `TransmitBuffer` | owner thread, event thread, destructor of the pool | uses the ring as its contents, capacity and the moment between pop and publication |
| `TransmitBuffer_proofs` | theorems about it | |
| `EventLoop` | acquisition, receive transfer, event thread, destructor | |
| `RealtimeLoop` | user, realtime thread, event thread, device | |
| `RealtimeLoop_proofs` | theorems about it | |
| `HandControl` | the sequences of `Hand`; a batch of writes on one latch is one step | relies on what `StorageUnit`, `Latch` and `BulkCalls` promise |
| `HandControl_proofs` | theorems about it | |
| `StorageLayout` | the tables of descriptors, the walk, the index map, the conversions: operators, no state | |
| `BulkCalls` | user thread, latch, sweeps of the tick thread, frames and their parsing over several units | extends `StorageLayout`; composes what `StorageUnit`, `Latch` and the parser do |
| `BulkCalls_proofs` | theorems about it, and about the masks, indices and conversions of `StorageLayout` | |
| `Logging` | the configuration, its setters, the singleton and the constructor of the logger | |
| `Lifecycle_proofs` | theorems about `EventLoop` and `Logging`, the two things set up once and then shared | extends both, which is why the specification of `Logging` is called `LoggerSpec` |
| `MC...` | what TLC runs | |

### StorageUnit

`op`, `value`, `version`, `timer`, `callback` are the fields of `struct StorageUnit`. `timer` is the
union: it holds either what the user passed (`ordinary`, `negative`, `overflow`) or what the tick
thread armed (`pending`, `passed`, `max`); reading the one as the other is what the code does, so that
`Passed` holds of an ordinary or negative duration (a small number is a time long ago) and not of one
near the maximum. The user thread stores timeout, callback and operation in three steps; the tick
thread's visit is a chain of up to six; the event thread loads the word, stores the value and the
version, and stores the word. `read_async_unchecked` and the checked calls look at the word first,
`write_async_unchecked` stores its value first.

History variables only appear in properties. `strayed` records that a visit went astray: the deadline
test of a unit that had just been retired found it due, or an abort met an event thread in the middle
of its work. Those two moments are the hazards at `handler.cpp:479` and `:482`; what happens without
them is what the invariants state, and what happens with them is in the findings. The visit of a
*masked* unit always strays, by itself: it is retired before its timer was armed.
`evidence` is the reply that made the last operation succeed; `held` is true if the register had the
slot's value at some time since the call.

The contract (`CallContract`) is a queue of calls that were published and not told yet, with room for two,
and tells them in that order, each once. `Open` is where the unit keeps it: the call that the tick thread
took out of the callback slot and is about to tell, and behind it the one in the slot of a busy unit. Publishing
is the store of the operation, telling is the invocation of the callback, and nothing is promised
after a stray visit.

`Window` bounds the messages that are unanswered when the tick thread visits the unit. With 1 a unit
is answered between two visits, 5 ms apart: the device is faster than the period. `OwnReply` and
`HonestWrite` hold then and are proved, and the run `UnitLateAnswer` shows that `HonestWrite` is lost
with 2.

### Latch, RingBuffer

`pc` holds how far each operation is, `notifying` how many threads are between a decrement to zero
and `notify_one`. The barrier sees the set of operations begun and not finished.
`RingBuffer` keeps counters modulo `CounterMod` and slots `0..Size-1`; a raw slot is `Raw`. The queue
of the abstraction loses an element when the consumer has destroyed it, and gets a batch when `in_`
is stored.

### TransmitBuffer

`length` and `type` are the transfer's fields; `gathered` is history. Numbers are scaled down: header,
check sum and block are small constants with the proportions of 512-byte buffers and 16-byte blocks.
The model begins with a filled ring: a constructor that throws `bad_alloc` on the way is a matter of
`EventLoop`, and the transfers it has allocated by then leak.

### EventLoop

`held` and `open` are what was acquired. `transfer` is the receive transfer as libusb sees it.
`ipc` goes through `init` and then through the rest of the constructor of `Handler::Impl`: the transmit
buffers (`buffers`), the event thread, the storage and the tick thread (`storage`). Each part may throw
(`ipc = "thrown"`), and what has been built is then destroyed, the base `Driver` last. Before the event
thread was started that leads straight to `~Driver`, with the receive transfer submitted; afterwards
to a join that nobody ends, because `~Impl`, which stops the event thread, does not run.
`raced` records a resubmission after the cancel: the race of the TODO at `driver.hpp:70`.
`receive_transfer_busy_`, a plain bool, is read and written by the event thread only.

### RealtimeLoop

A position is the number of the frame that brought it, a target the number of the call that gave
it. Joints are walked one at a time by all three threads. The destructor of the handler stops and
joins the thread as a detach does, and takes the same two steps.

### HandControl

A batch of writes loses any subset of its registers, each with or without the device having taken
the value: this is what a timeout means to the caller. `unsure` are the joints whose last write of
`Enabled` timed out: storage and device may differ there. `crossed` records that a second controller
was asked for while one was attached, or that one was detached from under its operator: the classes
of calls for which `OperatorsAttached` is not claimed. Such a call can end the process, in the destructor
of an operator that finds nothing to detach; `DeathExplained` says that without a timeout nothing else does.

### StorageLayout, BulkCalls

`StorageLayout` has the two tables of descriptors and the walk with its packed words, one byte a
level, so that the mask bit and `IsReversed` are computed from them as the code computes them. The
index map is the function that `init_storage_info` leaves behind: of two units with one index, the
last (`FindStorage`). Angles are integers, `Scale` to a raw unit, and a raw word ends at `RawMax`.

In `BulkCalls` a visit of a unit up to its callback and the parsing of one object are one step each; the
callback is two, the decrement of the latch (`CountDown`) and the `notify_one` after the last of
them (`Notify`). The modules above take them further apart. What is new is their
composition: a call publishes its units
one by one while the tick thread sweeps over those already published; a sweep puts the requests of
several units into one frame; the answer is taken apart object by object, and lost, refused or cut
(`ParseFault` drops the rest). A latch is a local of its call, and the call's number stands for its
address: a callback that counts down when its call is over writes to a dead latch (`dangling`). A visit that
goes on after a success is two steps, so that the user can begin the next call in between, and sets
`strayed` if the deadline test then succeeds. The timer of a unit that was never armed is `raw`.
Only the units that the calls name are represented. An SDO frame is not split here: how requests
gather in a buffer is `TransmitBuffer`.

### Logging

One step per access to something shared: the fast path's test, the lock, each setting the constructor
reads, the publication, the setter's change of the logger and its change of the configuration. A
constructor that throws inside leaves a logger without sinks (`GiveUp`), and a file may fail to open.

## 3. The runs

| run | bounds | shows |
|---|---|---|
| `UnitWrite` | 2 calls, 2 values, `Window` 1, ordinary and overflowing timeouts, checked and unchecked writes | `RetireLosesNothing`, `OwnReply`, `HonestWrite`, and that every published call is completed |
| `UnitRead` | 2 calls, `Window` 2, ordinary and negative timeouts, versions modulo 2 | `ContractSpec`: the unit implements `CallContract`; `ReadDelivers` |
| `Latch` | 3 operations, 5 starts | the barrier, `ReturnsWhenDone`, `NoLostWakeUp`, `WaitReturns` |
| `Ring` | size 4, counters modulo 8, 2 elements, batches of 1 to 4; deadlock is checked | the queue, `SlotsExclusive`, `NothingLeaks`, `NoMissedData` |
| `Pool` | 4 transfers, ring of 4, 2 types, chunks of 0, 1 and 3 bytes in buffers of 8 | the five properties of the pool |
| `Loop` | 4 devices, 3 of which match | the four properties of the driver |
| `Realtime` | 2 joints, 2 frames, 1 set per session, 2 sessions | the four properties of the realtime path |
| `Hand` | 2 joints, 2 controllers, 3 timeouts, 5 calls | the five properties of the sequences |
| `Bulk` | 2 calls out of: an unchecked write of one joint, a write of two joints of a finger, a read of both limits of its first joint; no mask or joint 9 masked; `Window` 2 | the latch stays balanced, and alive for every decrement, masked joints are silent, waits end; the layout of all 292 units and the conversions of all angles within two turns |
| `Logging` | 2 threads, 4 calls, 2 levels, 2 paths | `LoggerFollowsConfig`, `OneLogger` |
| `UnitLateAnswer` | 2 calls, `Window` 2 | finding 1 |
| `UnitTold` | 1 call of a masked unit | finding 2 |

The bounds are small and reach what matters. Two calls are one and its successor on the same unit,
which is where every race of the unit is; two versions reach the wrap and the skipped 0 in two reads; counters
modulo 8 wrap after two rounds of the ring; four transfers let the pool run dry, and two frames and
two joints give a torn vector. Three matching devices give none, one and more than one that can be
opened. Three timeouts let a sequence fail, its clean-up fail as well, and the next sequence start on
what they left. Two bulk calls share units, so that the second one meets busy units, late replies and
frames of the first. The layout is checked in full, not on an instance; the word of a position is
scaled down to 7 values and its end stops are among them. A thread that asks for the logger and one
that sets something twice are all that `Logging` needs for a setting to be missed.

`TypeOK` of every module that has one is a conjunct of the inductive invariant that is proved in the
module of its proofs, and no run repeats it. Each of these invariants was checked by TLC on its
component's run before it was proved. `CompletedOnce` (which the contract says of the calls), `NeverExpires`,
`MaskedSilent`, `NothingHandledLate`, `OnlyFrontFilled` and `ThreadHasController` are proved (section 5)
and in no run.

All runs but `Ring` switch the deadlock check off, because calls, starts and sessions are bounded or
the object is destroyed in the end.

### Fairness

Weak fairness of the threads: the operating system schedules them and none holds a lock. In
`StorageUnit` time passes, and the device answers reads again and again if it is asked again and
again, and writes too (strong fairness); it may refuse any single one. The user never has to begin a
call but finishes one. In `Latch`, each published operation has its callback, which is
`EveryCallCompletes` of the unit. In `TransmitBuffer` libusb completes each transfer, so that
`DestroyEnds` never needs the
destructor's giving up after a second. In `EventLoop`
it completes a cancelled one, and only `ShutdownEnds` assumes that frames go on arriving. In
`RealtimeLoop` the device need not answer. In `BulkCalls` each thread keeps running, a frame is
answered or given up, and a pending deadline passes: strong fairness, because a deadline passes
between two sweeps only (`now` is read once for a whole sweep, `handler.cpp:447`).

`EveryCallCompletes` has two conditions: no stray visit (see the findings), and that the user does
not store unchecked values into the unit for ever, since each may spoil a confirmation and, with a
timeout that never expires, does so without an end. `BulkReturns` and `WaitMeansDone` also except stray
visits, and `LatchOutlivesCalls` a call that threw half-way: those are the cases in which a callback
counts down on a latch that is gone. That `notify_one` comes too late needs neither (see below).

## 4. Findings

1. **A late answer completes a newer write** (`handler.cpp:410`, run `UnitLateAnswer`). The README of
   the repository promises that `write` "guarantees success upon return" (`README.md:184`). The answer
   to an earlier write makes a newer one succeed that was armed and not yet sent.
2. **A call can be told twice** (`handler.cpp:479`, run `UnitTold`), against the same promise. There is
   no `continue` after a success was retired and reported, and the visit goes on to the deadline test.
   A masked unit is retired before its timer was armed; its 500 ms, read as a point in time, passed
   long ago. So every checked write of a masked joint calls its callback with `true` and then with
   `false`: the latch is counted down twice for one `count_up`, and `wait` throws for a call that
   succeeded, returns early, or never returns. On other units the same path needs the tick thread to
   be delayed between the callback, or the retiring store, and the test, while the user thread runs on or the
   deadline passes. Then a success is told again as a failure; a negative timeout of the next call
   expires at once, against the comment at `handler.cpp:470`; or the blind store of NONE overwrites
   the operation just published, whose callback never comes.

Met while modelling, without a line of the repository to hold against them: the destructor attaches
the kernel driver to interface 0 and `init` detached it from `target_interface_` (`driver.hpp:40, :89`);
`RPdoId` has the index of `TPdoId` (`hand.hpp:27-28`); a bulk call that throws half-way leaves callbacks
that hold a dead latch (`data_operator.hpp:79`); the last `count_down` of a call may still have its
`notify_one` to do when the wait has seen 0 and returned, and the latch, a local of the call, is gone
(`latch.cpp:24-26`, `data_operator.hpp:138-140`); a constructor of `Impl` that throws after `init` frees
the receive transfer while libusb holds it if there is no event thread yet (`async_transmit_buffer.hpp:30`,
`handler.cpp:39-41`, `driver.hpp:37`), and otherwise waits for the event thread for ever
(`handler.cpp:44-46`); an operator whose attach was refused detaches the controller of another
(`hand.hpp:148`), and one whose detach times out throws out of its destructor; a target of a
negative full turn on a reversed joint
overflows and comes out at the other end (`handler.cpp:214, :654`).

## 5. Proofs

Checked by `tlapm` for every value of the constants that satisfies the module's assumption. Each
component has its inductive invariant `IndInv`, defined at the head of the module of its proofs and proved
as `Invariance`; the rest follows from it. The logger's is `LogInv`, proved as `LogInvariance`.

The assumptions are those of the code: finite sets of devices, joints, transfers and operations; a ring size
of at least 2 that divides the modulus of the counters, as powers of two do; a ring that holds all
transfers, and chunks that fit an empty one with the check sum; bulk calls that name at least one unit of
the hand and none twice. Conditions of their own are stated by `PatientSafe`
on the timeouts, and by the theorems about a prompt device on `Window` (`WriteSafe` also on `Drifts`).

| module | theorem | statement |
|---|---|---|
| `StorageUnit_proofs` | `TypeCorrect` | `TypeOK` |
| | `OnceOnly`, `RetireSafe`, `ReadSafe`, `MaskedSafe` | `CompletedOnce`, `RetireLosesNothing`, `ReadDelivers`, `MaskedSilent` |
| | `Implements` | `StorageUnit` implements `CallContract` |
| | `PatientSafe` | if every timeout overflows: nothing expires, no visit strays, and so the above hold without condition |
| | `PromptInvariance`, `OwnReplySafe`, `WriteSafe` | if `Window = 1`: `PromptInv`, `OwnReply`, and for a register that does not change by itself `HonestWrite` |
| `Latch_proofs` | `WaitSafe`, `WakeUpSafe` | `ReturnsWhenDone`, `NoLostWakeUp` |
| | `Implements` | `Latch` implements `CompletionBarrier` |
| `RingBuffer_proofs` | `SlotsSafe`, `NoLeak`, `WaitSafe` | `SlotsExclusive`, `NothingLeaks`, `NoMissedData` |
| | `Implements` | `RingBuffer` implements `BoundedFifo` |
| `TransmitBuffer_proofs` | `TransferSafe`, `RoomSafe`, `FrameSafe`, `FrontOnly` | `EveryTransferOnce`, `RecycleHasRoom`, `FramesWellFormed`, `OnlyFrontFilled` |
| `Lifecycle_proofs` | `InitSafe`, `FreeSafe`, `LateSafe`, `RaceOnly` | `InitAllOrNothing`, `FreedAtRest`, `NothingHandledLate`, `StuckOnlyByRace` |
| | `LoggerSafe`, `OneLoggerSafe` | `LoggerFollowsConfig`, `OneLogger` |
| `RealtimeLoop_proofs` | `BlindSafe`, `TargetSafe`, `OwnerSafe` | `NeverStepsBlind`, `StepSeesFinishedSets`, `ThreadHasController` |
| | `PositionSafe` | `PositionsAdvance`, an action property |
| `BulkCalls_proofs` | `OutlivesSafe`, `WaitSafe`, `SilentSafe` | `LatchOutlivesCalls`, `WaitMeansDone`, `SilentJoints` |
| | `PathsSafe` | `ConversionsSound`, for every width of a raw position and every scale |
| | `LayoutSafe` | `LayoutSound`, about the 292 units |
| `HandControl_proofs` | `EnabledSafe`, `ModeSafe`, `OperatorSafe`, `DeathSafe` | `EnabledPutBack`, `DeviceFollowsHost`, `OperatorsAttached`, `DeathExplained` |
| | `RestSafe` | `ModeChangesAtRest`, an action property |

**Storage unit.** `CompletedOnce` is not inductive: one must know who still owes the report. The
invariant says who owns the unit. While it is free (`mode = "NONE"`) the user thread may write its
plain fields (`UserOwnsFreeUnit`); while it is busy the tick thread's copy has its mode
(`TickOnCurrent`) and the event thread holds only operations that are in flight (`EventOnCurrent`),
so that a SUCCESS the tick thread saw is not touched by anybody until it is retired. `Accounts` says
that a callback is in the slot or in the hands of the tick thread, but not both for the same call.
`ReadStored` carries the value from the event thread's store to the retirement. All this is claimed
only as long as `strayed` is false; what holds even then (the domains, the fit of mode and state, the
silence of a masked unit) stands outside the condition, because later steps still rest on it.
`Patient` adds that the timer never holds a word that passes. `PromptInv` adds what a fast device
gives: the link is empty during a visit and holds one message at most between two; that message belongs
to the call under way; and the answer to a write finds the unit already confirming, so that it is only
ever a comparison with the register that makes a write succeed. `Window = 1` cannot be dropped: that is
finding 1.

The refinement of `CallContract` rests on `Accounts`, which makes the queue at most two calls long, and on
the two ownership parts: a call is published only into a free unit, so that nothing is in the slot before it;
between two stores the queue does not change, although its first element moves from the slot to the tick
thread (`TakeKeepsOpen`); and only the callback itself takes the head off (`ReportTells`). A step after
which `strayed` holds is `Astray`, and this is the only place where the contract ends.

**Latch.** The count equals the cardinality of the pending set, an operation is only counted and not
yet published while the user thread is at that call, and a sleeper has a count above zero or a
notifier on its way. The refinement maps each step to the barrier's step or to a stutter: `CountUp`
begins, `CountError` fails, `CountDown` finishes, `Exchange` returns.

**Event loop.** The positions of the event thread and of the destructor tell what libusb holds and
how the flags stand; with `~receive_transfer_busy_` the transfer is idle and the event thread in or
after its loop, so that the join returns only at rest. A constructor that threw is told apart: it has no
event thread, or joins one whose flags nobody has changed.

**Logger.** `LoggerFollowsConfig` speaks of the moments when nobody holds the mutex; its invariant must
also say what holds inside. `MutexesHeld` ties both mutexes to the steps that hold them, so that there is
one thread inside at most. `BuiltOnce` says that the constructor has run, is running, or was not
begun. `Followed` has the point: until somebody builds it the logger is empty, so a setter that finds
none misses nothing, and from then on it agrees with the configuration, or with the one that the setter
between its two changes is about to store. The path has no such setter, since it can only change while
the logger is empty, and the constructor's copy of it stays right because the setter needs the mutex.

**Ring.** `in_` and `out_` are only known modulo `CounterMod`, and slots modulo `Size`, which divides
it. The proof works with the number of elements in use and takes remainders apart in a few lemmas. The
invariant `BatchesFit` says that a side which found room, or elements, keeps them until it publishes: the
other side can only add to them. With `NothingLeaks`, which tells the slots in use from the raw ones, this
gives `SlotsExclusive`. In the refinement, a slot destroyed takes the head of the queue, the store of `in_`
appends the batch, and everything else is a stutter.

**Pool.** The transfers are counted: in the ring, with the owner, in flight and released they make up all
of them, and the ring has room for all, so that while one flies there is a place for it, also between the
pop and its publication. `OwnerHolds` says what the owner thread has at hand at each step, and
`FilledWell` that a transfer that was begun leaves room for its check sum.

**Realtime path.** Positions are numbered by frame, and `PositionsInOrder` says that along the way from
the device, over the result vector, to the positions of the thread and those a step saw, none is newer
than one that is further upstream, joint by joint: hence `PositionsAdvance`, torn vectors included.
`ReportedFirst` ties the version to completeness: a version other than the first means that every joint
was reported. `TargetsFresh` and `InboxesFilled` do the same for the targets in the other direction.

**Bulk calls.** `LatchBalanced`: as long as no visit strayed, the count is the number of units that owe
the call in progress a report, and the errors the number of those that failed; both are units it has
started. Here the units of one call must be distinct, which the walk guarantees and the assumption
`BulkAssumption` states. `LatchOutlivesCalls` is inductive together with it: no call but the one in
progress has a callback in a unit, or one that has yet to count down. The requests in `batch`
and in `frames` are of unmasked units by type, and `SilentSafe` then goes from the unit's number back to its
joint through the packed words of the walk. `PathsSafe` needs no invariant. It holds by arithmetic:
rounding is within half a raw unit, within a turn nothing is clamped and `RawMin` is not reached, so that
the negation does not overflow. `LayoutSafe` needs none either: ids and indices are sums of an offset of the
joint and a number within it (`IdsOfUnits`, `SharedIndex`), so that both can be told from the sum; within a
joint, and within the hand, the tables have no index twice but that of `RPdoId` and `TPdoId`, whichever way
the joint turns; and an index survives the two changes of its byte order (`IndexRoundTrip`).

**Hand.** `Plans` lists what may be left of a call and `Goal` is the step that ends it, so that a step in
the middle of a sequence knows which sequence it is in. `EnabledKnown` says where device and storage agree
in spite of timeouts, `EnabledSaved` where the joints stand between two rounds of writes, `Configured` what
the device has been told, and `OperatorsKnown` which operators exist while a call runs. A timeout may
throw out of any step; `Throw` leads into a detach, into the next call or to the end, and each part says
what it promises there.

### What is checked by TLC only

* Liveness: `EveryCallCompletes`, `WaitReturns`, `FetchEnds`, `DestroyEnds`, `ShutdownEnds`,
  `DetachReturns`, `BulkReturns`. Fairness and `ENABLED` are out of the prover's reach here.
* The findings, which are about what the code does not do.

## 6. What is not modelled

* Weak memory orders. The code publishes with release and acquires where the models have a step, but
  some pairs are relaxed (`handler.cpp:397`), and the timer and the callback are not atomic.
* Data races without a bounded outcome: the event thread looking up in a `std::map` that is being
  filled or destroyed (`handler.cpp:41`, `:48`).
* The sizes of registers and objects, the comparison of firmware versions member by member (two
  classes in `HandControl`) and their formatting, the rounding of doubles, the arithmetic of the filter.
* A latch that the user owns and passes to several `_async` calls: `BulkCalls` has those of `read` and
  `write`, `Latch` any number of starts.
* Masked joints in `HandControl`: what a masked unit does to a latch is finding 2 and `BulkCalls`.
* The log messages, their queue and its flush (spdlog), environment variables, and the destruction of
  static objects at exit.
* The kernel driver, and diagnostics.

## 7. Plan

In the order of importance; all but the last are done.

1. The unit, its latch, and their proofs.
2. The ring against a queue; the pool on top of it.
3. The event loop and its shutdown, with proofs.
4. The realtime path and the sequences of the hand.
5. `StorageLayout` and `BulkCalls`: several units on one latch, frames with several replies, the index
   map and the conversions.
6. `Logging`: the shared logger and its settings.
7. Proofs of the ring with its refinement, of the pool, of the realtime path, of the bulk calls and of the
   sequences of the hand.
8. Proofs of `OwnReply` and `HonestWrite` for `Window = 1`, and of the conversions for every width.
9. `CallContract`, an abstract specification of a call (published, then told once), and the proof that
   `StorageUnit` implements it as long as no visit strays.
10. Proofs of the logger and of the layout.
11. A second look at the invariants: what `strayed` and `crossed` exclude, stated as tightly as it can be.
