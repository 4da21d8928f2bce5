------------------------------- MODULE EventLoop -------------------------------
(***************************************************************************)
(* driver::Driver (src/src/driver/driver.hpp): acquiring the USB device    *)
(* step by step, the event thread that lives on one receive transfer, and  *)
(* the shutdown; and what Handler::Impl builds around it                   *)
(* (src/protocol/handler.cpp), every part of which may throw.              *)
(* libusb is external: it completes the receive transfer when a frame      *)
(* arrives or when the transfer is cancelled.                              *)
(***************************************************************************)
EXTENDS Naturals, FiniteSets, Sequences

CONSTANTS
    Devices,    \* the devices on the bus
    Matching    \* those that fit the vendor id, the product id and the serial number

ASSUME EventLoopAssumption ==
    /\ IsFiniteSet(Devices) /\ Matching \subseteq Devices

VARIABLES
    ipc,        \* the constructor: what init acquires or Impl builds next, or how it ended:
                \* "ready", "failed" (init did) or "thrown" (Impl did, after init)
    looked,     \* select_device: devices examined
    open,       \* device handles opened and not closed
    held,       \* "context", "interface", "transfer" as far as acquired and not released
    transfer,   \* the receive transfer, as libusb sees it
    handling_events_, receive_transfer_busy_,
    epc,        \* the event thread
    dpc,        \* the destructor, or the unwinding of the constructor
    late,       \* history: the callback in progress, or the last one, began after the stop
    raced       \* history: the transfer was submitted again when the cancel was over

vars == <<ipc, looked, open, held, transfer, handling_events_, receive_transfer_busy_,
          epc, dpc, late, raced>>
acquired == <<looked, open, held>>
flags == <<handling_events_, receive_transfer_busy_>>

Init ==
    /\ ipc = "context" /\ looked = {} /\ open = {} /\ held = {}
    /\ transfer = "none"
    /\ handling_events_ = TRUE /\ receive_transfer_busy_ = TRUE
    /\ epc = "none" /\ dpc = "none" /\ late = FALSE /\ raced = FALSE

--------------------------------------------------------------------------------
\* init: every step may fail, and the FinalActions undo the earlier ones.

InitOver == UNCHANGED <<flags, epc, dpc, late, raced>>

\* What the FinalActions do: release_interface, close_device_handle, exit_libusb.  The
\* receive transfer has none.
UnwindWithoutClose ==
    /\ ipc' = "failed"
    /\ held' = held \ {"context", "interface"}
    /\ UNCHANGED <<looked, open, transfer>> /\ InitOver

Unwind ==
    /\ ipc' = "failed"
    /\ open' = {}
    /\ held' = held \ {"context", "interface"}
    /\ UNCHANGED <<looked, transfer>> /\ InitOver

InitContext ==
    /\ ipc = "context"
    /\ ipc' = "select"
    /\ held' = {"context"}
    /\ UNCHANGED <<looked, open, transfer>> /\ InitOver

\* One turn of the loop of select_device: the handle of a device that does not match,
\* or that does not give its serial number, is closed at once.
Examine(d) ==
    /\ ipc = "select" /\ d \notin looked
    /\ looked' = looked \cup {d}
    /\ \/ d \in Matching /\ open' = open \cup {d}
       \/ UNCHANGED open
    /\ UNCHANGED <<ipc, held, transfer>> /\ InitOver

\* Exactly one device must be left.
Select ==
    /\ ipc = "select" /\ looked = Devices /\ Cardinality(open) = 1
    /\ ipc' = "claim"
    /\ UNCHANGED <<acquired, transfer>> /\ InitOver

SelectFails == ipc = "select" /\ looked = Devices /\ Cardinality(open) # 1 /\ Unwind

ClaimInterface ==
    /\ ipc = "claim"
    /\ ipc' = "submit"
    /\ held' = held \cup {"interface"}
    /\ UNCHANGED <<looked, open, transfer>> /\ InitOver

SubmitReceive ==
    /\ ipc = "submit"
    /\ ipc' = "buffers"
    /\ held' = held \cup {"transfer"}
    /\ transfer' = "submitted"
    /\ UNCHANGED <<looked, open>> /\ InitOver

\* libusb_alloc_transfer fails, or libusb_submit_transfer does and the transfer stays.
SubmitFails ==
    /\ ipc = "submit"
    /\ ipc' = "failed"
    /\ open' = {}
    /\ held' \in {{}, {"transfer"}}
    /\ UNCHANGED <<looked, transfer>> /\ InitOver

InitStepFails == ipc \in {"context", "claim"} /\ Unwind

Acquire ==
    \/ InitContext \/ (\E d \in Devices : Examine(d)) \/ Select \/ SelectFails
    \/ ClaimInterface \/ SubmitReceive \/ SubmitFails \/ InitStepFails

--------------------------------------------------------------------------------
\* The rest of the constructor of Impl.  libusb holds the receive transfer already, and a
\* frame may complete it before there is a thread to handle it.

\* The two transmit buffers are allocated, then event_thread_ is created.
StartEventThread ==
    /\ ipc = "buffers"
    /\ ipc' = "storage"
    /\ epc' = "wait"
    /\ UNCHANGED <<acquired, transfer, flags, dpc, late, raced>>

\* storage_ and tick_thread_.
FinishConstructor ==
    /\ ipc = "storage" /\ epc # "terminated"
    /\ ipc' = "ready"
    /\ UNCHANGED <<acquired, transfer, flags, epc, dpc, late, raced>>

\* A transfer or its buffer cannot be allocated, or the event thread cannot be created.
\* The destructor of Impl is not called, that of its base Driver is.
BuffersThrow ==
    /\ ipc = "buffers"
    /\ ipc' = "thrown"
    /\ dpc' = "release"
    /\ UNCHANGED <<acquired, transfer, flags, epc, late, raced>>

\* storage_ cannot be allocated or the tick thread cannot be created: event_thread_ is
\* joined, and nobody has told it to stop.
StorageThrows ==
    /\ ipc = "storage" /\ epc # "terminated"
    /\ ipc' = "thrown"
    /\ dpc' = "join"
    /\ UNCHANGED <<acquired, transfer, flags, epc, late, raced>>

Construct == StartEventThread \/ FinishConstructor \/ BuffersThrow \/ StorageThrows

--------------------------------------------------------------------------------
\* libusb (external): a frame or the cancellation completes the transfer.

FrameArrives ==
    /\ transfer = "submitted"
    /\ transfer' = "completed"
    /\ UNCHANGED <<ipc, acquired, flags, epc, dpc, late, raced>>

CancelCompletes ==
    /\ transfer = "cancelling"
    /\ transfer' = "completed"
    /\ UNCHANGED <<ipc, acquired, flags, epc, dpc, late, raced>>

--------------------------------------------------------------------------------
\* The event thread: handle_events and usb_receive_complete_callback.

LeaveLoopOnStop ==
    /\ epc = "wait" /\ ~handling_events_
    /\ epc' = "ended"
    /\ UNCHANGED <<ipc, acquired, transfer, flags, dpc, late, raced>>

LeaveLoop ==
    /\ epc = "wait" /\ ~receive_transfer_busy_
    /\ epc' = "ended"
    /\ UNCHANGED <<ipc, acquired, transfer, flags, dpc, late, raced>>

CallbackStayingBusy ==
    /\ epc = "wait" /\ receive_transfer_busy_ /\ transfer = "completed"
    /\ transfer' = "idle"
    /\ epc' = IF handling_events_ THEN "process" ELSE "wait"
    /\ late' = ~handling_events_
    /\ UNCHANGED <<ipc, acquired, flags, dpc, raced>>

\* The callback looks at handling_events_ and at nothing else: a cancelled transfer is
\* a frame like any other while the flag is up.
Callback ==
    /\ epc = "wait" /\ receive_transfer_busy_ /\ transfer = "completed"
    /\ transfer' = "idle"
    /\ IF handling_events_
       THEN epc' = "process" /\ UNCHANGED receive_transfer_busy_
       ELSE receive_transfer_busy_' = FALSE /\ UNCHANGED epc
    /\ late' = ~handling_events_
    /\ UNCHANGED <<ipc, acquired, handling_events_, dpc, raced>>

\* receive_transfer_completed_callback has run; the transfer is submitted again.
Resubmit ==
    /\ epc = "process"
    /\ transfer' = "submitted"
    /\ epc' = "wait"
    /\ raced' = (raced \/ (ipc = "ready" /\ dpc = "join"))
    /\ UNCHANGED <<ipc, acquired, flags, dpc, late>>

\* std::terminate
ResubmitFails ==
    /\ epc = "process"
    /\ epc' = "terminated"
    /\ UNCHANGED <<ipc, acquired, transfer, flags, dpc, late, raced>>

--------------------------------------------------------------------------------
\* The destructors of Handler::Impl and Driver.

StopHandlingEvents ==
    /\ ipc = "ready" /\ dpc = "none" /\ epc # "terminated"
    /\ handling_events_' = FALSE
    /\ dpc' = "cancel"
    /\ UNCHANGED <<ipc, acquired, transfer, receive_transfer_busy_, epc, late, raced>>

StopWithoutCancel ==
    /\ dpc = "cancel" /\ epc # "terminated"
    /\ dpc' = "join"
    /\ UNCHANGED <<ipc, acquired, transfer, flags, epc, late, raced>>

\* libusb_cancel_transfer finds nothing to cancel unless the transfer is submitted.
Cancel ==
    /\ dpc = "cancel" /\ epc # "terminated"
    /\ transfer' = IF transfer = "submitted" THEN "cancelling" ELSE transfer
    /\ dpc' = "join"
    /\ UNCHANGED <<ipc, acquired, flags, epc, late, raced>>

JoinEventThread ==
    /\ dpc = "join" /\ epc = "ended"
    /\ dpc' = "release"
    /\ UNCHANGED <<ipc, acquired, transfer, flags, epc, late, raced>>

\* ~Driver: libusb_free_transfer, libusb_release_interface, libusb_close, libusb_exit.
ReleaseAll ==
    /\ dpc = "release"
    /\ transfer' = "freed"
    /\ open' = {} /\ held' = {}
    /\ dpc' = "destroyed"
    /\ UNCHANGED <<ipc, looked, flags, epc, late, raced>>

EventThread == LeaveLoop \/ Callback \/ Resubmit
Destructor == Cancel \/ JoinEventThread \/ ReleaseAll

Next ==
    \/ Acquire \/ Construct
    \/ FrameArrives \/ CancelCompletes
    \/ EventThread \/ ResubmitFails
    \/ StopHandlingEvents \/ Destructor

Spec == Init /\ [][Next]_vars

\* The threads run and libusb completes what is cancelled.  The device may fall silent.
Fairness ==
    /\ WF_vars(EventThread) /\ WF_vars(Destructor) /\ WF_vars(CancelCompletes)

LiveSpec == Spec /\ Fairness

--------------------------------------------------------------------------------
\* Properties.

\* Each variable stays in its domain.
TypeOK ==
    /\ ipc \in {"context", "select", "claim", "submit", "buffers", "storage",
                "ready", "failed", "thrown"}
    /\ looked \subseteq Devices /\ open \subseteq looked
    /\ held \subseteq {"context", "interface", "transfer"}
    /\ transfer \in {"none", "submitted", "cancelling", "completed", "idle", "freed"}
    /\ handling_events_ \in BOOLEAN /\ receive_transfer_busy_ \in BOOLEAN
    /\ epc \in {"none", "wait", "process", "ended", "terminated"}
    /\ dpc \in {"none", "cancel", "join", "release", "destroyed"}
    /\ late \in BOOLEAN /\ raced \in BOOLEAN

\* An init that failed has closed every device handle it opened and released the context
\* and the interface; one that succeeded has exactly one device, until ~Driver closes it.
InitAllOrNothing ==
    /\ ipc = "failed" => open = {} /\ held \subseteq {"transfer"}
    /\ ipc \in {"buffers", "storage", "ready", "thrown"} /\ dpc # "destroyed" =>
           Cardinality(open) = 1 /\ open \subseteq Matching

\* A driver that was constructed lets go of the receive transfer only when libusb does not
\* hold it and no event thread is left that could submit it again.  The condition cannot be
\* dropped: a constructor that throws between init and the event thread frees a transfer
\* that libusb holds, and one that throws later never comes to free it.
FreedAtRest ==
    dpc \in {"release", "destroyed"} =>
        IF ipc = "thrown" THEN epc = "none"
        ELSE transfer \in {"idle", "freed"} /\ epc = "ended"

\* A frame whose callback begins after the stop never reaches the handler, whose storage
\* may be gone by then.
NothingHandledLate == epc = "process" => ~late

\* The event thread is joined for ever only on a transfer that was submitted again behind
\* the back of the cancel, the race that stop_handling_events notes, or when a constructor
\* that threw joins it without a stop.
StuckOnlyByRace ==
    dpc = "join" /\ transfer = "submitted" => raced \/ ipc = "thrown"

\* With a device that goes on sending, the shutdown of a driver that was constructed always
\* comes to an end.
ShutdownEnds ==
    WF_vars(FrameArrives) => (dpc = "cancel" ~> dpc = "destroyed" \/ epc = "terminated")

================================================================================
