--------------------------- MODULE CameraLifecycle ---------------------------
(***************************************************************************)
(* vision_runtime/camera: the owner of a Camera (FaceTrackingRuntime), the *)
(* control thread that opens the device, waits for the stop request and    *)
(* closes it, and the FrameArrived callbacks that publish frames.          *)
(*                                                                         *)
(* A condition variable is modelled by its waiters: a notification moves a *)
(* thread that is already blocked and is lost otherwise.  stop and         *)
(* record_failure store stop_requested and notify without control_mutex,   *)
(* so the store, the notification, and the control thread's test of its    *)
(* predicate and its blocking are steps of their own.  Waits on state_cv   *)
(* have a timeout and are single steps.                                    *)
(*                                                                         *)
(* Assumed of Media Foundation: StopAsync comes back, with or without an   *)
(* exception, after the callbacks that had begun are over (the callbacks   *)
(* hold a raw `this').                                                     *)
(*                                                                         *)
(* The driver has one low-light setting.  The camera writes it in two      *)
(* ways: as the legacy property #19, of which it keeps the value it found, *)
(* and through ExposurePriorityVideoControl, of which it keeps nothing.    *)
(***************************************************************************)
EXTENDS Integers, FiniteSets

CONSTANTS
    Callbacks,        \* callbacks that may run at the same time
    MaxFailures,      \* kMaxConsecutiveFailures, 30 in the code
    MaxFrames,        \* bound: frames of one session
    MaxStarts,        \* bound: sessions
    Values,           \* the values of the driver's low-light setting
    ForceConstant,    \* CameraConfig::force_constant_framerate
    RestoreOnStop     \* CameraConfig::restore_legacy_control_on_stop

ASSUME CameraAssumption ==
    /\ IsFiniteSet(Callbacks)
    /\ MaxFailures \in Nat \ {0}
    /\ MaxFrames \in Nat /\ MaxStarts \in Nat
    /\ Values \subseteq Int /\ 0 \in Values
    /\ ForceConstant \in BOOLEAN /\ RestoreOnStop \in BOOLEAN

VARIABLES
    client,      \* the owner thread
    lastId,      \* FaceTrackingRuntime::last_camera_frame_id
    fetched,     \* history: how many frames the owner got in this session
    handed,      \* history: the ids of those frames
    starts,      \* sessions so far
    control,     \* the control thread
    stopReq,     \* stop_requested
    running,     \* running_flag
    startEnd,    \* start_finished and start_error: "no", "ok", "error"
    error,       \* error is set
    latest,      \* frame id of latest, 0 if it is empty
    frameId,     \* current_frame_id
    failures,    \* consecutive_failures
    cb,          \* the state of each callback
    cbId,        \* the frame id each callback drew
    overlapped,  \* history: a frame was numbered before another was published
    named,       \* selected_friendly_name is not empty
    legacy,      \* external: the driver's low-light setting
    userValue,   \* external: the value the user had given it
    saved,       \* legacy_original_value
    restore,     \* legacy_restore_pending
    unnoticed    \* history: a write changed the setting and the code kept
                 \* no note of it

clientVars  == <<client, lastId, fetched, handed, starts>>
controlVars == <<control, running, startEnd>>
frameVars   == <<error, latest, frameId, failures, cb, cbId, overlapped>>
legacyVars  == <<named, legacy, userValue, saved, restore, unnoticed>>
vars == <<clientVars, controlVars, stopReq, frameVars, legacyVars>>

TypeOK ==
    /\ client \in {"idle", "starting", "aborting", "running", "faulted",
                   "notifying", "joining"}
    /\ lastId \in 0..MaxFrames /\ fetched \in 0..MaxFrames
    /\ handed \subseteq 1..MaxFrames /\ starts \in 0..MaxStarts
    /\ control \in {"none", "selecting", "applying", "opening", "announcing",
                    "testing", "blocking", "waiting", "failed", "ending",
                    "closing", "clearing", "done"}
    /\ stopReq \in BOOLEAN /\ running \in BOOLEAN
    /\ startEnd \in {"no", "ok", "error"}
    /\ error \in BOOLEAN
    /\ latest \in 0..MaxFrames /\ frameId \in 0..MaxFrames
    /\ failures \in 0..MaxFailures
    /\ cb \in [Callbacks -> {"idle", "entered", "numbered", "published",
                           "alarming"}]
    /\ cbId \in [Callbacks -> 0..MaxFrames] /\ overlapped \in BOOLEAN
    /\ named \in BOOLEAN /\ restore \in BOOLEAN /\ unnoticed \in BOOLEAN
    /\ legacy \in Values /\ userValue \in Values /\ saved \in Values

Init ==
    /\ client = "idle" /\ lastId = 0 /\ fetched = 0 /\ handed = {}
    /\ starts = 0
    /\ control = "none" /\ running = FALSE /\ startEnd = "no"
    /\ stopReq = FALSE /\ error = FALSE
    /\ latest = 0 /\ frameId = 0 /\ failures = 0
    /\ cb = [c \in Callbacks |-> "idle"] /\ cbId = [c \in Callbacks |-> 0]
    /\ overlapped = FALSE
    /\ named = FALSE /\ restore = FALSE /\ saved = 0 /\ unnoticed = FALSE
    /\ legacy \in Values /\ userValue = legacy

-----------------------------------------------------------------------------
(***************************************************************************)
(* The owner thread.                                                       *)
(***************************************************************************)

\* start: everything of the previous session is reset and the control thread
\* is created.
Start ==
    /\ client = "idle" /\ control = "none" /\ starts < MaxStarts
    /\ client' = "starting" /\ starts' = starts + 1
    /\ lastId' = 0 /\ fetched' = 0 /\ handed' = {}
    /\ control' = "selecting" /\ running' = FALSE /\ startEnd' = "no"
    /\ stopReq' = FALSE
    /\ error' = FALSE /\ latest' = 0 /\ frameId' = 0 /\ failures' = 0
    /\ overlapped' = FALSE
    /\ UNCHANGED <<cb, cbId, legacyVars>>

\* The wait for start_finished is over.  A failed start requests the stop and
\* joins; no notification is needed, the control thread is not waiting.
StartReturns ==
    /\ client = "starting" /\ startEnd # "no"
    /\ IF startEnd = "ok"
         THEN client' = "running" /\ UNCHANGED stopReq
         ELSE client' = "aborting" /\ stopReq' = TRUE
    /\ UNCHANGED <<lastId, fetched, handed, starts, controlVars, frameVars,
                   legacyVars>>

\* Mutant: a frame that was already handed out is handed out again.
Fetch_SameFrame ==
    /\ client = "running"
    /\ IF error
         THEN client' = "faulted" /\ UNCHANGED <<lastId, fetched, handed>>
         ELSE /\ running /\ latest # 0 /\ fetched < MaxFrames
              /\ lastId' = latest /\ fetched' = fetched + 1
              /\ handed' = handed \cup {latest}
              /\ UNCHANGED client
    /\ UNCHANGED <<starts, controlVars, stopReq, frameVars, legacyVars>>

\* wait_for_frame: an error is rethrown, otherwise a frame with another id
\* than the last one is handed out.  A timeout changes nothing.
Fetch ==
    /\ client = "running"
    /\ IF error
         THEN client' = "faulted" /\ UNCHANGED <<lastId, fetched, handed>>
         ELSE /\ running /\ latest # 0 /\ latest # lastId
              /\ lastId' = latest /\ fetched' = fetched + 1
              /\ handed' = handed \cup {latest}
              /\ UNCHANGED client
    /\ UNCHANGED <<starts, controlVars, stopReq, frameVars, legacyVars>>

\* stop, first statement.
StopStore ==
    /\ client \in {"running", "faulted"}
    /\ client' = "notifying"
    /\ stopReq' = TRUE
    /\ UNCHANGED <<lastId, fetched, handed, starts, controlVars, frameVars,
                   legacyVars>>

\* notify_all on control_cv: a blocked control thread tests its predicate
\* again; any other control thread does not notice.
WakeControl == control' = IF control = "waiting" THEN "testing" ELSE control

\* Mutant: only consumers of frames are notified.
StopNotify_StateOnly ==
    /\ client = "notifying"
    /\ client' = "joining"
    /\ UNCHANGED <<lastId, fetched, handed, starts, controlVars, stopReq,
                   frameVars, legacyVars>>

\* stop, the notifications.
StopNotify ==
    /\ client = "notifying"
    /\ client' = "joining"
    /\ WakeControl
    /\ UNCHANGED <<lastId, fetched, handed, starts, running, startEnd, stopReq,
                   frameVars, legacyVars>>

\* The control thread is joined, by stop or by a start that failed.
Join ==
    /\ client \in {"joining", "aborting"} /\ control = "done"
    /\ client' = "idle" /\ control' = "none" /\ lastId' = 0
    /\ UNCHANGED <<fetched, handed, starts, running, startEnd, stopReq,
                   frameVars, legacyVars>>

-----------------------------------------------------------------------------
(***************************************************************************)
(* The control thread: control_loop.                                       *)
(***************************************************************************)

\* initialize_capture up to the choice of the source group.
Select ==
    /\ control = "selecting"
    /\ \/ control' = "failed" /\ UNCHANGED named
       \/ control' = "applying" /\ named' = TRUE
    /\ UNCHANGED <<clientVars, running, startEnd, stopReq, frameVars,
                   legacy, userValue, saved, restore, unnoticed>>

\* set_legacy_low_light_priority: TRUE if the driver took the value and says
\* so when it is asked.  FALSE leaves open what the driver has: its old value
\* if there is no device or the write is refused, the new one if only the
\* question fails, and any other if the driver does not keep what it is given.
WriteLegacy(value, taken) ==
    /\ IF taken THEN legacy' = value ELSE legacy' \in Values
    /\ unnoticed' = (unnoticed \/ (~taken /\ legacy' # legacy))

\* Mutant: a value that is already zero is saved like any other.
ApplyLegacy_AlwaysSaves ==
    /\ control = "applying"
    /\ control' = "opening"
    /\ \/ UNCHANGED <<legacy, saved, restore, unnoticed>>
       \/ /\ ForceConstant
          /\ \/ WriteLegacy(0, FALSE) /\ UNCHANGED <<saved, restore>>
             \/ /\ WriteLegacy(0, TRUE)
                /\ saved' = legacy /\ restore' = RestoreOnStop
    /\ UNCHANGED <<clientVars, running, startEnd, stopReq, frameVars,
                   named, userValue>>

\* apply_legacy_constant_frame_rate: zero is written if the property is
\* supported and not zero already; the value found is kept for the restore
\* only if the write was taken.
ApplyLegacy ==
    /\ control = "applying"
    /\ control' = "opening"
    /\ \/ UNCHANGED <<legacy, saved, restore, unnoticed>>
       \/ /\ ForceConstant /\ legacy # 0
          /\ \/ WriteLegacy(0, FALSE) /\ UNCHANGED <<saved, restore>>
             \/ /\ WriteLegacy(0, TRUE)
                /\ saved' = legacy /\ restore' = RestoreOnStop
    /\ UNCHANGED <<clientVars, running, startEnd, stopReq, frameVars,
                   named, userValue>>

\* configure_constant_frame_rate: exposure priority is switched off if the
\* driver supports it, whatever the configuration asks for.
SwitchOffPriority ==
    /\ legacy' \in {legacy, 0}
    /\ unnoticed' = (unnoticed \/ legacy' # legacy)

\* The rest of initialize_capture, the frame handler and StartAsync, with
\* configure_constant_frame_rate once the device is open and once it streams.
Open ==
    /\ control = "opening"
    /\ \/ control' = "failed" /\ UNCHANGED running
       \/ control' = "announcing" /\ running' = TRUE
    /\ SwitchOffPriority
    /\ UNCHANGED <<clientVars, startEnd, stopReq, frameVars, named, userValue,
                   saved, restore>>

Announce ==
    /\ control = "announcing"
    /\ startEnd' = "ok"
    /\ control' = "testing"
    /\ UNCHANGED <<clientVars, running, stopReq, frameVars, legacyVars>>

\* control_cv.wait evaluates its predicate while it holds control_mutex ...
TestStop ==
    /\ control = "testing"
    /\ control' = IF stopReq THEN "ending" ELSE "blocking"
    /\ UNCHANGED <<clientVars, running, startEnd, stopReq, frameVars, legacyVars>>

\* ... and only then blocks.
Block ==
    /\ control = "blocking"
    /\ control' = "waiting"
    /\ UNCHANGED <<clientVars, running, startEnd, stopReq, frameVars, legacyVars>>

\* A wakeup without a notification, which the language allows.
SpuriousWakeup ==
    /\ control = "waiting"
    /\ control' = "testing"
    /\ UNCHANGED <<clientVars, running, startEnd, stopReq, frameVars, legacyVars>>

\* Mutant: the exception of a failed start is only kept for the consumers.
FailStart_NotFinished ==
    /\ control = "failed"
    /\ error' = TRUE
    /\ control' = "ending"
    /\ UNCHANGED <<clientVars, running, startEnd, stopReq, latest, frameId,
                   failures, cb, cbId, overlapped, legacyVars>>

\* The handler of an exception before the wait.
FailStart ==
    /\ control = "failed"
    /\ startEnd' = IF startEnd = "no" THEN "error" ELSE startEnd
    /\ error' = TRUE
    /\ control' = "ending"
    /\ UNCHANGED <<clientVars, running, stopReq, latest, frameId, failures,
                   cb, cbId, overlapped, legacyVars>>

EndSession ==
    /\ control = "ending"
    /\ running' = FALSE
    /\ control' = "closing"
    /\ UNCHANGED <<clientVars, startEnd, stopReq, frameVars, legacyVars>>

Quiet == \A c \in Callbacks : cb[c] = "idle"

\* restore_legacy_camera_control: a restore the driver does not confirm stays
\* pending.
RestoreLegacy ==
    IF restore /\ named
      THEN \/ WriteLegacy(saved, FALSE) /\ UNCHANGED restore
           \/ WriteLegacy(saved, TRUE) /\ restore' = FALSE
      ELSE UNCHANGED <<legacy, restore, unnoticed>>

\* Mutant: the frame is dropped before the callbacks are over.
CloseDevice_NoDrain ==
    /\ control = "closing"
    /\ control' = "clearing"
    /\ \/ UNCHANGED <<named, legacy, restore, unnoticed>>
       \/ named' = FALSE /\ RestoreLegacy
    /\ UNCHANGED <<clientVars, running, startEnd, stopReq, frameVars,
                   userValue, saved>>

\* cleanup_capture: the reader is stopped, the device closed, and then the
\* setting restored.  If closing throws, the rest is skipped.
CloseDevice ==
    /\ control = "closing" /\ Quiet
    /\ control' = "clearing"
    /\ \/ UNCHANGED <<named, legacy, restore, unnoticed>>
       \/ named' = FALSE /\ RestoreLegacy
    /\ UNCHANGED <<clientVars, running, startEnd, stopReq, frameVars,
                   userValue, saved>>

ClearLatest ==
    /\ control = "clearing"
    /\ latest' = 0
    /\ control' = "done"
    /\ UNCHANGED <<clientVars, running, startEnd, stopReq, error, frameId,
                   failures, cb, cbId, overlapped, legacyVars>>

-----------------------------------------------------------------------------
(***************************************************************************)
(* The callbacks: on_frame_arrived and record_failure.                     *)
(***************************************************************************)

Entered == {c \in Callbacks : cb[c] = "entered"}

\* A frame arrives; a callback that finds running_flag cleared returns.
Arrive(c) ==
    /\ cb[c] = "idle" /\ running
    /\ frameId + Cardinality(Entered) < MaxFrames
    /\ cb' = [cb EXCEPT ![c] = "entered"]
    /\ UNCHANGED <<clientVars, controlVars, stopReq, error, latest, frameId,
                   failures, cbId, overlapped, legacyVars>>

\* Mutant: the counter is advanced on entry and on publication.
Number_Twice(c) ==
    /\ cb[c] = "entered"
    /\ frameId' = frameId + 2
    /\ cbId' = [cbId EXCEPT ![c] = frameId + 2]
    /\ cb' = [cb EXCEPT ![c] = "numbered"]
    /\ overlapped' = (overlapped \/ \E d \in Callbacks : cb[d] = "numbered")
    /\ UNCHANGED <<clientVars, controlVars, stopReq, error, latest, failures,
                   legacyVars>>

\* fetch_add on current_frame_id, outside of state_mutex.
Number(c) ==
    /\ cb[c] = "entered"
    /\ frameId' = frameId + 1
    /\ cbId' = [cbId EXCEPT ![c] = frameId + 1]
    /\ cb' = [cb EXCEPT ![c] = "numbered"]
    /\ overlapped' = (overlapped \/ \E d \in Callbacks : cb[d] = "numbered")
    /\ UNCHANGED <<clientVars, controlVars, stopReq, error, latest, failures,
                   legacyVars>>

\* The frame becomes the latest one, under state_mutex.
Publish(c) ==
    /\ cb[c] = "numbered"
    /\ latest' = cbId[c]
    /\ cb' = [cb EXCEPT ![c] = "published"]
    /\ UNCHANGED <<clientVars, controlVars, stopReq, error, frameId, failures,
                   cbId, overlapped, legacyVars>>

\* The count of consecutive failures is reset outside of state_mutex.
ResetFailures(c) ==
    /\ cb[c] = "published"
    /\ failures' = 0
    /\ cb' = [cb EXCEPT ![c] = "idle"]
    /\ UNCHANGED <<clientVars, controlVars, stopReq, error, latest, frameId,
                   cbId, overlapped, legacyVars>>

\* Mutant: the error is not stored for the consumer.
RecordFailure_Silent(c) ==
    /\ cb[c] = "entered"
    /\ failures' = IF failures < MaxFailures THEN failures + 1 ELSE failures
    /\ IF failures + 1 < MaxFailures
         THEN /\ cb' = [cb EXCEPT ![c] = "idle"]
              /\ UNCHANGED stopReq
         ELSE /\ cb' = [cb EXCEPT ![c] = "alarming"]
              /\ stopReq' = TRUE
    /\ UNCHANGED <<clientVars, controlVars, error, latest, frameId, cbId,
                   overlapped, legacyVars>>

\* A frame without a usable texture: after MaxFailures in a row the error is
\* stored and the stop requested.
RecordFailure(c) ==
    /\ cb[c] = "entered"
    /\ failures' = IF failures < MaxFailures THEN failures + 1 ELSE failures
    /\ IF failures + 1 < MaxFailures
         THEN /\ cb' = [cb EXCEPT ![c] = "idle"]
              /\ UNCHANGED <<error, stopReq>>
         ELSE /\ cb' = [cb EXCEPT ![c] = "alarming"]
              /\ error' = TRUE /\ stopReq' = TRUE
    /\ UNCHANGED <<clientVars, controlVars, latest, frameId, cbId, overlapped,
                   legacyVars>>

\* The notification that follows.
Alarm(c) ==
    /\ cb[c] = "alarming"
    /\ WakeControl
    /\ cb' = [cb EXCEPT ![c] = "idle"]
    /\ UNCHANGED <<clientVars, running, startEnd, stopReq, error, latest,
                   frameId, failures, cbId, overlapped, legacyVars>>

Owner == StartReturns \/ Fetch \/ StopNotify \/ Join

Control ==
    \/ Select \/ ApplyLegacy \/ Open \/ Announce \/ TestStop \/ Block
    \/ FailStart \/ EndSession \/ CloseDevice \/ ClearLatest

Callback(c) ==
    \/ Number(c) \/ Publish(c) \/ ResetFailures(c)
    \/ RecordFailure(c) \/ Alarm(c)

Next ==
    \/ Start
    \/ StopStore
    \/ Owner
    \/ Control
    \/ SpuriousWakeup
    \/ \E c \in Callbacks : Arrive(c) \/ Callback(c)

(***************************************************************************)
(* Every thread that can run does, and the owner keeps asking for frames.  *)
(* Nobody has to start or stop the camera, no frame has to arrive, and no  *)
(* wakeup comes by itself.                                                 *)
(***************************************************************************)
Fairness ==
    /\ WF_vars(Owner)
    /\ WF_vars(Control)
    /\ \A c \in Callbacks : WF_vars(Callback(c))

Spec == Init /\ [][Next]_vars

FairSpec == Spec /\ Fairness

-----------------------------------------------------------------------------
(***************************************************************************)
(* Properties.                                                             *)
(***************************************************************************)

\* A stopped camera keeps no frame: once the control thread is over, no
\* callback that was still running has put a frame back.
NoFrameAfterStop == control \in {"none", "done"} => latest = 0 /\ ~running

\* While every change of the driver's low-light setting was confirmed to the
\* code, the user's value is never forgotten: the driver has it, or it is
\* saved and its restore pending, over any number of sessions, failed opens,
\* refused writes and cleanups that throw (if the configuration asks for the
\* restore).
LegacyRecoverable ==
    RestoreOnStop /\ ~unnoticed
        => legacy = userValue \/ (restore /\ saved = userValue)

\* When a camera that was started has been stopped, the user's low-light
\* setting is back or still to be restored, as the comment on
\* restore_legacy_control_on_stop says.
SettingRestored ==
    RestoreOnStop /\ control = "done" /\ startEnd = "ok"
        => legacy = userValue \/ (restore /\ saved = userValue)

\* No frame is handed to the owner twice, however callbacks overlap; and as
\* long as no two have overlapped between number and publication, the frames
\* come in the order of their numbers.
FramesInOrder ==
    [][fetched' > fetched
         => lastId' \notin handed /\ (~overlapped => lastId' > lastId)]_vars

\* start always returns, with a running camera or with an exception.
StartTerminates == client = "starting" ~> client \in {"running", "idle"}

\* When the camera gives up after too many failures, the owner gets the error.
FailureSurfaces ==
    (failures = MaxFailures /\ client = "running") ~> client # "running"

\* stop returns if the control thread was blocked when it was notified.
StopTerminatesIfBlocked ==
    (client = "notifying" /\ control = "waiting") ~> client = "idle"

\* stop always returns: its notification wakes the control thread, as the
\* comment in Camera::Impl::stop says.
StopTerminates == client = "notifying" ~> client = "idle"
=============================================================================
