# edge-client in TLA+

A verification development for the attendance edge client: TLA+ modules that
model its core, TLC runs that check them on small instances, and TLAPS proofs
of the most important properties for every value of the parameters.

Paths are relative to the repository root, mounted here as `src/`. Which
definition models which lines is recorded in `PROJECT.json` (`map`).

## 1. The system

A Windows client watches a camera, recognises faces, and reports attendance to
a backend. One process, these threads:

| thread | code | shares with the others |
|---|---|---|
| owner | `EdgeApplication::run` | database, `dirty_`, hints, camera |
| camera control | `Camera::Impl::control_loop` | camera state under two mutexes and atomics |
| frame callbacks | `on_frame_arrived`, on Media Foundation's threads | latest frame, failure counter |
| sync worker | `SyncWorker` -> `SyncService::step` | database, `dirty_`, `blocked_`, hints |
| device channel | `DeviceChannel::Impl` | hints, the wake signal, read-only queue counts |
| network callback | `NetworkWatcher` | the wake signal, by a weak reference |

The GPU adds streams that run on their own: the camera's D3D11 context and one
D3D12 queue for each of the three models. The credential file and the database
file are shared with other runs of the program (`--provision-token`,
`--import-gallery`).

### Inventory

| component | state | operations | what makes it correct |
|---|---|---|---|
| retry policy (`edge_app/sync/retry_policy`) | none | `retry_at` | bounded exponential delay, never earlier than the server asks |
| coordinator (`edge_app/app/attendance_coordinator`) | `pending_`, the events of one frame | `stage`, `commit_next`, `refresh_gallery` | an event leaves memory only when it is durable |
| outbox (`edge_app/storage/outbox_repository`) | tables `attendance_outbox`, `dead_letter`, `delivery_state` | `ensure_enqueued`, `due`, `retry`, `acknowledge`, `dead_letter` | no event lost or in two tables; the endpoint pause survives restarts |
| attendance upload (`edge_app/sync/attendance_sync`) | the batch of a request | `step` | only what the backend confirmed leaves the outbox |
| gallery sync (`edge_app/sync/gallery_sync`, `storage/gallery_repository`) | due time, attempts, `dirty_`, gallery tables | `step`, `request_refresh`, `take_dirty`, `replace`, `load` | the matcher follows the server; hints do not defeat backoff |
| sync service (`edge_app/sync/sync_service`) | `blocked_`, token, two hint flags | `set_token`, `step`, `request_gallery_refresh` | quiet after 401/403 until access is restored, and then not quiet |
| device channel (`edge_app/sync/device_channel`) | connection, reported state | connect, reconcile, report, reconnect | missed notifications are recovered on connection |
| owner loop (`edge_app/app/edge_application`) | reload flag, two deadlines | drain, reload, frame, shutdown | no new decisions while events are not durable |
| camera (`vision_runtime/camera`) | lifecycle flags, latest frame, error, saved driver setting | `start`, `stop`, `wait_for_frame`, callbacks | start and stop return; no stale frames; driver setting not forgotten |
| attendance processor (`vision_runtime/pipeline/attendance_processor`) | a state per track, table of announced identities | `process`, `set_gallery`, `reset` | one event per person and cooldown, on live and recent evidence, within budgets |
| camera format selection (`vision_runtime/camera/format_selector`) | none | comparison, scan | the best mode; near ties decide little |
| texture import and GPU preprocessors (`vision_runtime/common`, `*/gpu_preprocessor`, `scrfd.cpp`, `arcface.cpp`, `liveness.cpp`) | import cache, shared texture, tensor, fence of each model | construct, prepare, tensorize, evaluate, read back | a result is of the frame it was asked for; nothing overwritten while read; no stall |
| SCRFD decoding (`vision_runtime/scrfd`) | none | file outputs, decode, suppress | boxes inside the picture, no overlaps, in spite of NaN |
| alignment (`arcface.cpp`, `liveness.cpp`, `quality`) | none | estimate, invert | what passes the quality gate can be aligned |
| ByteTrack (`vision_runtime/bytetrack`) | tracked, lost, removed; next identifier | `update`, `reset`, assignment | one list per track, no track reported twice, none revived |
| attendance runtime (`vision_runtime/pipeline`) | tracker and processor | `start`, `stop`, `reset_session` | evidence belongs to the track that has the number now |
| gallery matcher (`vision_runtime/pipeline/gallery_matcher`) | templates by identity | `replace`, `clear`, `match` | replaced as a whole; best identity and margin |
| HTTP client (`edge_app/sync/http_client`) | a request | send, read headers, read body | one deadline; errors keep their status; bodies whole |
| wire format (`edge_app/sync/wire_format`) | none | `envelope`, `batch_payload`, `parse_receipts`, `parse_gallery` | events under their own device; only receipts of sent events count |
| configuration and models (`edge_app/app/application_config`) | digests | `load_config`, `verify_model_files` | the gallery in use is of the model in use |
| credential file (`edge_app/security`) | the file and its `.new` | `protect_token`, `unprotect_token`, `prepare_private_file` | never lost, never torn by one writer, private |
| database opening (`edge_app/storage/database`) | version, tables | create, migrate | version and tables agree; pauses carried over |

What is hard here: a COMMIT that may have happened, a request that may still
arrive, a crash between the backend's receipt and the local one, one flag that
two threads use in opposite order, a condition variable notified without its
mutex, callbacks that outlive the flag that should stop them, and a per-track
automaton with three clocks; GPU streams that only a fence orders, a cache keyed by
something that is reused, identifiers that start again at one, and numbers that are
not numbers. `PROJECT.json` lists these places as hazards, with
the properties that would catch each one going wrong.

## 2. Modules

| module | models | extends |
|---|---|---|
| `RetryPolicy` | `retry_at` and its parts, as operators | |
| `AtLeastOnceQueue` | abstract: what the outbox promises | |
| `AttendanceDelivery` | coordinator, outbox, upload, owner loop, backend | `RetryPolicy`; instantiates `AtLeastOnceQueue` |
| `GallerySync` | sync service, gallery sync and repository, hints, reload by the owner | `RetryPolicy` |
| `CameraLifecycle` | owner, control thread, callbacks, legacy driver control | |
| `AttendanceProcessor` | `process`, `set_gallery`, `reset` | |
| `SyncThreads` | owner, worker, channel and network callback to the end of the process | |
| `DeviceChannel` | the clocks of the channel: deadlines, reports, reconnect delay | |
| `WireFormat` | batches by device, receipts | |
| `HttpRequest` | the stages of a request under its deadline | |
| `ModelBinding` | which models and which gallery a run uses | |
| `CredentialFile` | the credential on disk, writers and readers | |
| `DatabaseUpgrade` | opening and migrating by concurrent processes | |
| `FormatSelector` | the choice of a camera mode | |
| `GpuInference` | texture import, three preprocessors and runtimes, GPU streams | |
| `ScrfdDecode` | filing, decoding and suppression of the detector's outputs | |
| `FaceAlignment` | quality gate and similarity transforms | |
| `ByteTrack` | `update` and `reset` of the tracker | |
| `Assignment` | the Hungarian algorithm, loop by loop | |
| `BiometricRuntime` | tracker and processor reset together | `ByteTrack` |
| `GalleryMatcher` | replacing and matching | |
| `MC...` | constants of the runs | the module of that name |
| `VisionSuite` `EdgeSuite` `ProgressSuite` | small instances of the modules above from `SyncThreads` on; `ProgressSuite` also of `AttendanceProcessor` | instantiate them |
| `EdgeSuiteProofs` | theorems about `SyncThreads`, `DeviceChannel`, `WireFormat`, `HttpRequest`, `CredentialFile`, `DatabaseUpgrade`, `ModelBinding` | `EdgeSuite`, `TLAPS` |
| `VisionSuiteProofs` | theorems about `GpuInference`, `ScrfdDecode`, `FormatSelector`, `ByteTrack`, `BiometricRuntime`, `GalleryMatcher`, and `Assignment` and `FaceAlignment` in the suite | `VisionSuite`, `TLAPS`; instantiates `AssignmentProofs`, `FaceAlignmentProofs` |
| `AssignmentProofs` | the inductive invariant of `Assignment`, its optimality, finite sums | `Assignment`, `TLAPS` |
| `FaceAlignmentProofs` | reduced fractions, the closed form of `solve4`, the invariant of `FaceAlignment` | `FaceAlignment`, `TLAPS` |
| other `...Proofs` | lemmas and theorems | the module of that name, `TLAPS` |

Definitions named `X_Something` after a definition `X` are mutants: `X` with a
plausible bug. No specification uses them; each shows that a property notices
the bug.

The first four models have runs, proofs and constants of their own. The others describe
parts that share no state at the level they are modelled at, so a suite instantiates
several of them in one specification: its variable `component` is chosen in the initial
state and says which one takes steps, and the variables of the others stay `Asleep`. A
property of a suite joins the properties of its modules under `component = ...`. The
parameters of `EdgeSuite` and `VisionSuite` are constants of the suite, with named
assumptions, and have their values in its `.cfg`; the theorems hold for every other value.

### AttendanceDelivery

*State.* The three tables (`outbox` with attempts and next time per event,
`deadLetter`, `notBefore`), the coordinator's memory (`pending`), where the owner
is in its loop, the request in flight (`call`, `batch`), `blocked`, and the
backend (`stored`, the receipts it would give, and `orphans`: events of requests
the device gave up, which may still arrive). `queued`, `reported` and
`abandoned` are history.

*Steps.* Each SQLite transaction is one step with an outcome: it succeeds, it
fails and is rolled back, or it takes effect and reports a failure
(`Transaction`, `database_internal.hpp`). The worker sends (`BeginStep`), the
backend reads (`Process`), and the answer is one of transport failure, error
status or unusable body, 401/403, 400/422, or receipts for any part of the batch
(`Acknowledge`, then `RetryMissing` for the rest as a second transaction).
`CommitNext` is `commit_next` with the loop around it. `Stop`, `Close`, `Exit` are
Ctrl+C and the end of `run`; `Crash` may happen anywhere; `Restart` opens the same
tables.

*Abstractions.* Payloads are left out: an event is a number, in the order of
`occurred_ms` (events of one frame may share a millisecond; which of them is first
makes no difference). The deadline after a failed commit (`persist_due`) only
delays the next try. An exception that leaves `run` (a camera error, a conflicting
event identifier) ends the process with nothing in memory that `Crash` does not
cover. `enqueue` and `record` are called by tests only.

### GallerySync

A gallery is its version number; its ETag follows the version. Time is what is
left until `gallery_due_`, so polling never ends. `StepBegin` is `set_token` and the
head of `SyncService::step`; upload and gallery request are separate steps, so
hints, publications and restarts fall between them. `Replace` is the transaction,
`Replaced` the assignments after it: the owner may run in between. The owner takes
the flag, loads, and installs in three steps. `restored` and `unsure` are history:
the first says that since the last 401/403 a new connection was made, or that a hint came
while the refused request was under way; the second that a `replace` took effect and
reported a failure.

### CameraLifecycle

Condition variables are modelled by who is blocked: `notify_all` moves the control
thread if it is in `wait`, and is lost otherwise. The control thread's evaluation of
the predicate (`TestStop`) and its blocking (`Block`) are two steps, since `stop` and
`record_failure` store and notify without `control_mutex`. A callback enters, draws
its number, publishes under `state_mutex` and then resets the failure counter, each
a step of its own. Waits on `state_cv` have timeouts and are single steps.

The driver has one low-light setting, `legacy`, and `userValue` is what the user gave it. The
legacy path writes it before the device is opened and after it is closed (`ApplyLegacy`,
`RestoreLegacy`); `WriteLegacy` has the answers of `set_legacy_low_light_priority`, where
"no" leaves open what the driver has. `Open` includes both calls of
`configure_constant_frame_rate`, which may set the same setting to zero
(`SwitchOffPriority`). `unnoticed`, `fetched`, `handed` and `overlapped` are history.

Assumed of Media Foundation: `StopAsync().get()` returns or throws after the callbacks that
had begun are over. The code needs this (its callbacks hold a raw `this`);
`NoFrameAfterStop` rests on it.

### AttendanceProcessor

Ages instead of instants, saturated where the code no longer distinguishes them,
make the state space finite without a bound on time. `Process` follows the order of
the code: expire, first loop (retry of deferred tracks, who is put to the vote),
votes, who is recognised, recognition and events. Quality is a level, levels being
`retry_quality_gain` apart, 0 if the observation is missing or refused by a gate.
The liveness result of a crop and the identity the matcher returns for the averaged
embedding are inputs. Of several tracks that match one identity in one frame, the
code's order decides; the model lets any be first. Exceptions of `process` (frames
out of order, evaluator failures) end `run` and are not steps.
`BiometricAttendanceRuntime::start` and `reset_session` are `Reset`.

### SyncThreads and DeviceChannel

`SyncThreads` has every step of the two `jthread`s, the network callback and the
owner's loop that touches something shared, to the end of the process. A condition
wait is two steps, the test under the mutex and the blocking, because the destructors
notify without the mutex; whoever takes the mutex waits for the first to become the
second. `refs` counts the strong references to the wake signal. `raced` and `threw` are
history. `DeviceChannel` leaves the threads out and counts time: socket operations end
by their deadline, a turn of the loop takes less than a tick. The two counts of a
report are two steps, with the worker in between.

### WireFormat, HttpRequest, ModelBinding

`WireFormat` gives rows a device: the configuration's device id may change at a restart
while the outbox stays. The backend may answer with any list of receipts up to one more
than a batch. `HttpRequest` has one request with a body that arrives in buffers of any
size; the deadline is a number of ticks that all stages share. `ModelBinding` lets files
be exchanged and galleries be imported by other runs between any two steps of a start;
a digest is the content it belongs to, and `stale` marks that a model was exchanged
after it was hashed and before it was loaded, which the code cannot notice.

### CredentialFile, DatabaseUpgrade

Each call of the operating system is a step, with its failure, and a process may be
killed between any two. A token file is absent, empty, whole or torn. A transaction
works on a copy of the tables (`work`) that COMMIT makes the database (`disk`); rows are
their `next_ms`.

### GpuInference

Pixels are the number of the frame they show; a camera texture is an address and an
incarnation. The owner thread records commands and submits them; the camera's context
and the three queues execute them in order, each at its own time. Fences and read-backs
are the only synchronisation. Import has its four outcomes (off, hit, miss, failure), and
any stage may throw.

### ByteTrack, Assignment, BiometricRuntime

Lists count how often a track occurs in them. An association is any matching, and any
pair of boxes may overlap: what the properties say holds whatever the Kalman filter and
the costs are. `Assignment` follows the loops of `linear_assignment` one outer iteration,
one relaxation and one augmentation at a time, in units in which the dummy cost is odd
and real costs are even. `BiometricRuntime` adds `known`: for each number, whether the
processor's evidence is of the track that has it.

### ScrfdDecode, FaceAlignment, FormatSelector, GalleryMatcher

Pure code, checked on every input of a small set. `ScrfdDecode` has `Nan` among its
numbers, with the comparisons of C++. `FaceAlignment` computes with exact rationals, so
the code's tolerances are zero: coordinates are whole numbers, in a unit as small as one
likes, and so are the templates and the bound in theirs. `FormatSelector` scans lists in every order.
`GalleryMatcher` takes an embedding for its similarity with the query.

## 3. Runs

| run | component | states | shows |
|---|---|---|---|
| `delivery_safety` | delivery | 842 000 | no loss, no row in two tables, no bypass of the pause |
| `delivery_promises` | delivery | 82 000 | implements `AtLeastOnceQueue`; every row is settled, every staged event resolved |
| `gallery_reconcile` | gallery | 488 000 | no unnoticed stale gallery; backoff is kept; the matcher follows the server |
| `gallery_unblock` | gallery | violation | finding 2 |
| `gallery_reconnect` | gallery | violation | finding 3 |
| `camera_sessions` | camera | 605 000 | two callbacks, two sessions: no stale frame, no frame twice, the driver's setting not forgotten, start and stop return |
| `camera_lost_wakeup` | camera | violation | finding 1 |
| `camera_restore` | camera | violation | finding 4 |
| `processor_tracks` | processor | 39 000 | two tracks of one person, one event; live evidence, budgets, rejection |
| `vision` | `VisionSuite` | 1 200 000 | a frame on its way: textures, faces, tracks, matches, camera mode |
| `edge` | `EdgeSuite` | 1 535 000 | threads, channel, batches, a request and its deadline, files, models |
| `progress` | `ProgressSuite` | 157 000 | everything that must end does; a steady face is decided |

The properties of the suites are conjunctions of named parts, which are defined and
explained in the modules. (`SteadyFaceDecided` of `progress` is that of `AttendanceProcessor`
for its one track.)

| run | property | module | parts, each with a mutant that breaks it |
|---|---|---|---|
| `vision` | `FramesSound` | `GpuInference` | `NothingUsedBeforeMade` (`ScrfdConstructor_ParamsFirst`), `FreshResult` (`PrepareFrame_NoWait`), `NoOverwriteWhileRead` (`Coverage_NoWait`), `ReleasedBeforeFlush` (`Submit_EarlyFlush`), `CacheSound` (`Tagged_SameNumber`) |
|  |  | `ScrfdDecode` | `OutputsOneOfEach` (`Complete_ScoresOnly`), `InsideThePicture` (`Clampf_Swapped`), `NmsSound` (`Suppressed_LastOnly`) |
|  | `FacesSound` | `FaceAlignment` | `QualityMeansAlignable` (`GoodFit_Any`), `LeastSquares` (`EliminatedSide_Below`), `InverseTakesBack` (`DstToSrc_NotTranslated`) |
|  | `TracksSound` | `ByteTrack` | `ListsPartition` (`AfterRounds_NotMarked`), `OutputsCurrent` (`UnconfirmedColumns_All`), `SeenTwice` (`Activated_AtOnce`), `LostNotForEver` (`Expired_Never`), `LongestLivedStays` (`DropLost_Ties`), `StaysGone` (`Started_FirstFree`) |
|  |  | `BiometricRuntime` | `EvidenceOfThisTrack` (`ResetSession_TrackerOnly`) |
|  |  | `Assignment` | `Optimal` (`a_CheapInvalid`), `DualFeasible` (`Potentials_RowsOnly`) |
|  | `MatchSound` | `GalleryMatcher` | `InstalledAsAWhole` (`Grouped_AsGiven`), `AnswerIsBest` (`Better_Forgets`) |
|  | `ModeSound` | `FormatSelector` | `NoDriftBeyondTies` (`Select_Anything`), `BestModeTaken` (`is_better_candidate_SubtypeFirst`) |
| `edge` | `ThreadsSound` | `SyncThreads` | `NoUseAfterFree` (`JoinChannel_Detached`), `HintNotSleptThrough` (`Authenticated_NotStored`), `StopMissedOnlyInRace` (`WorkerTest_WakeOnly`), `StatusTruthful` (`Commit_Running`) |
|  | `ChannelSound` | `DeviceChannel` | `SilenceNoticed` (`Expired_WhenDue`), `RotationNoticed` (`Rotated_Never`), `FlappingBacksOff` (`ConnectOk_Forgives`), `NothingUncounted` (`Counted_DeadFirst`) |
|  | `BatchesSound` | `WireFormat` | `OwnDeviceOnly` (`batch_payload_AnyDevice`), `NeverDropped` (`Settled_Batch`), `SetAsideForAReason` (`parse_receipts_AnyId`) |
|  | `RequestSound` | `HttpRequest` | `ErrorPolicyKept` (`ErrorAnswer_Read`), `WholeBodyOrThrow` (`TooLong_Before`), `OneDeadline` (`Remaining_PerStage`) |
|  | `FilesSound` | `CredentialFile` | `NeverLost` (`PrepareFile_Truncates`), `TornOnlyByOverlap` (`WriteFails_Ignored`), `ReaderSound` (`ReadToken_Unchecked`), `SecretsPrivate` (`PrepareFile_CheckLast`) |
|  |  | `DatabaseUpgrade` | `VersionMatchesTables` (`Statement_Autocommit`), `PausesCarried` (`Carried_Zero`), `OpenMeansCurrent` (`ReadVersion_Newer`) |
|  | `ModelsSound` | `ModelBinding` | `SameModel` (`compatible_Always`), `EvidenceHolds` (`verify_deployment_evidence_AnyModel`), `GalleryForModel` (`parse_gallery_AnyModel`) |
| `progress` | `EverythingEnds` | `SyncThreads` | `ShutdownEnds` (`WorkerTimeout_Again`) |
|  |  | `HttpRequest` | `RequestEnds` (`DeadlineExceeded_Again`) |
|  |  | `WireFormat` | `StallEnds` (`Due_GivesUp`) |
|  |  | `GpuInference` | `FrameEnds` (`PrepareFrame_NoFlush`) |
|  |  | `Assignment` | `Terminates` (`Seen_Forgotten`) |

The type invariant of a module is a further part (`Outer_OneMore` and `CallbackWakes_Leak`
break two of them). `PROJECT.json` names one mutant for each property.

### Bounds

* Delivery: 3 events with batches of 2 give a batch that is full, a row left
  behind, and a frame with several events; 3 faults combine an uncertain commit, a
  lost answer and a crash or a refusal. Attempts saturate at 2 so the cap is
  reached; the base delay, its cap and a longer `Retry-After` are all different. The
  clock passes `MaxTime` only to end a pause. `delivery_promises` has 2 events, which may
  be of one frame and go out in one batch, be acknowledged apart, and wait for one another
  after a failure.
* Gallery: 3 versions let two publications fall into one reload; 3 faults cover
  failure, refusal and restart together.
* Camera: 2 failures stand for 30, 2 callbacks and 2 frames for overlap, 2 sessions for
  what one leaves to the next, 3 values of the setting for a driver that keeps neither its
  old value nor the one it is given. Deadlock checking is off because a camera that is stopped
  after its last session does nothing.
* Processor: small vote counts, a cooldown of 2 with frames 0 or 1 apart. `processor_tracks`
  has cadence 1, one recognition and one extra, and a ttl of 1, so that evidence may end
  between any two steps. `progress` has cadence 2, two recognitions and one extra, and a ttl
  of 6, so that a face is decided before its evidence ends or after; one track and one
  identity, which reach both a `Recognized` and a `DuplicateIdentity`. The proofs cover every
  other value.
* GPU: one entry of the import cache and two textures force an eviction and a hit; a
  texture may be freed and reallocated once; two faces make a batch; two frames make the
  second overwrite the first. `progress` has two devices instead, so that the camera may
  come back on the wrong one.
* Tracking: two detections a frame over four frames, a track lost for at most one frame,
  three identifiers. Assignment: every matrix of 3 rows and 2 columns over four costs, one
  of them not finite. Decoding: up to three anchors of twelve that coincide, overlap in a
  chain, touch the border, turn inside out or are not numbers. Alignment: every placement
  of five landmarks on a grid of six points. Formats: every list of up
  to three modes. Galleries: up to three templates, installed over any other.
* Threads: `edge` has all three workloads (events, galleries, refusals) together and no
  bound on turns of the loops; `progress` has the refusals only, which are the workload
  whose steps outlive the owner's loop. Channel: limits of 1 to 4 ticks in the order of
  the code's.
* Wire: two devices and three events with batches of two, so that a stalled row is at the
  head of a batch with a good one behind it. Credential: two writers and two readers and
  three calls. Database: two openers of every version. Models: two, exchanged or
  re-imported twice.
* HTTP: a limit of 3 with bodies of 0, 1, 3 and 4 units in every split into buffers.

`processor_tracks` uses the symmetry of the two tracks, `vision` that of the two textures and
`edge` that of the two credential tokens; none of them has a temporal property beyond single
steps. `progress` uses none. The suites `edge` and `progress` do not check deadlock, since a
process that ended, a request that was answered or a file that was written takes no more
steps.

### Fairness

* Delivery: weak fairness of the owner, of beginning a request, of an answer, of the
  second transaction and of time. Every wait in these threads has a timeout
  (`wait_for_frame` 1 s, `wait_for` 1 s, the HTTP timeouts), and both loops catch the
  storage errors. That someone restores a credential (`Unblock`) and restarts an
  ended process (`Restart`) is an assumption on the operator. Faults are finitely
  many and never forced.
* Gallery: weak fairness of the worker, the owner and time; none of the channel, so
  polling alone must converge.
* Camera: every runnable thread runs; the owner keeps calling `wait_for_frame`, as
  its loop does. No frame, start, stop or spurious wakeup is forced.
* Processor: the owner keeps asking for frames.
* Threads: weak fairness of the worker, the channel and the teardown, whose waits have
  timeouts; strong fairness of the one step in which the channel takes the mutex of the
  wake signal, which the worker releases for a second at a time and takes again. None of
  the owner's loop, the server, the network or its callback.
* HTTP: the client and the clock. The server may stay silent.
* Wire: the worker's step, and the time after which a row is due. That the operator
  restores the device id is the premise of `StallEnds`.
* GPU: the owner thread, the camera's context and each queue; a queue that waits for a fence
  is not enabled. Assignment: its one thread.

## 4. Findings

1. **A lost wakeup in `Camera::stop`** (`camera_lost_wakeup`). `stop` stores
   `stop_requested` and notifies `control_cv` without `control_mutex`
   (`vision_runtime/camera/camera.cpp:358-361`); `control_loop` waits without a
   timeout (lines 485-491). When both fall between the predicate and the blocking,
   the control thread sleeps on and `stop` waits in `join`. The comment at line 360
   says the call wakes the control thread. `record_failure` has the same shape, but it
   stores its error for the consumer first, so the owner learns of it whether or not the
   wakeup is lost (`FailureSurfaces`). `stop` does return when the
   control thread is already blocked (`StopTerminatesIfBlocked`). Locking `control_mutex`
   around the store closes the window.
2. **Any reconcile message lifts the 401/403 pause** (`gallery_unblock`).
   `README.md:210` promises that requests pause "until credentials change or a newly
   authenticated operational connection confirms access has been restored". The hint
   installed at `edge_app/app/edge_application.cpp:80` passes `true` whenever the channel
   calls it, and the channel does for every reconcile message
   (`edge_app/sync/device_channel.cpp:114`). In the trace a connection is made, the worker
   takes its flag, the request is refused, and then a reconcile message on that old
   connection raises the flag again and the next step lifts the pause. A hint that came
   while the refused request was under way also lifts the pause, because the flag is taken
   at the head of a step and a refusal does not clear it; the property does not hold that
   against the code (`restored`), as the connection may be newer than the refusal.

3. **A reconnection does not reconcile an uncertain `replace`** (`gallery_reconnect`).
   `GallerySync::step` sets `dirty_` after `replace` returns
   (`edge_app/sync/gallery_sync.cpp:50-58`). If the COMMIT took effect and reported a
   failure, which `edge_app/storage/outbox_repository.cpp:48-49` provides for on the other
   path, the ETag is stored with the gallery, every later poll is answered 304, and the
   matcher keeps the old gallery until the next version or a restart. `README.md:439` says
   that a reconnection "also reconciles missed changes". `StaleIsFlagged` and `Converges`
   leave these states out by the history variable `unsure`.
4. **The user's low-light setting may be lost** (`camera_restore`). The comment on
   `restore_legacy_control_on_stop` (`vision_runtime/camera/camera.hpp:60`) says that `stop`
   restores the user's value of property #19. Three writes change the setting and keep no
   note of it; the history variable `unnoticed` of `CameraLifecycle` marks them.
   `configure_constant_frame_rate` switches exposure priority off after the device was opened
   and again once it streams (`camera.cpp:593`, `475`, `855`), whatever
   `force_constant_framerate` says, and nobody switches it on again.
   `set_legacy_low_light_priority` returns false after a successful `Set` when the verifying
   `Get` fails or sees another value (`directshow_low_light_control.cpp:220-249`), and
   `camera.cpp:784` then saves nothing and leaves no restore pending. The same in the restore
   (`camera.cpp:814`) may leave a third value, but the restore stays pending. In the trace
   the legacy write is not supported or refused, `Open` switches the setting off, and after
   `stop` it is still off with nothing to restore. That exposure priority and property #19
   are one setting of the driver is an assumption of the model; the second way does not need
   it. `LegacyRecoverable` is what holds: the value is in the driver or saved in every
   behaviour without an unnoticed write.

Limits that the models make explicit and no document denies:

* A face is only sure to be decided if `evidence_ttl` outlives the cadences
  (`SteadyFaceDecided`); no validation tests it.
* Rows queued under another device id stall the outbox until the old id is restored
  (`StallEnds`); nothing is lost (`NeverDropped`).
* A model exchanged between its hash and its loading is not noticed (`stale` in
  `SameModel`).
* Frames are in order only while callbacks do not overlap (`overlapped` in
  `FramesInOrder`); Media Foundation is assumed to see to that. That no frame is handed out
  twice does not rest on it.
* `NoFrameAfterStop` rests on `StopAsync` coming back after the callbacks are over, also when
  it throws and the exception is swallowed (`camera.cpp:1047-1051`).
* A track may give way to another of the same age: of two that overlap and have lived as long,
  `remove_duplicates` keeps one, and only a track of the greatest age is sure to be there
  (`LongestLivedStays`). Faces of the first frame after a reset are reported at first sight
  (`bytetrack.cpp:85`, excepted in `SeenTwice`).
* The status of the channel is that of the owner's last change (`StatusTruthful`), and the two
  counts of a report are of two instants: they miss nothing that stayed unresolved between
  them and may count it twice (`NothingUncounted`).
* Of two camera modes with nearly the same rate the one taken may depend on the order of
  the driver's list: `is_better_candidate` takes a smaller error before it looks at the
  tie-break. `BestModeTaken` leaves lists with near ties out and `NoDriftBeyondTies`
  bounds what the order can do.
* Two credential commands at once may leave a torn file (`TornOnlyByOverlap`), which the
  reader refuses (`ReaderSound`).

## 5. Proofs

All proofs hold for every value of the constants that satisfies the named assumptions, which
TLC evaluates in every run. Most say only what kind of value a constant has: bounds are natural
numbers, limits that the code has at least one of are positive, sets that are counted are
finite, and special values differ from ordinary ones.

| assumption | what it takes from the code besides |
|---|---|
| `RetryAssumption`, `DeliveryAssumption`, `GalleryAssumption` | nothing |
| `CameraAssumption` | the driver's low-light setting is an integer and may be zero |
| `ProcessorAssumption` | the conditions of `validate_attendance_config` |
| `ThreadsAssumption`, `WireAssumption`, `RequestAssumption`, `CredentialAssumption`, `UpgradeAssumption`, `BindingAssumption`, `GpuAssumption`, `TrackAssumption`, `LapjvAssumption`, `MatcherAssumption` | nothing |
| `ScrfdAssumption` | the input is at least one cell of the coarsest stride, which is 32 (640 in the code), and the rows have one of the three strides |
| `ChannelAssumption` | a connection takes no longer than the acknowledgement limit or what makes a connection stable, a send less than a report period; the reconnect delay doubles at most five times |
| `FormatAssumption` | the epsilon of a tie is positive |
| `AlignAssumption` | the two templates have nearly one shape (`TemplatesAlike`): the part of `kArcFaceDst112` that a turned and scaled `kLivenessDst80` explains is longer than the largest error `quality()` accepts. With the numbers of the code its squared length is 2702, and the squared error at most 5 * 64 (`max_alignment_rmse` is 8) |

**Retry policy.** `BackoffBounded`: the delay is a natural number no larger than the
cap for any attempt count. `RetryAtLater`: the result is never earlier than the
server's delay. Delivery and gallery both rest on them, and each proof module has its copy.

**Delivery.** The inductive invariant `DeliveryInvariant` joins the safety properties
with three facts they need: `BatchStillQueued` (the worker is the only one that
removes rows, so acknowledging the batch touches exactly the rows read),
`VerdictTruthful` (receipts say "accepted" only of stored events, so deleting such a
row loses nothing) and `DurableBeforeUpload` (needed for the refinement: what the
backend receives was queued). From it: `TypeCorrect`, `NoCommittedEventLost`,
`NoSilentLoss`, `TablesDisjoint`, `RowsInFlightStable`, `PauseCoversRows`, the action
property `PauseKept`, and `DeliveryImplementsQueue`: under the mapping held =
outbox rows, received = stored, refused = dead letters, every step is a `Take`,
`Receive` or `Settle` of the queue or a stutter.

**Gallery.** `NoUnnoticedStaleGallery` needs that the flag is taken before the database
is read: `InstallInvariant` says that a snapshot about to be installed is current, or
a newer announcement is waiting. `HintsNeverBypassBackoff` needs that a request under
way has a due time of zero and a worker with failures has a credential
(`PollInvariant`). `GalleryTypeCorrect` is the type invariant.

**Camera.** `LegacyNeverForgotten`, for any values of the setting and as long as no write
changed it without the code being told, from: a pending restore means the driver holds the
forced zero, so a second session neither saves the forced value as the user's nor finds
exposure priority to switch off.
`StoppedCameraIsEmpty` from: in the control states before the reader runs and after it
was stopped, no callback is active and `running_flag` is clear. `CameraTypeCorrect` is
the type invariant; that the frame counter stays within its bound needs a count of the
callbacks under way (`FramesCounted`). `FramesComeInOrder` says two things. No frame is handed
out twice, however callbacks overlap: the frames that are numbered and not yet published
differ from one another, from the latest and from those handed out, of which only the last
can still be the latest (`FramesDistinct`). And as long as no two callbacks have overlapped
the frames come in order: the one that is numbered and not yet published is the newest
(`FramesOrdered`).

**Processor.** `ProcessorInvariant` says that every track is `Sound`: votes within the
budget, a track not yet judged below every threshold, a track that passed with enough
bona fide votes, recognitions within the budget; and that the age in `emitted` is never
larger than the time since the identity's last event. One lemma per function that
`process` applies to a track, then one for a frame, give `ProcessorTypeCorrect`,
`NoEarlyRepeat`, `EventsRestOnVotes`, `BudgetsHold` and the action property
`RejectionHolds`.

**Threads.** `ThreadsAreSound`. `ThreadsInvariant` says in which step of the teardown each object
still exists and that the thread which uses it has ended when it does not
(`DestroyedInOrder`), who holds the strong references to the wake signal
(`ReferencesCounted`), that a thread which is in its wait after the last notification had
missed it (`StopSeenOrRaced`), and that of a hint's two flags the second is stored before a
worker that missed the first goes to sleep (`HintOnItsWay`). `NoUseAfterFree` follows from the
joins; the flags that ask the threads to stop do not suffice. The parts are those of the
process, one of each; what is arbitrary is the workload and the interleaving.

**Channel.** `ChannelIsSound`, for any limits that satisfy `ChannelAssumption`. `SilenceSoFar` and `RotationSoFar` say how long
the server can have been silent, and the credential replaced, at each place of the thread: each
is bounded together with what is left of the wait. `DelayGrows`: failures are not forgotten
before disconnections are. `CountedOnce`: what stayed unresolved is in the first count or has
since moved to where the second will look.

**Batches.** `BatchesAreSound`, for any devices and any list of receipts; `WireInvariant` adds
only the types and that what was posted had been captured.

**Files.** `FilesAreSound`, for any number of writers, readers and opening processes.
`CredentialInvariant`: as long as writers have not overlapped at most one is at work and what it
has written is still in the temporary file when it moves it (`OneWriter`); whoever is past
`prepare_private_file` has restricted the file; a reader at work has seen what the file holds.
`UpgradeInvariant`: who is in a transaction has the lock, and its copy is the database with the
statements so far (`TransactionSoFar`); the version somebody read is still that of the database
or has been upgraded since (`VersionRead`).

**Request.** `RequestsAreSound`, for any timeout, limit, buffer size and answer. The inductive
invariant says that every wait is until the one deadline (`ClocksAgree`), that what was read is
the beginning of what was sent and within the limit (`ReadSoFar`), and that status and headers
are those of the answer once they are there, the body being read only of a success
(`AnswerSoFar`). `PartAppended` is the fact about sequences it rests on.

**Models.** `ModelsAreSound`, its invariants and its action property: the digest and the models
loaded are those on disk unless a file was exchanged in between (`BoundSoFar`).

**GPU.** `FramesAreSound`, for any number of textures, cache entries, faces, frames and devices.
`FreshResult` is not inductive: it says what the output holds when it is read, and not why.
`GpuInvariant` says what may still be in the queue of the model at work at each step of the owner
thread, and what the shared texture, the tensor and the output hold once that is executed
(`StreamsInOrder`); that all other streams are empty (`StreamsAtRest`); that a fence is never
ahead of what was asked for (`FencesBehind`); that a texture in use shows the frame it was
delivered with (`TexturesHeld`); that an import tag is used once (`TagsUnique`); and that the
constructors make their objects in turn, the binding last (`ConstructionSoFar`). Each conjunct
has a lemma of its own with one case per action.

**Detector.** The other half of `FramesAreSound`, for any size of the picture and of the input,
any threshold, any rows and any shapes of the nine outputs. `ScrfdInvariant`: the lists hold only
what was seen (`Lists`); outputs that were let through are each of a kind, and every kind is
there (`AllFiled`), from which `NineOfNine` concludes that none is there twice, because a map of
nine things onto nine is one-to-one; kept boxes do not overlap too much (`Apart`); and, when all
scores are finite, the candidates left are in descending order below everything kept (`InOrder`)
and what was seen waits, is kept, or overlaps something better that is (`NoneForgotten`).
`ClampfInside` is why a number that is not finite comes out inside the picture: with the
arguments in the code's order `std::max` answers its lower bound. The overlap of two boxes is not
expanded anywhere, so the conclusions do not depend on `iou_inclusive`.

**Camera format.** `ModeIsTheBest`. The scan is a state machine over the list, so the invariant
needs no induction over data: the candidate is the best of the modes considered so far if no two
of them nearly tie (`PreferredSoFar`), and every usable mode lets the error grow by less than
an epsilon (`DriftSoFar`).

**Tracks.** `TracksAreSound`, for any number of detections, identifiers and frames, with the
two exceptions of section 4: the first frame, and a track that gives way to one of its age.
`UpdateAsOutcome` restates `Update` as one association and one outcome; `Moves` says what
becomes of a track in it: matched, started, lost, dropped unconfirmed, still lost, given up, or
left alone. `TrackInvariant` adds that a number not yet given has no track (`FreshUnused`), that
tracked tracks were all matched in this frame, to different detections (`SeenNow`), how start,
last frame and confirmation relate (`LifeSoFar`) and what is reported (`Reported`).
`OwnDetection` follows the columns through the three rounds. That every fresh detection
starts one track (`RanksTaken`) is an induction over a finite set, done by its least
counterexample: `LeastSubset` and `LeastNatural` follow from the library's facts about
well-founded relations without an operator as a parameter.

**Association.** `AssignmentIsOptimal`, for a matrix of any shape, any costs and any `max_cost`;
`TracksAreSound` has it for the suite. The argument is linear-programming duality. The
inductive invariant `AssignmentInvariant` says, at every step of the three loops, that no reduced
cost is negative (`Feasible`), that the pairs of the matching have reduced cost zero (`Tight`), and
that no column has a positive price and a free one has none (`Prices`); that each row inserted so
far has one column, where the root stands for the row being inserted and the end of the path for
none (`Placed`); that the columns of the tree were reached over pairs of reduced cost zero, in the
order of a rank (`TreeSoFar`), so that the path back ends; and that `minv` is the least reduced
cost from the tree and `way` says from where (`SlackSoFar`). When all rows are inserted the sum of
the potentials is the cost of the matching and no more than the cost of any other
(`NoneCheaper`, `OptimalInTheEnd`). That a sum over rows is compared with a sum over columns term
by term needs finite sums, an induction; `Induction` does it by least counterexample, for sums
stated as functions with a recurrence (`IsSum`, `SumExists`, `PartsOfSums`).

**Gallery match.** `MatchesAreBest`, for any galleries and any history of replacements, refused
replacements and queries. The lemmas follow the code: a set of identities sorted by rank is
increasing and complete (`GroupedSorted`, from `RankGrows`), `lower_bound` finds the place of
an identity that is there (`LowerBoundFinds`), the scan knows after each place the best so far
and the best of the others (`ScanStep`, `Scanned`), and the best over the rows of one identity,
of all and of the others are what `match` answers (`BestOver`, `MatchStep`). `GalleryAsGiven` makes
`InstalledAsAWhole` inductive: what the matcher holds was computed from the gallery that was
accepted. The scan is a recursive function; that it exists and what it returns are shown for the
least length at which they could fail.

**Alignment.** `AlignmentIsSound`, for landmarks of any whole coordinates, any templates alike
and any bound on the error; `FacesAreSound` has it for the suite. The steps are:

* *Fractions.* `Is(x, n, d)` says that `x` is the reduced form of `n / d`. A reduced fraction is
  unique, because numerator and denominator have a combination that is 1 (`Euclid`, an
  induction over the second argument of `gcd`), so two numbers are equal when they are reduced
  forms of the same quotient (`IsOne`), and each operation is known by its numerators (`AddIs` to
  `NegIs`).
* *Elimination.* The state of `solve4` before each column and at the end has a closed form in seven
  sums over the landmarks and the template (`State1` to `State5`). Each turn takes one state to the
  next (`Turn1` to `Turn4`); in each the largest element of the column is on the diagonal and is
  not zero once the eyes are apart (`Pivot1` to `Pivot4`, `LandmarkSizes`). So `solve4` does not throw on a
  face that got past the check of the eyes. The last state is the textbook solution
  (`SolvedIsFit`, `ClosedFormIsFit`).
* *Error.* What `quality()` measures is `Miss` over the squared determinant (`ErrorIs`). If it is
  below the bound and the landmarks had no correlation with the other template, the
  Cauchy-Schwarz inequality would make the common part of the two templates shorter than the
  bound, against `TemplatesAlike` (`SmallErrorCorrelates`). So the scale that the models divide by is
  not zero.
* *Inverse.* `InverseIsInverse` multiplies the two transforms out.

`AlignInvariant` carries this through the three estimates: the state of the elimination is the
one for the column, a fit that was found is the fit, and after `quality()` the landmarks passed
it. A by-product: with whole coordinates the pivot is always on the diagonal, so the exchange of
rows in `solve4` never moves anything. In pixels another row could be taken only when
coordinates are not whole; in exact arithmetic the solution would be the same. What
is not shown is the effect of rounding and of the code's tolerances.

## 6. Only model-checked

* The liveness properties: `OutboxDrains`, `PendingResolved`, `Converges`, `BlockedLifts`,
  `StartTerminates`, `FailureSurfaces`, `StopTerminatesIfBlocked`, `SteadyFaceDecided`, and
  the parts of `EverythingEnds`. The prover does not handle fairness.

Every invariant and every action property of the runs is a theorem.

## 7. Not modelled

* **Shaders, inference, the Kalman filter, the overlap of boxes in tracking**: floating-point
  arithmetic over images and covariances. What the models need of them is an arbitrary
  value: any detection, any association, any embedding, any vote.
* **Identifiers and embeddings** (`domain/uuid_v7.cpp`, `domain/gallery_snapshot.cpp`): pure
  functions over random bytes and floats; identifiers are taken to be distinct.
* **JSON**: which fields a document has and how a wrong one is reported. The models have
  the outcomes: valid, refused, of another device or model.
* **The reported low-light status and the DirectShow COM calls**: the setting is written and
  confirmed, or the write fails and the driver has any value (`WriteLegacy`).
* **Numbers out of range in the preprocessors**: `FacesSound` is about the two estimates of a
  face that passes `quality()`; that the liveness preprocessor also refuses a transform with
  huge entries (`liveness/gpu_preprocessor.cpp:474-486`) is not modelled.
* **Operating system and libraries**: DPAPI, access-control calls, SQLite's own atomicity,
  the HTTP client, Media Foundation's frame pool, Direct3D. They are external definitions
  with the outcomes the code distinguishes. A power loss, after which a flushed file may
  be empty, is outside the models.
* **A `Retry-After` of ten digits**, a pause of three centuries that is stored and only
  ever raised: the value is the server's, and no limit is documented.
* **Memory**: the list of removed tracks grows while the client runs, and a constructor that
  throws after `CreateSharedHandle` leaks the handle until the process ends.
* **Development tools** (`tools/ta_demo`, `scrfd_probe`, `camera_probe`, the benchmarks): no
  part of the deployed client.

## 8. Running

    tlc -workers 2 -config AttendanceDelivery_safety.cfg MCAttendanceDelivery
    tlc -workers 2 -config EdgeSuite.cfg EdgeSuite
    tlapm AttendanceDeliveryProofs.tla

and likewise for the other configurations and proof modules.

## 9. Plan

Modelled and checked: everything in section 2. Proved: section 5, which is every safety property
of the runs. Left, in this order:

1. A composition of delivery and gallery that shares `blocked_`.
2. The effect of rounding on the alignment, which needs a model of floating-point numbers.
