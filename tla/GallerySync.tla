----------------------------- MODULE GallerySync -----------------------------
(***************************************************************************)
(* How a new gallery reaches the matcher: the gallery half of SyncService, *)
(* GallerySync and GalleryRepository on the sync worker, the reconcile     *)
(* hints of the operational channel, and the owner loop of                 *)
(* EdgeApplication::run, which installs what the worker has stored.        *)
(*                                                                         *)
(* A gallery is its version number (its etag follows the version), 0 for   *)
(* none.  Time is relative: `wait' is what is left until gallery_due_, so  *)
(* that polling can go on for ever.                                        *)
(***************************************************************************)
EXTENDS RetryPolicy

CONSTANTS
    MaxVersions,     \* bound: galleries the server publishes
    MaxCredentials,  \* bound: credentials provisioned
    Poll,            \* the polling interval, 60000 ms in the code
    MaxAttempts,     \* cap of gallery_attempts_, 30 in the code
    Headers,         \* Retry-After headers the server may send
    MaxFaults        \* bound: failures, refusals and restarts

ASSUME GalleryAssumption ==
    /\ MaxVersions \in Nat \ {0} /\ MaxCredentials \in Nat \ {0}
    /\ Poll \in Nat /\ MaxAttempts \in Nat \ {0} /\ MaxFaults \in Nat
    /\ Headers \subseteq Header

VARIABLES
    server,      \* external: the version the server offers
    credential,  \* the credential file
    connected,   \* the operational channel has an authenticated connection
    authConn,    \* SyncService::authenticated_connection_
    refresh,     \* SyncService::refresh_requested_
    token,       \* SyncService::token_, 0 before the first step
    blocked,     \* SyncService::blocked_
    restored,    \* history: a new connection since the block, or a hint
                 \* while its request was under way
    step,        \* where the worker is in SyncService::step
    wait,        \* GallerySync::gallery_due_, relative to now
    attempts,    \* GallerySync::gallery_attempts_
    old,         \* the metadata read before the request
    got,         \* the snapshot of a valid answer
    dirty,       \* GallerySync::dirty_
    stored,      \* gallery_state: the version in the database
    unsure,      \* history: a replace took effect but reported a failure
    owner,       \* where the owner is in the loop of run
    reload,      \* gallery_reload
    hold,        \* gallery_retry_due is not reached yet
    snapshot,    \* the version refresh_gallery has loaded
    installed,   \* the version in the matcher
    faults

channelVars == <<server, credential, connected>>
gateVars    == <<token, blocked, restored>>
hintVars    == <<authConn, refresh>>
pollVars    == <<wait, attempts, old, got>>
dbVars      == <<stored, unsure>>
ownerVars   == <<owner, reload, hold, snapshot, installed>>
vars == <<channelVars, gateVars, hintVars, step, pollVars, dirty, dbVars,
          ownerVars, faults>>

TypeOK ==
    /\ server \in 1..MaxVersions /\ credential \in 1..MaxCredentials
    /\ connected \in BOOLEAN /\ authConn \in BOOLEAN /\ refresh \in BOOLEAN
    /\ token \in 0..MaxCredentials
    /\ blocked \in BOOLEAN /\ restored \in BOOLEAN
    /\ step \in {"idle", "attendance", "asking", "replacing", "committed"}
    /\ wait \in Nat /\ attempts \in 0..MaxAttempts
    /\ old \in 0..MaxVersions /\ got \in 0..MaxVersions
    /\ dirty \in BOOLEAN
    /\ stored \in 0..MaxVersions /\ unsure \in BOOLEAN
    /\ owner \in {"loop", "loading", "installing"}
    /\ reload \in BOOLEAN /\ hold \in BOOLEAN
    /\ snapshot \in 0..MaxVersions /\ installed \in 0..MaxVersions
    /\ faults \in 0..MaxFaults

Init ==
    /\ server = 1 /\ credential = 1 /\ connected = FALSE
    /\ authConn = FALSE /\ refresh = FALSE
    /\ token = 0 /\ blocked = FALSE /\ restored = FALSE
    /\ step = "idle" /\ wait = 0 /\ attempts = 0 /\ old = 0 /\ got = 0
    /\ dirty = FALSE /\ stored = 0 /\ unsure = FALSE
    /\ owner = "loop" /\ reload = FALSE /\ hold = FALSE
    /\ snapshot = 0 /\ installed = 0
    /\ faults = 0

Fault == faults < MaxFaults /\ faults' = faults + 1

-----------------------------------------------------------------------------
(***************************************************************************)
(* The server, the operator and the operational channel.                   *)
(***************************************************************************)

PublishGallery ==
    /\ server < MaxVersions
    /\ server' = server + 1
    /\ UNCHANGED <<credential, connected, gateVars, hintVars, step, pollVars,
                   dirty, dbVars, ownerVars, faults>>

RotateCredential ==
    /\ credential < MaxCredentials
    /\ credential' = credential + 1
    /\ UNCHANGED <<server, connected, gateVars, hintVars, step, pollVars, dirty,
                   dbVars, ownerVars, faults>>

\* request_gallery_refresh(true), called by the channel.
Hint == authConn' = TRUE /\ refresh' = TRUE

\* The channel authenticates a new connection and reconciles at once.
Connect ==
    /\ ~connected
    /\ connected' = TRUE
    /\ Hint
    /\ restored' = TRUE
    /\ UNCHANGED <<server, credential, token, blocked, step, pollVars, dirty,
                   dbVars, ownerVars, faults>>

\* A reconcile message on the connection there is.
Reconcile ==
    /\ connected
    /\ Hint
    /\ UNCHANGED <<channelVars, gateVars, step, pollVars, dirty, dbVars,
                   ownerVars, faults>>

Disconnect ==
    /\ connected
    /\ connected' = FALSE
    /\ UNCHANGED <<server, credential, gateVars, hintVars, step, pollVars,
                   dirty, dbVars, ownerVars, faults>>

-----------------------------------------------------------------------------
(***************************************************************************)
(* The sync worker.                                                        *)
(***************************************************************************)

\* Mutant: the flag of a new connection is read after the test of blocked_.
StepBegin_TestsFirst ==
    LET changed == credential # token
        held    == blocked /\ ~changed
    IN /\ step = "idle"
       /\ token' = credential
       /\ blocked' = held
       /\ authConn' = (authConn /\ held)
       /\ refresh' = (refresh /\ held)
       /\ wait' = IF changed \/ (refresh /\ ~held /\ attempts = 0)
                    THEN 0 ELSE wait
       /\ step' = IF held THEN "idle" ELSE "attendance"
       /\ UNCHANGED <<channelVars, restored, attempts, old, got, dirty, dbVars,
                      ownerVars, faults>>

\* Mutant: a hint shortens the failure backoff too.
StepBegin_HintsBypass ==
    LET changed == credential # token
        held    == blocked /\ ~changed /\ ~authConn
    IN /\ step = "idle"
       /\ token' = credential
       /\ blocked' = held
       /\ authConn' = FALSE
       /\ refresh' = (refresh /\ held)
       /\ wait' = IF changed \/ (refresh /\ ~held) THEN 0 ELSE wait
       /\ step' = IF held THEN "idle" ELSE "attendance"
       /\ UNCHANGED <<channelVars, restored, attempts, old, got, dirty, dbVars,
                      ownerVars, faults>>

\* set_token with the credential on disk, then the head of SyncService::step:
\* a changed credential or a hint of the channel lifts the block; a hint
\* shortens the polling interval but no failure backoff.
StepBegin ==
    LET changed == credential # token
        held    == blocked /\ ~changed /\ ~authConn
    IN /\ step = "idle"
       /\ token' = credential
       /\ blocked' = held
       /\ authConn' = FALSE
       /\ refresh' = (refresh /\ held)
       /\ wait' = IF changed \/ (refresh /\ ~held /\ attempts = 0)
                    THEN 0 ELSE wait
       /\ step' = IF held THEN "idle" ELSE "attendance"
       /\ UNCHANGED <<channelVars, restored, attempts, old, got, dirty, dbVars,
                      ownerVars, faults>>

\* Uploading attendance is over; the gallery is asked for when it is due.
AttendanceDone ==
    /\ step = "attendance"
    /\ IF wait > 0
         THEN step' = "idle" /\ UNCHANGED old
         ELSE step' = "asking" /\ old' = stored
    /\ UNCHANGED <<channelVars, gateVars, hintVars, wait, attempts, got, dirty,
                   dbVars, ownerVars, faults>>

\* Uploading attendance, or reading the metadata of the stored gallery, ended
\* with a StorageError.
AttendanceThrows ==
    /\ step = "attendance"
    /\ step' = "idle"
    /\ Fault
    /\ UNCHANGED <<channelVars, gateVars, hintVars, pollVars, dirty, dbVars,
                   ownerVars>>

\* 401 or 403, to the attendance batch or to the gallery request.  A hint that
\* came while the request was under way is still to be taken, and counts as
\* news of what the refusal is about.
Refused ==
    /\ step \in {"attendance", "asking"}
    /\ step' = "idle"
    /\ blocked' = TRUE /\ restored' = authConn
    /\ Fault
    /\ UNCHANGED <<channelVars, token, hintVars, pollVars, dirty, dbVars,
                   ownerVars>>

\* 304 to the etag of a gallery that is stored.
NotModified ==
    /\ step = "asking" /\ old = server
    /\ wait' = Poll /\ attempts' = 0
    /\ step' = "idle"
    /\ UNCHANGED <<channelVars, gateVars, hintVars, old, got, dirty, dbVars,
                   ownerVars, faults>>

\* 200 with a valid snapshot.
Fetched ==
    /\ step = "asking" /\ old # server
    /\ got' = server
    /\ step' = "replacing"
    /\ UNCHANGED <<channelVars, gateVars, hintVars, wait, attempts, old, dirty,
                   dbVars, ownerVars, faults>>

\* Mutant: the attempt counter is not capped.
PollFails_Uncapped(header, jitter) ==
    /\ step = "asking"
    /\ wait' = RetryAt(0, attempts, header, jitter)
    /\ attempts' = attempts + 1
    /\ step' = "idle"
    /\ Fault
    /\ UNCHANGED <<channelVars, gateVars, hintVars, old, got, dirty, dbVars,
                   ownerVars>>

\* No answer, another status, an invalid snapshot, or 304 without a gallery.
PollFails(header, jitter) ==
    /\ step = "asking"
    /\ wait' = RetryAt(0, attempts, header, jitter)
    /\ attempts' = Lesser(attempts + 1, MaxAttempts)
    /\ step' = "idle"
    /\ Fault
    /\ UNCHANGED <<channelVars, gateVars, hintVars, old, got, dirty, dbVars,
                   ownerVars>>

\* GalleryRepository::replace, one transaction.  When it throws, the step ends
\* without a new due time and without the dirty flag, even if the COMMIT took
\* effect.
Replace(tx) ==
    /\ step = "replacing"
    /\ IF tx = "ok" THEN UNCHANGED faults ELSE Fault
    /\ stored' = IF tx = "failed" THEN stored ELSE got
    /\ unsure' = IF tx = "failed" THEN unsure ELSE tx = "uncertain"
    /\ step' = IF tx = "ok" THEN "committed" ELSE "idle"
    /\ UNCHANGED <<channelVars, gateVars, hintVars, pollVars, dirty, ownerVars>>

\* The rest of the step after a successful replace.
Replaced ==
    /\ step = "committed"
    /\ dirty' = TRUE
    /\ wait' = Poll /\ attempts' = 0
    /\ step' = "idle"
    /\ UNCHANGED <<channelVars, gateVars, hintVars, old, got, dbVars,
                   ownerVars, faults>>

-----------------------------------------------------------------------------
(***************************************************************************)
(* The owner thread, between two frames and with no event pending.         *)
(***************************************************************************)

\* Mutant: a reload that failed waits for the next gallery.
TakeDirty_NotRetried ==
    /\ owner = "loop" /\ dirty
    /\ dirty' = FALSE /\ reload' = TRUE
    /\ owner' = IF hold THEN "loop" ELSE "loading"
    /\ UNCHANGED <<channelVars, gateVars, hintVars, step, pollVars, dbVars,
                   hold, snapshot, installed, faults>>

\* take_gallery_dirty, and the reload if its retry time has come.
TakeDirty ==
    /\ owner = "loop" /\ (dirty \/ (reload /\ ~hold))
    /\ dirty' = FALSE /\ reload' = TRUE
    /\ owner' = IF hold THEN "loop" ELSE "loading"
    /\ UNCHANGED <<channelVars, gateVars, hintVars, step, pollVars, dbVars,
                   hold, snapshot, installed, faults>>

\* GalleryRepository::load.
Load ==
    /\ owner = "loading"
    /\ snapshot' = stored
    /\ owner' = "installing"
    /\ UNCHANGED <<channelVars, gateVars, hintVars, step, pollVars, dirty,
                   dbVars, reload, hold, installed, faults>>

\* Mutant: the dirty flag is cleared once the gallery is installed.
Install_ClearsDirty ==
    /\ owner = "installing"
    /\ installed' = snapshot /\ reload' = FALSE /\ dirty' = FALSE
    /\ owner' = "loop"
    /\ UNCHANGED <<channelVars, gateVars, hintVars, step, pollVars, dbVars,
                   hold, snapshot, faults>>

Install ==
    /\ owner = "installing"
    /\ installed' = snapshot /\ reload' = FALSE
    /\ owner' = "loop"
    /\ UNCHANGED <<channelVars, gateVars, hintVars, step, pollVars, dirty,
                   dbVars, hold, snapshot, faults>>

\* Loading or installing throws: the matcher keeps its gallery, and the owner
\* tries again in five seconds.
InstallFails ==
    /\ owner \in {"loading", "installing"}
    /\ owner' = "loop" /\ hold' = TRUE
    /\ Fault
    /\ UNCHANGED <<channelVars, gateVars, hintVars, step, pollVars, dirty,
                   dbVars, reload, snapshot, installed>>

\* The five seconds are over.
RetryDue ==
    /\ hold
    /\ hold' = FALSE
    /\ UNCHANGED <<channelVars, gateVars, hintVars, step, pollVars, dirty,
                   dbVars, owner, reload, snapshot, installed, faults>>

\* The process ends at any point and starts again with what is stored.
Restart ==
    /\ token' = 0 /\ blocked' = FALSE /\ restored' = FALSE
    /\ connected' = FALSE /\ authConn' = FALSE /\ refresh' = FALSE
    /\ step' = "idle" /\ wait' = 0 /\ attempts' = 0 /\ old' = 0 /\ got' = 0
    /\ dirty' = FALSE
    /\ owner' = "loop" /\ reload' = FALSE /\ hold' = FALSE
    /\ snapshot' = stored /\ installed' = stored
    /\ unsure' = FALSE
    /\ Fault
    /\ UNCHANGED <<server, credential, stored>>

Tick ==
    /\ wait > 0
    /\ wait' = wait - 1
    /\ UNCHANGED <<channelVars, gateVars, hintVars, step, attempts, old, got,
                   dirty, dbVars, ownerVars, faults>>

Worker ==
    \/ StepBegin
    \/ AttendanceDone \/ AttendanceThrows \/ Refused
    \/ NotModified \/ Fetched
    \/ \E h \in Headers, j \in 0..MaxJitter : PollFails(h, j)
    \/ \E tx \in {"ok", "failed", "uncertain"} : Replace(tx)
    \/ Replaced

Owner == TakeDirty \/ Load \/ Install \/ InstallFails

Channel == Connect \/ Reconcile \/ Disconnect

Next ==
    \/ Worker \/ Owner \/ Channel
    \/ PublishGallery \/ RotateCredential \/ Restart \/ Tick \/ RetryDue

(***************************************************************************)
(* The worker steps at least once a second, the owner loop turns at least  *)
(* once a second, and time passes.  No fairness on the channel or the      *)
(* operator.                                                               *)
(***************************************************************************)
Fairness ==
    /\ WF_vars(Worker) /\ WF_vars(Owner) /\ WF_vars(Tick) /\ WF_vars(RetryDue)

Spec == Init /\ [][Next]_vars

FairSpec == Spec /\ Fairness

-----------------------------------------------------------------------------
(***************************************************************************)
(* Properties.                                                             *)
(***************************************************************************)

\* The matcher never stays behind the database unnoticed: a newer stored
\* gallery is announced or about to be, unless the COMMIT that stored it
\* reported a failure.
StaleIsFlagged ==
    installed # stored => dirty \/ reload \/ step = "committed" \/ unsure

\* After a failed request, only a new credential (or a new process) brings
\* the next one forward; no hint of the server does.
HintsKeepBackoff ==
    [][attempts > 0 /\ wait' + 1 < wait => token' # token]_vars

\* With hints or without, the matcher ends up with the gallery the server
\* offers, unless access is refused or a COMMIT reported a false failure.
Converges == <>[](blocked \/ unsure \/ installed = server)

\* A new connection of the channel lifts the block.
BlockedLifts == (blocked /\ authConn) ~> ~blocked

\* Requests stay paused after 401/403 until the credential changes or a newly
\* authenticated connection is made (a restart aside, and a hint of any kind
\* that came while the refused request was under way).
UnblockOnlyRestored ==
    [][blocked /\ ~blocked' => restored \/ token' # token]_vars

\* "Reconnect also reconciles missed changes": while access is granted, hints
\* that keep coming bring the matcher to the gallery the server offers.
ReconnectReconciles ==
    <>[](~blocked) /\ []<>(authConn) => <>[](installed = server)
=============================================================================
