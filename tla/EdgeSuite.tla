------------------------------ MODULE EdgeSuite ------------------------------
(***************************************************************************)
(* Small instances of the modules around the synchronisation: the threads  *)
(* and what they share (SyncThreads), the operational channel              *)
(* (DeviceChannel), the payloads and receipts of the upload (WireFormat),  *)
(* a request (HttpRequest), the credential file (CredentialFile), the      *)
(* opening of the database (DatabaseUpgrade) and the files the process is  *)
(* bound to (ModelBinding).                                                *)
(* At the level these modules look at they share no state, so one run      *)
(* examines them side by side: `component' says whose behaviour is being   *)
(* explored, and the variables of the others stay Asleep.                     *)
(***************************************************************************)
EXTENDS Integers, Sequences, TLC

CONSTANTS
    Asleep, None,
    Workload,                                     \* SyncThreads
    Tokens, OutboxEvents, ConnectTimeout, SendTimeout, AckLimit, ReportEvery,
    StableAfter, BaseDelay, MaxShift, MaxFlaps,   \* DeviceChannel
    Devices, MaxEvents, BatchLimit, MaxAttempts, MaxFaults,   \* WireFormat
    Timeout, BodyLimit, MaxBuffer, Statuses, RetryAfters, Bodies,  \* HttpRequest
    Writers, Readers, MaxCalls,                   \* CredentialFile
    Openers, Rows, LastTime,                      \* DatabaseUpgrade
    Models, Reports, MaxChanges                   \* ModelBinding

VARIABLES
    component,
    \* SyncThreads
    owner, alive, stop, ch, conn_closed, hello, wk, wake, refs, net, cb,
    refresh, auth, auth_refused, dirty, uncommitted, blocked, reload,
    runtime, threw, raced,
    \* DeviceChannel
    channel_pc, current, token, closed, silent, up, due, left, failures,
    pending, dead_letter, counts, old, flaps, waited, kept,
    \* WireFormat
    device, of, queue, dead, attempts, pause, sent, stored, refused, posted,
    unreadable, faults,
    \* HttpRequest
    has_token, http_pc, now, deadline, until, answer, arrived, cut, response,
    \* CredentialFile
    file, temp, private, linked, w, calls, r, installed, overlap, seen,
    \* DatabaseUpgrade
    disk, work, lock, upgrade_pc, v, first,
    \* ModelBinding
    arcface, pad, report, gallery, binding_pc, command, config, hash, loaded,
    matcher_model, stale, changes

threadsVars == <<owner, alive, stop, ch, conn_closed, hello, wk, wake, refs,
                 net, cb, refresh, auth, auth_refused, dirty, uncommitted,
                 blocked, reload, runtime, threw, raced>>
channelVars == <<channel_pc, current, token, closed, silent, up, due, left,
                 failures, pending, dead_letter, counts, old, flaps, waited,
                 kept>>
wireVars == <<device, of, queue, dead, attempts, pause, sent, stored,
              refused, posted, unreadable, faults>>
httpVars == <<has_token, http_pc, now, deadline, until, answer, arrived, cut,
              response>>
credentialVars == <<file, temp, private, linked, w, calls, r, installed,
                    overlap, seen>>
upgradeVars == <<disk, work, lock, upgrade_pc, v, first>>
bindingVars == <<arcface, pad, report, gallery, binding_pc, command, config,
                 hash, loaded, matcher_model, stale, changes>>
vars == <<component, threadsVars, channelVars, wireVars, httpVars,
          credentialVars, upgradeVars, bindingVars>>

-----------------------------------------------------------------------------
Threads == INSTANCE SyncThreads
  WITH closed <- conn_closed, refused <- auth_refused,
       pending <- uncommitted

\* The credentials an operator rotates are alike.
Alike == Permutations(Tokens)

Chan == INSTANCE DeviceChannel
  WITH pc <- channel_pc, dead <- dead_letter, report <- counts,
       Events <- OutboxEvents

Wire == INSTANCE WireFormat

Http == INSTANCE HttpRequest
  WITH token <- has_token, pc <- http_pc, sent <- arrived, out <- response,
       Limit <- BodyLimit

\* Bodies that stay below the limit of the run, reach it and pass it.
SomeBodies == {<<>>, <<1>>, <<1, 2, 3>>, <<1, 2, 3, 4>>}

Credential == INSTANCE CredentialFile

Upgrade == INSTANCE DatabaseUpgrade WITH pc <- upgrade_pc, NoRow <- None

Binding == INSTANCE ModelBinding
  WITH pc <- binding_pc, installed <- matcher_model

ASSUME ThreadsAssumption == Threads!WorkloadAssumption
ASSUME ChannelAssumption == Chan!ChannelAssumption
ASSUME WireAssumption == Wire!WireAssumption
ASSUME RequestAssumption == Http!RequestAssumption
ASSUME CredentialAssumption == Credential!CallsAssumption
ASSUME UpgradeAssumption == Upgrade!UpgradeAssumption
ASSUME BindingAssumption == Binding!BindingAssumption

-----------------------------------------------------------------------------
ThreadsOff ==
    /\ owner = Asleep /\ alive = Asleep /\ stop = Asleep /\ ch = Asleep
    /\ conn_closed = Asleep /\ hello = Asleep /\ wk = Asleep /\ wake = Asleep
    /\ refs = Asleep /\ net = Asleep /\ cb = Asleep /\ refresh = Asleep /\ auth = Asleep
    /\ auth_refused = Asleep /\ dirty = Asleep /\ uncommitted = Asleep
    /\ blocked = Asleep /\ reload = Asleep /\ runtime = Asleep /\ threw = Asleep
    /\ raced = Asleep
ChanOff ==
    /\ channel_pc = Asleep /\ current = Asleep /\ token = Asleep /\ closed = Asleep
    /\ silent = Asleep /\ up = Asleep /\ due = Asleep /\ left = Asleep /\ failures = Asleep
    /\ pending = Asleep /\ dead_letter = Asleep /\ counts = Asleep /\ old = Asleep
    /\ flaps = Asleep /\ waited = Asleep /\ kept = Asleep
WireOff ==
    /\ device = Asleep /\ of = Asleep /\ queue = Asleep /\ dead = Asleep
    /\ attempts = Asleep /\ pause = Asleep /\ sent = Asleep /\ stored = Asleep
    /\ refused = Asleep /\ posted = Asleep /\ unreadable = Asleep /\ faults = Asleep
HttpOff ==
    /\ has_token = Asleep /\ http_pc = Asleep /\ now = Asleep /\ deadline = Asleep
    /\ until = Asleep /\ answer = Asleep /\ arrived = Asleep /\ cut = Asleep
    /\ response = Asleep
CredentialOff ==
    /\ file = Asleep /\ temp = Asleep /\ private = Asleep /\ linked = Asleep /\ w = Asleep
    /\ calls = Asleep /\ r = Asleep /\ installed = Asleep /\ overlap = Asleep
    /\ seen = Asleep
UpgradeOff ==
    /\ disk = Asleep /\ work = Asleep /\ lock = Asleep /\ upgrade_pc = Asleep /\ v = Asleep
    /\ first = Asleep
BindingOff ==
    /\ arcface = Asleep /\ pad = Asleep /\ report = Asleep /\ gallery = Asleep
    /\ binding_pc = Asleep /\ command = Asleep /\ config = Asleep /\ hash = Asleep
    /\ loaded = Asleep /\ matcher_model = Asleep /\ stale = Asleep /\ changes = Asleep

Init ==
    /\ component \in {"threads", "channel", "wire", "http", "credential",
                     "upgrade", "binding"}
    /\ IF component = "threads" THEN Threads!Init ELSE ThreadsOff
    /\ IF component = "channel" THEN Chan!Init ELSE ChanOff
    /\ IF component = "wire" THEN Wire!Init ELSE WireOff
    /\ IF component = "http" THEN Http!Init ELSE HttpOff
    /\ IF component = "credential" THEN Credential!Init ELSE CredentialOff
    /\ IF component = "upgrade" THEN Upgrade!Init ELSE UpgradeOff
    /\ IF component = "binding" THEN Binding!Init ELSE BindingOff

Next ==
    /\ \/ /\ component = "threads" /\ Threads!Next
          /\ UNCHANGED <<channelVars, wireVars, httpVars, credentialVars,
                         upgradeVars, bindingVars>>
       \/ /\ component = "channel" /\ Chan!Next
          /\ UNCHANGED <<threadsVars, wireVars, httpVars, credentialVars,
                         upgradeVars, bindingVars>>
       \/ /\ component = "wire" /\ Wire!Next
          /\ UNCHANGED <<threadsVars, channelVars, httpVars, credentialVars,
                         upgradeVars, bindingVars>>
       \/ /\ component = "http" /\ Http!Next
          /\ UNCHANGED <<threadsVars, channelVars, wireVars, credentialVars,
                         upgradeVars, bindingVars>>
       \/ /\ component = "credential" /\ Credential!Next
          /\ UNCHANGED <<threadsVars, channelVars, wireVars, httpVars,
                         upgradeVars, bindingVars>>
       \/ /\ component = "upgrade" /\ Upgrade!Next
          /\ UNCHANGED <<threadsVars, channelVars, wireVars, httpVars,
                         credentialVars, bindingVars>>
       \/ /\ component = "binding" /\ Binding!Next
          /\ UNCHANGED <<threadsVars, channelVars, wireVars, httpVars,
                         credentialVars, upgradeVars>>
    /\ UNCHANGED component

Spec == Init /\ [][Next]_vars

-----------------------------------------------------------------------------
(* The parts of a property are those of the modules, where each is         *)
(* explained; a property here says what they come to for a component.      *)

\* ThreadsSound: from the start of the threads to the end of run, nothing is
\* used after the owner destroyed it, no hint is slept through unless the last
\* step threw, a stop is missed only between test and wait, and the state of
\* the owner that the channel reports is blocked persistence, a gallery that
\* could not be installed, or running, as the owner's two flags say.
ThreadsSound ==
    component = "threads" =>
        /\ Threads!NoUseAfterFree
        /\ Threads!HintNotSleptThrough
        /\ Threads!StopMissedOnlyInRace
        /\ Threads!StatusTruthful
        /\ Threads!TypeOK

\* ChannelSound: DeviceChannel gives up a silent connection and one whose
\* credential was replaced in bounded time, makes connections that do not last
\* at growing intervals, and the two queue counts of a report are together no
\* fewer than the events that stayed unresolved while they were taken.
ChannelSound ==
    component = "channel" =>
        /\ Chan!SilenceNoticed
        /\ Chan!RotationNoticed
        /\ Chan!FlappingBacksOff
        /\ Chan!NothingUncounted
        /\ Chan!TypeOK

\* BatchesSound: whatever receipts step is given and however the device id
\* changes, an event is posted under the device that captured it, none is
\* dropped, and none is set aside that was not refused.
BatchesSound ==
    component = "wire" =>
        /\ Wire!OwnDeviceOnly
        /\ Wire!NeverDropped
        /\ Wire!SetAsideForAReason
        /\ Wire!TypeOK

\* RequestSound: Http::request ends by its one deadline, whatever it waits
\* for; status and Retry-After of an error survive a body that fails, and a
\* success has its whole body, within the limit.
RequestSound ==
    component = "http" =>
        /\ Http!ErrorPolicyKept
        /\ Http!WholeBodyOrThrow
        /\ Http!OneDeadline
        /\ Http!TypeOK

\* FilesSound: whatever call fails and whichever process is killed,
\* protect_token loses no credential, tears one only against another writer
\* and writes it to a private file, and a reader gets a token that was there;
\* the version of the database tells its tables, its migration keeps the
\* longest pause, and who has opened it finds the current version.
FilesSound ==
    /\ component = "credential" =>
        /\ Credential!NeverLost
        /\ Credential!TornOnlyByOverlap
        /\ Credential!ReaderSound
        /\ Credential!SecretsPrivate
        /\ Credential!TypeOK
    /\ component = "upgrade" =>
        /\ Upgrade!VersionMatchesTables
        /\ Upgrade!PausesCarried
        /\ Upgrade!OpenMeansCurrent
        /\ Upgrade!TypeOK

\* ModelsSound: with files exchanged and galleries imported by other runs, the
\* matcher holds a gallery of the model that embeds the faces, a deployment
\* runs the models its calibration report was made for, and parse_gallery
\* stores no gallery of another model than the active one.
ModelsSound ==
    /\ [](component = "binding" =>
            /\ Binding!SameModel
            /\ Binding!EvidenceHolds)
    /\ [][component = "binding" => Binding!GalleryForModel]_vars
=============================================================================
