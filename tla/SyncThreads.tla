----------------------------- MODULE SyncThreads -----------------------------
(***************************************************************************)
(* The threads of the synchronisation and their end: the owner loop        *)
(* (edge_app/app/edge_application.cpp), the sync worker                    *)
(* (sync/sync_worker.cpp), the operational device channel                  *)
(* (sync/device_channel.cpp) and the callbacks of the network watcher      *)
(* (sync/network_watcher.cpp), with the objects they share.                *)
(*                                                                         *)
(* A condition wait is two steps, the test of the predicate under the      *)
(* mutex and the block: the destructors notify without the mutex and can   *)
(* fall in between.  The length of a delay is left out: a timed wait ends  *)
(* some time.                                                              *)
(***************************************************************************)
EXTENDS Naturals

CONSTANT
    Workload   \* what happens of "events", "galleries" and "refusals"

WorkloadAssumption ==
    Workload \subseteq {"events", "galleries", "refusals"}

VARIABLES
    owner,     \* the owner: "loop", or where it is in the teardown
    alive,     \* the objects that exist, of "channel", "worker", "sync"
    stop,      \* the stop tokens of the two jthreads
    ch,        \* the channel's thread
    closed,    \* Connection::closed
    hello,     \* Connection::reconcile
    wk,        \* the sync worker's thread
    wake,      \* Signal::wake
    refs,      \* strong references to the Signal
    net,       \* the network watcher is subscribed
    cb,        \* the network callback: "idle", "entered" or "locked"
    refresh,   \* SyncService::refresh_requested_
    auth,      \* SyncService::authenticated_connection_
    refused,   \* SyncService::blocked_: the backend refused the credential
    dirty,     \* GallerySync::dirty_
    pending,   \* the coordinator holds uncommitted events
    blocked,   \* persistence_blocked
    reload,    \* gallery_reload
    runtime,   \* the runtime state the channel reports
    threw,     \* history: the worker's last step threw
    raced      \* history: threads notified between their test and their wait

objectVars  == <<alive, refs, net>>
channelVars == <<ch, closed, hello>>
workerVars  == <<wk, threw>>
ownerVars   == <<pending, blocked, reload, runtime>>
syncVars    == <<refresh, auth, refused>>
vars == <<owner, objectVars, stop, channelVars, workerVars, wake, cb,
          syncVars, dirty, ownerVars, raced>>

Init ==
    /\ owner = "loop" /\ alive = {"channel", "worker", "sync"}
    /\ stop = [t \in {"channel", "worker"} |-> FALSE]
    /\ ch = "top" /\ closed = FALSE /\ hello = FALSE
    /\ wk = "top" /\ wake = FALSE /\ threw = FALSE
    /\ refs = 1 /\ net \in BOOLEAN /\ cb = "idle"   \* subscribing may fail
    /\ refresh = FALSE /\ auth = FALSE /\ refused = FALSE /\ dirty = FALSE
    /\ pending = FALSE /\ blocked = FALSE /\ reload = FALSE
    /\ runtime = "running" /\ raced = {}

\* Whoever takes a mutex waits for a thread between its test and its wait.
SignalFree == wk # "tested"
StateFree  == ch \notin {"tested", "backoffTested"}

\* Signal::wake is set and the worker notified.
Notified(pc) == IF pc = "blocked" THEN "woken" ELSE pc

-----------------------------------------------------------------------------
(* The sync worker.                                                        *)

WorkerTop ==
    /\ wk = "top" /\ wk' = IF stop["worker"] THEN "done" ELSE "step"
    /\ UNCHANGED <<owner, objectVars, stop, channelVars, threw, wake, cb,
                   syncVars, dirty, ownerVars, raced>>

\* set_token and step.  A connection the backend accepted, or a new
\* credential, ends the refusal; while it lasts nothing is done.  Otherwise
\* the hint is taken, and a new gallery or a refusal may come of it.
StepRuns(rotated) ==
    /\ wk = "step" /\ wk' = "lock" /\ threw' = FALSE /\ auth' = FALSE
    /\ IF refused /\ ~ auth /\ ~ rotated
       THEN UNCHANGED <<refresh, refused, dirty>>
       ELSE /\ refresh' = FALSE
            /\ refused' \in IF "refusals" \in Workload THEN BOOLEAN ELSE {FALSE}
            /\ dirty' \in IF "galleries" \in Workload THEN {dirty, TRUE} ELSE {dirty}
    /\ UNCHANGED <<owner, objectVars, stop, channelVars, wake, cb, ownerVars,
                   raced>>

\* The credential cannot be read, or the step throws before it looks.
StepThrows ==
    /\ wk = "step" /\ wk' = "lock" /\ threw' = TRUE
    /\ UNCHANGED <<owner, objectVars, stop, channelVars, wake, cb, syncVars,
                   dirty, ownerVars, raced>>

\* Mutant: the predicate of the wait does not look at the stop token.
WorkerTest_WakeOnly ==
    /\ wk = "lock"
    /\ wk' = IF wake THEN "top" ELSE "tested"
    /\ wake' = FALSE
    /\ UNCHANGED <<owner, objectVars, stop, channelVars, threw, cb, syncVars,
                   dirty, ownerVars, raced>>
\* wait_for tests its predicate first; leaving, the worker clears wake.
WorkerTest ==
    /\ wk = "lock"
    /\ wk' = IF wake \/ stop["worker"] THEN "top" ELSE "tested"
    /\ wake' = FALSE
    /\ UNCHANGED <<owner, objectVars, stop, channelVars, threw, cb, syncVars,
                   dirty, ownerVars, raced>>

WorkerBlock ==
    /\ wk = "tested" /\ wk' = "blocked"
    /\ UNCHANGED <<owner, objectVars, stop, channelVars, threw, wake, cb,
                   syncVars, dirty, ownerVars, raced>>

\* Mutant: a wait that ran out is begun again.
WorkerTimeout_Again == wk = "blocked" /\ UNCHANGED vars
\* One second has passed.
WorkerTimeout ==
    /\ wk = "blocked" /\ wk' = "woken"
    /\ UNCHANGED <<owner, objectVars, stop, channelVars, threw, wake, cb,
                   syncVars, dirty, ownerVars, raced>>

WorkerLeaves ==
    /\ wk = "woken" /\ wk' = "top" /\ wake' = FALSE
    /\ UNCHANGED <<owner, objectVars, stop, channelVars, threw, cb, syncVars,
                   dirty, ownerVars, raced>>

Worker == \/ WorkerTop \/ StepRuns(TRUE) \/ StepRuns(FALSE)
          \/ StepThrows \/ WorkerTest
          \/ WorkerBlock \/ WorkerTimeout \/ WorkerLeaves

-----------------------------------------------------------------------------
(* The device channel.                                                     *)

ChannelStep(pc) ==
    /\ ch' = pc
    /\ UNCHANGED <<owner, objectVars, stop, workerVars, cb, auth, refused,
                   dirty, ownerVars, raced>>

ChannelTop ==
    /\ ch = "top" /\ ChannelStep(IF stop["channel"] THEN "done" ELSE "connect")
    /\ UNCHANGED <<closed, hello, wake, refresh>>

\* The credential is read and the socket connected: reconcile() is called at
\* once, for the notifications missed while offline.
Connect ==
    /\ ch = "connect" /\ ChannelStep("callback")
    /\ closed' = FALSE /\ hello' = FALSE /\ UNCHANGED <<wake, refresh>>

\* Anything that throws: no credential, no connection, a stop that cancels,
\* an acknowledgement that expired, a database that cannot be read.
ChannelThrows ==
    /\ ch \in {"connect", "report"} /\ ChannelStep("close")
    /\ UNCHANGED <<closed, hello, wake, refresh>>

\* reconcile(): sync->request_gallery_refresh(true) stores two flags, then
\* worker->wake() is called.
RequestRefresh ==
    /\ ch = "callback" /\ ChannelStep("callbackAuth")
    /\ refresh' = TRUE /\ UNCHANGED <<closed, hello, wake>>

\* Mutant: the flag of the accepted connection is not stored.
Authenticated_NotStored ==
    /\ ch = "callbackAuth" /\ ch' = "callbackWake" /\ UNCHANGED auth
    /\ UNCHANGED <<owner, objectVars, stop, closed, hello, workerVars, wake, cb,
                   refresh, refused, dirty, ownerVars, raced>>
Authenticated ==
    /\ ch = "callbackAuth" /\ ch' = "callbackWake" /\ auth' = TRUE
    /\ UNCHANGED <<owner, objectVars, stop, closed, hello, workerVars, wake, cb,
                   refresh, refused, dirty, ownerVars, raced>>

ChannelWakes ==
    /\ ch = "callbackWake" /\ SignalFree
    /\ ch' = "poll" /\ wake' = TRUE /\ wk' = Notified(wk)
    /\ UNCHANGED <<owner, objectVars, stop, closed, hello, threw, cb, syncVars,
                   dirty, ownerVars, raced>>

\* The head of the inner loop: a stop or a closed connection ends it, a
\* reconcile message is served first.
ChannelPoll ==
    /\ ch = "poll"
    /\ ChannelStep(IF stop["channel"] \/ closed THEN "close"
                   ELSE IF hello THEN "callback" ELSE "report")
    /\ hello' = (hello /\ (stop["channel"] \/ closed))
    /\ UNCHANGED <<closed, wake, refresh>>

\* A rotated credential ends the connection; otherwise the report is sent
\* when it is due, and the thread waits 100 ms.
Report ==
    /\ ch = "report"
    /\ \/ ChannelStep("close")
       \/ ChannelStep(IF stop["channel"] THEN "poll" ELSE "tested")
    /\ UNCHANGED <<closed, hello, wake, refresh>>

\* The socket is closed; unless a stop was requested the thread backs off.
CloseSocket ==
    /\ ch = "close"
    /\ ChannelStep(IF stop["channel"] THEN "top" ELSE "backoffTested")
    /\ UNCHANGED <<closed, hello, wake, refresh>>

ChannelBlock ==
    /\ \/ ch = "tested" /\ ChannelStep("blocked")
       \/ ch = "backoffTested" /\ ChannelStep("backoff")
    /\ UNCHANGED <<closed, hello, wake, refresh>>

\* 100 ms, or the delay of the backoff, have passed.
ChannelTimeout ==
    /\ \/ ch = "blocked" /\ ChannelStep("poll")
       \/ ch = "backoff" /\ ChannelStep("top")
    /\ UNCHANGED <<closed, hello, wake, refresh>>

Channel == \/ ChannelTop \/ Connect \/ ChannelThrows \/ RequestRefresh
           \/ Authenticated \/ ChannelWakes \/ ChannelPoll \/ Report \/ CloseSocket
           \/ ChannelBlock \/ ChannelTimeout

Connected == ch \in {"callback", "callbackAuth", "callbackWake", "poll",
                     "report", "tested", "blocked"}

\* The handlers of the socket: a reconcile message, a message that is not
\* valid, the end of the connection.
ServerSpeaks ==
    /\ Connected
    /\ \/ hello' = TRUE /\ UNCHANGED closed
       \/ closed' = TRUE /\ UNCHANGED hello
    /\ UNCHANGED <<owner, objectVars, stop, ch, workerVars, wake, cb, syncVars,
                   dirty, ownerVars, raced>>

-----------------------------------------------------------------------------
(* The callback of the network watcher: it holds a weak reference.         *)

NetworkChanges ==
    /\ net /\ cb = "idle" /\ cb' = "entered"
    /\ UNCHANGED <<owner, objectVars, stop, channelVars, workerVars, wake,
                   syncVars, dirty, ownerVars, raced>>

CallbackLocks ==
    /\ cb = "entered"
    /\ IF refs > 0 THEN cb' = "locked" /\ refs' = refs + 1
                   ELSE cb' = "idle" /\ UNCHANGED refs
    /\ UNCHANGED <<owner, alive, net, stop, channelVars, workerVars, wake,
                   syncVars, dirty, ownerVars, raced>>

\* Mutant: the strong reference is kept.
CallbackWakes_Leak ==
    /\ cb = "locked" /\ SignalFree
    /\ cb' = "idle" /\ UNCHANGED refs
    /\ wake' = TRUE /\ wk' = Notified(wk)
    /\ UNCHANGED <<owner, alive, net, stop, channelVars, threw, syncVars, dirty,
                   ownerVars, raced>>
CallbackWakes ==
    /\ cb = "locked" /\ SignalFree
    /\ cb' = "idle" /\ refs' = IF refs > 0 THEN refs - 1 ELSE 0
    /\ wake' = TRUE /\ wk' = Notified(wk)
    /\ UNCHANGED <<owner, alive, net, stop, channelVars, threw, syncVars, dirty,
                   ownerVars, raced>>

Network == NetworkChanges \/ CallbackLocks \/ CallbackWakes

-----------------------------------------------------------------------------
(* The owner loop.                                                         *)

\* A frame is processed; its events wait to be committed.
Frame ==
    /\ owner = "loop" /\ ~ pending /\ ~ dirty /\ StateFree
    /\ pending' \in IF "events" \in Workload THEN BOOLEAN ELSE {FALSE}
    /\ UNCHANGED <<owner, objectVars, stop, channelVars, workerVars, wake, cb,
                   syncVars, dirty, blocked, reload, runtime, raced>>

\* Mutant: a recovery always reports "running".
Commit_Running ==
    /\ owner = "loop" /\ pending /\ StateFree /\ SignalFree
    /\ pending' = FALSE /\ blocked' = FALSE /\ runtime' = "running"
    /\ wake' = TRUE /\ wk' = Notified(wk)
    /\ UNCHANGED <<owner, objectVars, stop, channelVars, threw, cb, syncVars,
                   dirty, reload, raced>>
\* Every pending event is committed; the worker is woken.
Commit ==
    /\ owner = "loop" /\ pending /\ StateFree /\ SignalFree
    /\ pending' = FALSE /\ blocked' = FALSE
    /\ runtime' = IF reload THEN "gallery_error" ELSE "running"
    /\ wake' = TRUE /\ wk' = Notified(wk)
    /\ UNCHANGED <<owner, objectVars, stop, channelVars, threw, cb, syncVars,
                   dirty, reload, raced>>

\* StorageError, perhaps after some of the events were committed.
CommitFails ==
    /\ owner = "loop" /\ pending /\ StateFree /\ SignalFree
    /\ blocked' = TRUE /\ runtime' = "persistence_blocked"
    /\ \/ wake' = TRUE /\ wk' = Notified(wk)
       \/ UNCHANGED <<wake, wk>>
    /\ UNCHANGED <<owner, objectVars, stop, channelVars, threw, cb, syncVars,
                   dirty, pending, reload, raced>>

\* take_gallery_dirty, then refresh_gallery when its retry is due (it always
\* is, unless the last attempt failed).
Install(ok) ==
    /\ owner = "loop" /\ ~ pending /\ (dirty \/ reload) /\ StateFree
    /\ dirty' = FALSE /\ reload' = ~ ok
    /\ runtime' = IF ok THEN "running" ELSE "gallery_error"
    /\ UNCHANGED <<owner, objectVars, stop, channelVars, workerVars, wake, cb,
                   syncVars, pending, blocked, raced>>

InstallNotDue ==
    /\ owner = "loop" /\ ~ pending /\ dirty /\ reload /\ dirty' = FALSE
    /\ UNCHANGED <<owner, objectVars, stop, channelVars, workerVars, wake, cb,
                   syncVars, ownerVars, raced>>

-----------------------------------------------------------------------------
(* The end: Ctrl+C, or an exception that leaves run().                     *)

OwnerStep(from, to) ==
    /\ owner = from /\ owner' = to
    /\ UNCHANGED <<closed, hello, threw, wake, cb, syncVars, dirty, ownerVars>>

LeaveLoop ==
    /\ OwnerStep("loop", "stopChannel")
    /\ UNCHANGED <<objectVars, stop, ch, wk, raced>>

\* worker.request_stop() of a destructor.
RequestStop ==
    /\ \/ OwnerStep("stopChannel", "notifyChannel")
          /\ stop' = [stop EXCEPT !["channel"] = TRUE]
       \/ OwnerStep("stopWorker", "notifyWorker")
          /\ stop' = [stop EXCEPT !["worker"] = TRUE]
    /\ UNCHANGED <<objectVars, ch, wk, raced>>

\* cv.notify_all(), without the mutex.
NotifyChannel ==
    /\ OwnerStep("notifyChannel", "joinChannel")
    /\ ch' = CASE ch = "blocked" -> "poll" [] ch = "backoff" -> "top"
               [] OTHER -> ch
    /\ raced' = IF StateFree THEN raced ELSE raced \union {"channel"}
    /\ UNCHANGED <<objectVars, stop, wk>>

NotifyWorker ==
    /\ OwnerStep("notifyWorker", "joinWorker")
    /\ wk' = Notified(wk)
    /\ raced' = IF SignalFree THEN raced ELSE raced \union {"worker"}
    /\ UNCHANGED <<objectVars, stop, ch>>

\* Mutant: the channel's thread is not joined.
JoinChannel_Detached ==
    /\ OwnerStep("joinChannel", "unsubscribe")
    /\ alive' = alive \ {"channel"} /\ UNCHANGED <<refs, net, stop, ch, wk, raced>>
JoinChannel ==
    /\ ch = "done" /\ OwnerStep("joinChannel", "unsubscribe")
    /\ alive' = alive \ {"channel"} /\ UNCHANGED <<refs, net, stop, ch, wk, raced>>

\* network.reset(): no new callbacks; one that has begun may still run.
Unsubscribe ==
    /\ OwnerStep("unsubscribe", "stopWorker") /\ net' = FALSE
    /\ UNCHANGED <<alive, refs, stop, ch, wk, raced>>

JoinWorker ==
    /\ wk = "done" /\ OwnerStep("joinWorker", "free")
    /\ alive' = alive \ {"worker"} /\ refs' = refs - 1
    /\ UNCHANGED <<net, stop, ch, wk, raced>>

\* sync, then the transport, leave their scope.
Free ==
    /\ OwnerStep("free", "gone") /\ alive' = alive \ {"sync"}
    /\ UNCHANGED <<refs, net, stop, ch, wk, raced>>

Teardown == \/ RequestStop \/ NotifyChannel \/ NotifyWorker \/ JoinChannel
            \/ Unsubscribe \/ JoinWorker \/ Free

Loop == Frame \/ Commit \/ CommitFails \/ Install(TRUE) \/ Install(FALSE)
        \/ InstallNotDue \/ LeaveLoop

Gone == owner = "gone" /\ cb = "idle" /\ UNCHANGED vars

Next == Worker \/ Channel \/ ServerSpeaks \/ Network \/ Loop \/ Teardown \/ Gone

Spec == Init /\ [][Next]_vars

\* Every thread goes on, timed waits end (their limits are in the code), and
\* a request of the worker ends by its deadline.  The mutex of the signal is
\* free for a second at a time, so whoever waits for it gets it.
FairSpec == Spec /\ WF_vars(Worker) /\ WF_vars(Channel) /\ WF_vars(Teardown)
                 /\ SF_vars(ChannelWakes)

-----------------------------------------------------------------------------
OwnerPhases == {"loop", "stopChannel", "notifyChannel", "joinChannel", "unsubscribe",
                "stopWorker", "notifyWorker", "joinWorker", "free", "gone"}
ChannelPhases == {"top", "connect", "callback", "callbackAuth", "callbackWake", "poll",
                  "report", "tested", "blocked", "close", "backoffTested", "backoff",
                  "done"}
WorkerPhases == {"top", "step", "lock", "tested", "blocked", "woken", "done"}
RuntimeStates == {"running", "persistence_blocked", "gallery_error"}

TypeOK ==
    /\ owner \in OwnerPhases /\ ch \in ChannelPhases /\ wk \in WorkerPhases
    /\ alive \subseteq {"channel", "worker", "sync"}
    /\ stop \in [{"channel", "worker"} -> BOOLEAN]
    /\ closed \in BOOLEAN /\ hello \in BOOLEAN /\ wake \in BOOLEAN
    /\ net \in BOOLEAN /\ refresh \in BOOLEAN /\ auth \in BOOLEAN
    /\ refused \in BOOLEAN /\ dirty \in BOOLEAN /\ pending \in BOOLEAN
    /\ blocked \in BOOLEAN /\ reload \in BOOLEAN /\ threw \in BOOLEAN
    /\ refs \in 0..2 /\ cb \in {"idle", "entered", "locked"}
    /\ runtime \in RuntimeStates
    /\ raced \subseteq {"channel", "worker"}

\* No thread and no callback uses an object the owner has destroyed: the
\* channel's callback uses the service and the worker, the worker's step the
\* service, the network callback the signal.
NoUseAfterFree ==
    /\ ch \in {"callback", "callbackAuth", "callbackWake"}
           => {"sync", "worker"} \subseteq alive
    /\ ch # "done" => "channel" \in alive
    /\ wk = "step" => "sync" \in alive
    /\ cb = "locked" => refs > (IF "worker" \in alive THEN 1 ELSE 0)

\* A hint of the backend is not slept through: while the worker waits, the
\* hint it has not seen is still about to wake it, or its last step failed.
HintNotSleptThrough ==
    wk = "blocked" /\ refresh =>
        ch \in {"callbackAuth", "callbackWake"} \/ threw

\* The destructors notify without the mutex.  A thread sleeps through that
\* notification only when it came between its test and its wait.
StopMissedOnlyInRace ==
    /\ owner = "joinChannel" /\ ch \in {"blocked", "backoff"}
           => "channel" \in raced
    /\ owner = "joinWorker" /\ wk = "blocked" => "worker" \in raced

\* What the channel reports of the owner: blocked persistence first, then a
\* gallery that could not be installed, whatever happened in between.
StatusTruthful ==
    runtime = IF blocked THEN "persistence_blocked"
              ELSE IF reload THEN "gallery_error" ELSE "running"

-----------------------------------------------------------------------------
(* What makes these properties inductive.                                  *)

\* The teardown destroys the objects in the reverse order of their creation,
\* each after the thread that uses it was joined.
DestroyedInOrder ==
    /\ "channel" \in alive <=> owner \in {"loop", "stopChannel", "notifyChannel",
                                         "joinChannel"}
    /\ "worker" \in alive <=> owner \notin {"free", "gone"}
    /\ "sync" \in alive <=> owner # "gone"
    /\ "channel" \in alive \/ ch = "done"
    /\ "worker" \in alive \/ wk = "done"

\* The strong references to the Signal are the worker's and the callback's.
ReferencesCounted ==
    refs = (IF "worker" \in alive THEN 1 ELSE 0) + (IF cb = "locked" THEN 1 ELSE 0)

\* After the notification a thread is in its wait only if it was missed.
StopSeenOrRaced ==
    /\ owner \in {"notifyChannel", "joinChannel"} => stop["channel"]
    /\ owner \in {"notifyWorker", "joinWorker"} => stop["worker"]
    /\ owner = "joinChannel"
          /\ ch \in {"tested", "backoffTested", "blocked", "backoff"}
           => "channel" \in raced
    /\ owner = "joinWorker" /\ wk \in {"tested", "blocked"} => "worker" \in raced

\* A hint not yet taken has stored its second flag, or is about to, and the
\* worker has not begun to wait without learning of it.
HintOnItsWay ==
    /\ refresh /\ ~ auth => ch = "callbackAuth"
    /\ refresh /\ wk \in {"lock", "tested", "blocked"} =>
         \/ ch \in {"callbackAuth", "callbackWake"} \/ threw
         \/ wk = "lock" /\ wake

ThreadsInvariant ==
    /\ TypeOK /\ DestroyedInOrder /\ ReferencesCounted /\ StopSeenOrRaced
    /\ HintOnItsWay /\ StatusTruthful /\ (blocked => pending)

\* The teardown ends, also when a notification was lost.
ShutdownEnds == owner = "stopChannel" ~> owner = "gone"
=============================================================================
