------------------------- MODULE AttendanceDelivery -------------------------
(***************************************************************************)
(* The path of an attendance event from the frame that produced it to the  *)
(* backend: AttendanceCoordinator (the in-memory batch of one frame), the  *)
(* SQLite outbox, dead-letter and delivery_state tables, one POST at a     *)
(* time by AttendanceSync, and the owner loop of EdgeApplication::run.     *)
(*                                                                         *)
(* Two threads share the database: the owner thread stages and commits     *)
(* events, the sync worker uploads them.  Each SQLite transaction is one   *)
(* step; its COMMIT may fail, or may take effect and still be reported as  *)
(* a failure (the "uncertain" COMMIT of outbox_repository.cpp:48).  The    *)
(* backend and the network are modelled from how the code uses them.       *)
(*                                                                         *)
(* Event identifiers are numbered in order of occurrence, so the ORDER BY  *)
(* occurred_ms, event_id of the upload query is the order of the numbers.  *)
(***************************************************************************)
EXTENDS RetryPolicy, FiniteSets

CONSTANTS
    MaxEvents,     \* bound: events produced in a behaviour
    FrameFaces,    \* bound: events of a single frame
    BatchLimit,    \* rows of one request (the default limit of due)
    MaxAttempts,   \* cap of the attempts column, 30 in the code
    Headers,       \* Retry-After headers the backend may send
    MaxTime,       \* bound: the clock only passes it to end a backoff
    MaxFaults      \* bound: failures, crashes and stops in a behaviour

ASSUME DeliveryAssumption ==
    /\ MaxEvents \in Nat /\ FrameFaces \in Nat
    /\ BatchLimit \in Nat /\ MaxAttempts \in Nat
    /\ MaxTime \in Nat /\ MaxFaults \in Nat
    /\ Headers \subseteq Header

Events == 1..MaxEvents

VARIABLES
    outbox,      \* attendance_outbox: event -> its retry columns
    deadLetter,  \* dead_letter: events kept after a permanent refusal
    notBefore,   \* delivery_state.retry_not_before_ms
    queued,      \* history: every event ever inserted in the outbox
    owner,       \* where the owner thread is in EdgeApplication::run
    pending,     \* AttendanceCoordinator::pending_
    nextId,      \* the identifier of the next event
    stopping,    \* the flag of the Ctrl+C handler
    reported,    \* events printed as COMMITTED
    abandoned,   \* events that were in memory only when the process ended
    call,        \* where the sync worker is in AttendanceSync::step
    batch,       \* the rows of the request: event -> attempts as read
    blocked,     \* SyncService::blocked_
    stored,      \* external: events the backend has stored
    verdict,     \* external: how the backend disposed of the request
    orphans,     \* external: events of requests given up while in flight
    now,         \* utc_ms
    faults       \* faults so far

durable    == <<outbox, deadLetter, notBefore, queued>>
ownerVars  == <<owner, pending, nextId, stopping, reported, abandoned>>
workerVars == <<call, batch, blocked>>
backend    == <<stored, verdict, orphans>>
vars       == <<durable, ownerVars, workerVars, backend, now, faults>>

Row == [attempts : 0..MaxAttempts, next : Nat]

FreshRow   == [attempts |-> 0, next |-> 0]
NoRows     == [e \in {} |-> FreshRow]
NoBatch    == [e \in {} |-> 0]
NoVerdict  == [accepted |-> {}, rejected |-> {}]

Restricted(f, S) == [x \in S |-> f[x]]

TypeOK ==
    /\ DOMAIN outbox \subseteq Events /\ outbox \in [DOMAIN outbox -> Row]
    /\ deadLetter \subseteq Events
    /\ notBefore \in Nat
    /\ queued \subseteq Events
    /\ owner \in {"top", "frame", "drain", "closing", "joining", "down"}
    /\ pending \subseteq Events
    /\ nextId \in 1..(MaxEvents + 1)
    /\ stopping \in BOOLEAN
    /\ reported \subseteq Events
    /\ abandoned \subseteq Events
    /\ call \in {"none", "sent", "processed", "acked"}
    /\ DOMAIN batch \subseteq Events
    /\ batch \in [DOMAIN batch -> 0..MaxAttempts]
    /\ blocked \in BOOLEAN
    /\ stored \subseteq Events
    /\ verdict \in [accepted : SUBSET Events, rejected : SUBSET Events]
    /\ orphans \subseteq Events
    /\ now \in Nat
    /\ faults \in 0..MaxFaults

Init ==
    /\ outbox = NoRows /\ deadLetter = {} /\ notBefore = 0 /\ queued = {}
    /\ owner = "top" /\ pending = {} /\ nextId = 1 /\ stopping = FALSE
    /\ reported = {} /\ abandoned = {}
    /\ call = "none" /\ batch = NoBatch /\ blocked = FALSE
    /\ stored = {} /\ verdict = NoVerdict /\ orphans = {}
    /\ now = 0 /\ faults = 0

Fault == faults < MaxFaults /\ faults' = faults + 1

(***************************************************************************)
(* The outcome of one transaction.  BEGIN, a statement or COMMIT may fail  *)
(* and everything is rolled back ("failed"); or COMMIT takes effect but    *)
(* the caller sees an error ("uncertain").  Both throw StorageError.       *)
(***************************************************************************)
Outcome == {"ok", "failed", "uncertain"}

Applies(tx) == tx # "failed"

Charge(tx) == IF tx = "ok" THEN UNCHANGED faults ELSE Fault

-----------------------------------------------------------------------------
(***************************************************************************)
(* The owner thread.                                                       *)
(***************************************************************************)

\* Mutant: after a failed commit the deadline of the next try is re-armed by
\* every test of the loop.
LoopTest_RearmsDeadline ==
    /\ owner = "top"
    /\ owner' = IF stopping THEN "closing"
                ELSE IF pending # {} THEN "top" ELSE "frame"
    /\ UNCHANGED <<durable, pending, nextId, stopping, reported, abandoned,
                   workerVars, backend, now, faults>>

\* `while (!stopping)' and the test of pending_count that follows it.
LoopTest ==
    /\ owner = "top"
    /\ owner' = IF stopping THEN "closing"
                ELSE IF pending # {} THEN "drain" ELSE "frame"
    /\ UNCHANGED <<durable, pending, nextId, stopping, reported, abandoned,
                   workerVars, backend, now, faults>>

\* One frame, or the timeout of wait_for_frame (n = 0): stage refuses a frame
\* while events are pending and otherwise takes its events into memory.
Frame(n) ==
    /\ owner = "frame"
    /\ pending = {}
    /\ nextId + n <= MaxEvents + 1
    /\ pending' = nextId..(nextId + n - 1)
    /\ nextId' = nextId + n
    /\ owner' = "top"
    /\ UNCHANGED <<durable, stopping, reported, abandoned,
                   workerVars, backend, now, faults>>

Front(e) == e \in pending /\ \A f \in pending : e <= f

\* Mutant: the dead-letter table is not consulted.
EnsureEnqueued_Resurrects(e) ==
    IF e \in DOMAIN outbox
      THEN UNCHANGED <<outbox, queued>>
      ELSE /\ outbox' = [x \in DOMAIN outbox \cup {e} |->
                            IF x = e THEN FreshRow ELSE outbox[x]]
           /\ queued' = queued \cup {e}

\* Mutant: INSERT OR REPLACE, which resets the retry columns of a row.
EnsureEnqueued_Replaces(e) ==
    IF e \in deadLetter
      THEN UNCHANGED <<outbox, queued>>
      ELSE /\ outbox' = [x \in DOMAIN outbox \cup {e} |->
                            IF x = e THEN FreshRow ELSE outbox[x]]
           /\ queued' = queued \cup {e}

\* The database part of ensure_enqueued: a row already in the outbox or
\* already retained in the dead-letter table is left as it is.
EnsureEnqueued(e) ==
    IF e \in DOMAIN outbox \cup deadLetter
      THEN UNCHANGED <<outbox, queued>>
      ELSE /\ outbox' = [x \in DOMAIN outbox \cup {e} |->
                            IF x = e THEN FreshRow ELSE outbox[x]]
           /\ queued' = queued \cup {e}

\* Mutant: the record leaves memory before the transaction.
CommitNext_PopsFirst(e, tx) ==
    /\ owner = "drain" /\ Front(e)
    /\ Charge(tx)
    /\ IF Applies(tx) THEN EnsureEnqueued(e) ELSE UNCHANGED <<outbox, queued>>
    /\ pending' = pending \ {e}
    /\ IF tx = "ok"
         THEN /\ reported' = reported \cup {e}
              /\ owner' = IF pending = {e} THEN "top" ELSE "drain"
         ELSE /\ owner' = "top"
              /\ UNCHANGED reported
    /\ UNCHANGED <<deadLetter, notBefore, nextId, stopping, abandoned,
                   workerVars, backend, now>>

\* commit_next and the loop around it: the front record leaves memory only
\* after the transaction returned; an error ends the loop.
CommitNext(e, tx) ==
    /\ owner = "drain" /\ Front(e)
    /\ Charge(tx)
    /\ IF Applies(tx) THEN EnsureEnqueued(e) ELSE UNCHANGED <<outbox, queued>>
    /\ IF tx = "ok"
         THEN /\ pending' = pending \ {e}
              /\ reported' = reported \cup {e}
              /\ owner' = IF pending = {e} THEN "top" ELSE "drain"
         ELSE /\ owner' = "top"
              /\ UNCHANGED <<pending, reported>>
    /\ UNCHANGED <<deadLetter, notBefore, nextId, stopping, abandoned,
                   workerVars, backend, now>>

\* The console control handler.
Stop ==
    /\ owner # "down" /\ ~stopping
    /\ stopping' = TRUE
    /\ Fault
    /\ UNCHANGED <<durable, owner, pending, nextId, reported, abandoned,
                   workerVars, backend, now>>

\* runtime.stop and channel.reset are done; worker.reset requests the stop of
\* the sync worker.
Close ==
    /\ owner = "closing"
    /\ owner' = "joining"
    /\ UNCHANGED <<durable, pending, nextId, stopping, reported, abandoned,
                   workerVars, backend, now, faults>>

\* The worker is joined; events still in memory are given up with the error
\* PERSISTENCE_INCOMPLETE.
Exit ==
    /\ owner = "joining" /\ call = "none"
    /\ owner' = "down"
    /\ abandoned' = abandoned \cup pending
    /\ pending' = {}
    /\ blocked' = FALSE
    /\ UNCHANGED <<durable, nextId, stopping, reported, call, batch,
                   backend, now, faults>>

\* The process dies at any point: memory is gone, the tables stay, and a
\* request the backend has not read yet may still reach it.
Crash ==
    /\ owner # "down"
    /\ owner' = "down"
    /\ abandoned' = abandoned \cup pending
    /\ pending' = {}
    /\ call' = "none" /\ batch' = NoBatch /\ blocked' = FALSE
    /\ verdict' = NoVerdict
    /\ orphans' = IF call = "sent" THEN orphans \cup DOMAIN batch ELSE orphans
    /\ Fault
    /\ UNCHANGED <<durable, nextId, stopping, reported, stored, now>>

\* Mutant: opening the database runs the v1 migration every time and starts
\* delivery_state from zero.
Restart_ForgetsPause ==
    /\ owner = "down"
    /\ owner' = "top" /\ stopping' = FALSE
    /\ notBefore' = 0
    /\ UNCHANGED <<outbox, deadLetter, queued, pending, nextId, reported,
                   abandoned, workerVars, backend, now, faults>>

\* A new process opens the same tables, already at the current version.
Restart ==
    /\ owner = "down"
    /\ owner' = "top" /\ stopping' = FALSE
    /\ UNCHANGED <<durable, pending, nextId, reported, abandoned,
                   workerVars, backend, now, faults>>

-----------------------------------------------------------------------------
(***************************************************************************)
(* The sync worker: AttendanceSync::step and the repository operations it  *)
(* calls.                                                                  *)
(***************************************************************************)

Eligible(t) == {e \in DOMAIN outbox : outbox[e].next <= t /\ t >= notBefore}

\* due: the oldest BatchLimit eligible rows.
Due(t) ==
    {e \in Eligible(t) :
        Cardinality({f \in Eligible(t) : f < e}) < BatchLimit}

WorkerRuns == owner \notin {"joining", "down"}

\* The rows are read and the request leaves.
BeginStep ==
    /\ WorkerRuns /\ call = "none" /\ ~blocked
    /\ Due(now) # {}
    /\ batch' = [e \in Due(now) |-> outbox[e].attempts]
    /\ call' = "sent"
    /\ UNCHANGED <<durable, ownerVars, blocked, backend, now, faults>>

\* The step is over, by a return or by an exception.
EndStep == call' = "none" /\ batch' = NoBatch /\ verdict' = NoVerdict

\* The attempt count that decides the backoff is the largest of the rows.
Worst(e) == e \in DOMAIN batch /\ \A f \in DOMAIN batch : batch[f] <= batch[e]

\* Mutant: the attempts column is not capped.
Postponed_Uncapped(S, next) ==
    /\ notBefore' = Larger(notBefore, next)
    /\ outbox' = [e \in DOMAIN outbox |->
                    IF e \in S
                      THEN [attempts |-> outbox[e].attempts + 1, next |-> next]
                      ELSE outbox[e]]

\* Mutant: the pause is kept per row only.
Postponed_RowsOnly(S, next) ==
    /\ outbox' = [e \in DOMAIN outbox |->
                    IF e \in S
                      THEN [attempts |-> Lesser(outbox[e].attempts + 1,
                                                MaxAttempts),
                            next     |-> next]
                      ELSE outbox[e]]
    /\ UNCHANGED notBefore

\* The tables after OutboxRepository::retry of the rows in S until `next'.
Postponed(S, next) ==
    /\ notBefore' = Larger(notBefore, next)
    /\ outbox' = [e \in DOMAIN outbox |->
                    IF e \in S
                      THEN [attempts |-> Lesser(outbox[e].attempts + 1,
                                                MaxAttempts),
                            next     |-> next]
                      ELSE outbox[e]]

\* retry of every row of the batch, with the header the answer carried.
RetryBatch(header, tx) ==
    /\ IF Applies(tx)
         THEN \E e \in DOMAIN batch, jitter \in 0..MaxJitter :
                /\ Worst(e)
                /\ Postponed(DOMAIN batch,
                             RetryAt(now, batch[e], header, jitter))
         ELSE UNCHANGED <<outbox, notBefore>>
    /\ EndStep
    /\ UNCHANGED <<deadLetter, queued, ownerVars, blocked, stored, now>>

\* The request throws: no connection, a timeout, an unusable response.  What
\* the backend has not read yet may still reach it.
TransportFailure(tx) ==
    /\ call \in {"sent", "processed"}
    /\ Fault
    /\ orphans' = IF call = "sent" THEN orphans \cup DOMAIN batch ELSE orphans
    /\ RetryBatch(NoHeader, tx)

\* A status that is neither success nor a refusal, or a success whose body
\* is not a valid list of receipts for this batch (http_<status>,
\* invalid_ack): both keep every row and honour Retry-After.
ErrorAnswer(header, tx) ==
    /\ call \in {"sent", "processed"}
    /\ Fault
    /\ RetryBatch(header, tx)
    /\ UNCHANGED orphans

\* 401 or 403: the step reports AuthenticationBlocked and no row is touched.
AuthRefused ==
    /\ call = "sent"
    /\ Fault
    /\ blocked' = TRUE
    /\ EndStep
    /\ UNCHANGED <<durable, ownerVars, stored, orphans, now>>

\* Mutant: a refused row is deleted without being copied.
SettleRows_DropsRefused(D, R) ==
    /\ outbox' = Restricted(outbox, DOMAIN outbox \ (D \cup R))
    /\ UNCHANGED deadLetter

\* The rows of R move to the dead-letter table and those of D are deleted, in
\* one transaction.  dead_letter.event_id is a primary key.
SettleRows(D, R) ==
    /\ R \cap DOMAIN outbox \cap deadLetter = {}
    /\ deadLetter' = deadLetter \cup (R \cap DOMAIN outbox)
    /\ outbox' = Restricted(outbox, DOMAIN outbox \ (D \cup R))

\* 400 or 422: the whole batch goes to the dead-letter table.
SchemaRefused(tx) ==
    /\ call = "sent"
    /\ Fault
    /\ IF Applies(tx) THEN SettleRows({}, DOMAIN batch)
       ELSE UNCHANGED <<outbox, deadLetter>>
    /\ EndStep
    /\ UNCHANGED <<notBefore, queued, ownerVars, blocked, stored, orphans, now>>

\* Mutant: a valid answer is taken as an acknowledgement of the whole batch.
Acknowledge_WholeBatch(S, tx) ==
    /\ call = "processed"
    /\ S \subseteq verdict.accepted \cup verdict.rejected
    /\ IF tx = "ok" /\ S = verdict.accepted \cup verdict.rejected
         THEN UNCHANGED faults ELSE Fault
    /\ IF Applies(tx)
         THEN SettleRows(DOMAIN batch \ verdict.rejected,
                         S \cap verdict.rejected)
         ELSE UNCHANGED <<outbox, deadLetter>>
    /\ EndStep
    /\ UNCHANGED <<notBefore, queued, ownerVars, blocked, stored, orphans, now>>

\* A valid list of receipts for the events of S.  Rows without a receipt stay
\* in the batch for the retry that follows; an exception skips that retry.
Acknowledge(S, tx) ==
    LET missing == DOMAIN batch \ S
    IN /\ call = "processed"
       /\ S \subseteq verdict.accepted \cup verdict.rejected
       /\ IF tx = "ok" /\ S = verdict.accepted \cup verdict.rejected
            THEN UNCHANGED faults ELSE Fault
       /\ IF Applies(tx)
            THEN SettleRows(S \cap verdict.accepted, S \cap verdict.rejected)
            ELSE UNCHANGED <<outbox, deadLetter>>
       /\ IF tx = "ok" /\ missing # {}
            THEN /\ call' = "acked"
                 /\ batch' = Restricted(batch, missing)
                 /\ verdict' = NoVerdict
            ELSE EndStep
       /\ UNCHANGED <<notBefore, queued, ownerVars, blocked, stored, orphans,
                      now>>

\* missing_ack: the rest of the batch is retried in a second transaction.
RetryMissing(header, tx) ==
    /\ call = "acked"
    /\ Charge(tx)
    /\ RetryBatch(header, tx)
    /\ UNCHANGED orphans

\* Mutant: the flag of a new connection is only read while not blocked.
Unblock_OnlyIfRunning ==
    /\ WorkerRuns /\ call = "none" /\ blocked /\ ~blocked
    /\ blocked' = FALSE
    /\ UNCHANGED <<durable, ownerVars, call, batch, backend, now, faults>>

\* The credential changed, or the operational channel reported a newly
\* authenticated connection.
Unblock ==
    /\ WorkerRuns /\ call = "none" /\ blocked
    /\ blocked' = FALSE
    /\ UNCHANGED <<durable, ownerVars, call, batch, backend, now, faults>>

-----------------------------------------------------------------------------
(***************************************************************************)
(* The environment: the backend, the network and the clock.                *)
(***************************************************************************)

\* The backend reads the request and stores the events of A (those it had
\* already are reported as duplicates) and refuses those of R.
Process(A, R) ==
    /\ call = "sent"
    /\ A \cup R \subseteq DOMAIN batch
    /\ A \cap R = {} /\ R \cap stored = {}
    /\ IF A \cup R = DOMAIN batch THEN UNCHANGED faults ELSE Fault
    /\ call' = "processed"
    /\ stored' = stored \cup A
    /\ verdict' = [accepted |-> A, rejected |-> R]
    /\ UNCHANGED <<durable, ownerVars, batch, blocked, orphans, now>>

\* A request the device gave up reaches the backend after all, or is lost.
LateArrival(e) ==
    /\ e \in orphans
    /\ orphans' = orphans \ {e}
    /\ \/ stored' = stored \cup {e}
       \/ UNCHANGED stored
    /\ UNCHANGED <<durable, ownerVars, workerVars, verdict, now, faults>>

Tick ==
    /\ now < MaxTime \/ now < notBefore
    /\ now' = now + 1
    /\ UNCHANGED <<durable, ownerVars, workerVars, backend, faults>>

Answer ==
    \/ \E A, R \in SUBSET Events : Process(A, R)
    \/ AuthRefused
    \/ \E tx \in Outcome :
         \/ TransportFailure(tx)
         \/ \E h \in Headers : ErrorAnswer(h, tx)
         \/ SchemaRefused(tx)
         \/ \E S \in SUBSET Events : Acknowledge(S, tx)

Worker ==
    \/ BeginStep
    \/ Answer
    \/ \E h \in Headers, tx \in Outcome : RetryMissing(h, tx)
    \/ Unblock

Owner ==
    \/ LoopTest
    \/ \E n \in 0..FrameFaces : Frame(n)
    \/ \E e \in Events, tx \in Outcome : CommitNext(e, tx)
    \/ Close
    \/ Exit
    \/ Restart

Environment ==
    \/ Stop
    \/ Crash
    \/ \E e \in Events : LateArrival(e)
    \/ Tick

Next == Owner \/ Worker \/ Environment

(***************************************************************************)
(* Neither thread stops by itself: every wait in the code has a timeout    *)
(* (wait_for_frame 1 s, the worker's wait_for 1 s, the HTTP timeouts).     *)
(* That an operator restores the credential and restarts a device that     *)
(* ended is an assumption.  No fairness on faults, stops or late arrivals. *)
(***************************************************************************)
Fairness ==
    /\ WF_vars(Owner)
    /\ WF_vars(BeginStep)
    /\ WF_vars(Answer)
    /\ WF_vars(\E h \in Headers, tx \in Outcome : RetryMissing(h, tx))
    /\ WF_vars(Unblock)
    /\ WF_vars(Tick)

Spec == Init /\ [][Next]_vars

FairSpec == Spec /\ Fairness

-----------------------------------------------------------------------------
(***************************************************************************)
(* Properties.                                                             *)
(***************************************************************************)

\* An event announced as COMMITTED is never lost, whatever crashes, failed or
\* uncertain commits and lost or repeated requests follow: it is in the
\* outbox, in the dead-letter table, or stored by the backend.
CommittedNeverLost == reported \subseteq DOMAIN outbox \cup deadLetter \cup stored

\* An event is in at most one of the two tables: re-committing an event whose
\* first COMMIT was uncertain does not resurrect a refused event.
OneTable == DOMAIN outbox \cap deadLetter = {}

\* Only the sync worker removes or postpones rows: while a request is in
\* flight the rows it was built from are still there, with the attempts read.
BatchStillQueued ==
    \A e \in DOMAIN batch : e \in DOMAIN outbox /\ outbox[e].attempts = batch[e]

\* The endpoint pause covers the pause of every row, so one fresh event never
\* goes out while an older failed one is still waiting.
EndpointGate == \A e \in DOMAIN outbox : outbox[e].next <= notBefore

\* What is uploaded was made durable first: every row, every stored event and
\* every event that may still arrive was once inserted in the outbox.
DurableBeforeUpload == DOMAIN outbox \cup stored \cup orphans \subseteq queued

\* The backend's receipts concern the request in flight and say "accepted"
\* only of events it has stored.
VerdictTruthful ==
    /\ call = "processed" \/ verdict = NoVerdict
    /\ verdict.accepted \subseteq stored \cap DOMAIN batch
    /\ verdict.rejected \subseteq DOMAIN batch \ verdict.accepted

\* Every event produced is accounted for: it is in memory, known to be given
\* up at the end of a process, or kept by the device or the backend.
NothingSilentlyLost ==
    1..(nextId - 1) \subseteq pending \cup abandoned \cup DOMAIN outbox
                                \cup deadLetter \cup stored

\* The inductive invariant of the proofs.
DeliveryInvariant ==
    /\ TypeOK
    /\ OneTable
    /\ BatchStillQueued
    /\ VerdictTruthful
    /\ EndpointGate
    /\ DurableBeforeUpload
    /\ CommittedNeverLost
    /\ NothingSilentlyLost

\* The endpoint pause never shrinks, not even across a restart, and no event
\* leaves the dead-letter table.
PauseAndRefusalsKept ==
    [][notBefore' >= notBefore /\ deadLetter \subseteq deadLetter']_vars

\* Every row is eventually settled, however the failures are spread.
OutboxDrains ==
    \A e \in Events : e \in DOMAIN outbox ~> e \notin DOMAIN outbox

\* Every event in memory is eventually announced as committed or given up.
PendingResolved ==
    \A e \in Events : e \in pending ~> e \in reported \cup abandoned

\* The device implements the at-least-once queue.
Queue == INSTANCE AtLeastOnceQueue
           WITH held <- DOMAIN outbox, received <- stored, refused <- deadLetter

ImplementsQueue == Queue!Spec
=============================================================================
