----------------------------- MODULE WireFormat -----------------------------
(***************************************************************************)
(* Whose events are uploaded, and what an answer may settle: envelope,     *)
(* batch_payload and parse_receipts of edge_app/sync/wire_format.cpp in    *)
(* the upload of AttendanceSync::step.  The device id is read from the     *)
(* configuration at every start, the outbox outlives it.  The answers of   *)
(* the backend may be lost, partial, or garbled in what parse_receipts     *)
(* looks at: ids that were not sent, repeated ids, unknown dispositions.   *)
(*                                                                         *)
(* Events are numbered in the order of their occurrence; a pause of the    *)
(* endpoint is one flag, its length is RetryPolicy's concern.              *)
(***************************************************************************)
EXTENDS Naturals, FiniteSets, Sequences

CONSTANTS
    Devices,       \* device ids an operator may configure
    MaxEvents,     \* bound: events captured
    BatchLimit,    \* rows of a batch, 100 in the code
    MaxAttempts,   \* cap of attempts, 30 in the code
    MaxFaults      \* bound: bad answers and restarts

WireAssumption == MaxEvents \in Nat /\ BatchLimit \in Nat \ {0}
                         /\ MaxAttempts \in Nat \ {0} /\ MaxFaults \in Nat

Events == 1..MaxEvents
Dispositions == {"accepted", "duplicate", "rejected"}

VARIABLES
    device,      \* ApplicationConfig::device_id of the running process
    of,          \* the device in the payload of every captured event
    queue,       \* attendance_outbox
    dead,        \* dead_letter
    attempts,    \* attempts of the rows
    pause,       \* retry_not_before_ms lies ahead
    sent,        \* the batch whose answer is awaited
    stored,      \* external: events the backend has
    refused,     \* external: events the backend has rejected
    posted,      \* history: events and the device they were posted for
    unreadable,  \* history: events of a batch refused as a whole
    faults

tables  == <<of, queue, dead, attempts>>
backend == <<stored, refused>>
vars == <<device, tables, pause, sent, backend, posted, unreadable, faults>>

Init ==
    /\ device \in Devices /\ of = <<>> /\ queue = {} /\ dead = {}
    /\ attempts = [e \in Events |-> 0] /\ pause = FALSE /\ sent = {}
    /\ stored = {} /\ refused = {}
    /\ posted = {} /\ unreadable = {} /\ faults = 0

Fault == faults < MaxFaults /\ faults' = faults + 1

\* envelope and enqueue: the record carries the device configured now.
Capture ==
    /\ Len(of) < MaxEvents
    /\ of' = Append(of, device) /\ queue' = queue \union {Len(of) + 1}
    /\ UNCHANGED <<device, dead, attempts, pause, sent, backend, posted,
                   unreadable, faults>>

\* The process ends and starts with the id the configuration has now.
Restart(d) ==
    /\ device' = d /\ sent' = {} /\ Fault
    /\ UNCHANGED <<tables, pause, backend, posted, unreadable>>

RetryDue ==
    /\ pause /\ pause' = FALSE
    /\ UNCHANGED <<device, tables, sent, backend, posted, unreadable, faults>>

-----------------------------------------------------------------------------
\* Mutant: rows with many failures are passed over.
Due_GivesUp ==
    {e \in queue : attempts[e] < MaxAttempts
                   /\ Cardinality({f \in queue : f < e}) < BatchLimit}
\* The oldest rows.
Due == {e \in queue : Cardinality({f \in queue : f < e}) < BatchLimit}

\* Mutant: the device of a row is not compared.
batch_payload_AnyDevice(rows) == rows # {}
\* A payload can be made of rows that all name the configured device.
batch_payload(rows) == \A e \in rows : of[e] = device

\* outbox_.retry: the rows and the whole endpoint wait.
Retry(rows) ==
    /\ attempts' = [e \in Events |->
                      IF e \in rows /\ attempts[e] < MaxAttempts
                      THEN attempts[e] + 1 ELSE attempts[e]]
    /\ pause' = (pause \/ rows # {})

Post ==
    /\ sent = {} /\ ~ pause /\ Due # {} /\ batch_payload(Due)
    /\ sent' = Due
    /\ posted' = posted \union {<<e, device>> : e \in Due}
    /\ UNCHANGED <<device, tables, pause, backend, unreadable, faults>>

\* batch_payload throws; the step takes it for a failure of the transport.
NoPayload ==
    /\ sent = {} /\ ~ pause /\ Due # {} /\ ~ batch_payload(Due)
    /\ Retry(Due)
    /\ UNCHANGED <<device, of, queue, dead, sent, backend, posted, unreadable,
                   faults>>

-----------------------------------------------------------------------------
(* The backend decides on every event of a batch once, and an answer tells *)
(* what it decided.                                                        *)

Decide(no) ==
    /\ no \subseteq sent \ stored /\ sent \intersect refused \subseteq no
    /\ stored' = stored \union (sent \ no) /\ refused' = refused \union no

Truth(e) == IF e \in refused' THEN "rejected"
            ELSE IF e \in stored THEN "duplicate" ELSE "accepted"

Receipts == [event_id : Events, disposition : Dispositions \union {"unknown"}]
Answers == UNION {[1..n -> Receipts] : n \in 0..BatchLimit + 1}
Honest(list) == \A i \in DOMAIN list :
                    list[i].event_id \in sent
                    /\ list[i].disposition \in Dispositions
                        => list[i].disposition = Truth(list[i].event_id)

Ids(list) == {list[i].event_id : i \in DOMAIN list}

\* Mutant: ids that were not sent are let through.
parse_receipts_AnyId(list) ==
    /\ Len(list) <= Cardinality(sent)
    /\ Cardinality(Ids(list)) = Len(list)
    /\ \A i \in DOMAIN list : list[i].disposition \in Dispositions
parse_receipts(list) ==
    /\ Len(list) <= Cardinality(sent)
    /\ Ids(list) \subseteq sent
    /\ Cardinality(Ids(list)) = Len(list)
    /\ \A i \in DOMAIN list : list[i].disposition \in Dispositions

Rejected(list) ==
    {list[i].event_id : i \in {j \in DOMAIN list :
                                 list[j].disposition = "rejected"}}

\* Mutant: a valid answer settles the whole batch.
Settled_Batch(list) == sent
\* Only rows with a receipt are settled.
Settled(list) == Ids(list)

\* 2xx: the receipts settle their rows, the others are tried again.
Receive(list) ==
    /\ sent # {} /\ \E no \in SUBSET sent : Decide(no)
    /\ Honest(list)
    /\ IF parse_receipts(list)
       THEN /\ queue' = queue \ Settled(list)
            /\ dead' = dead \union Rejected(list)
            /\ Retry(sent \ Settled(list))
       ELSE UNCHANGED <<queue, dead>> /\ Retry(sent)
    /\ IF parse_receipts(list) /\ Ids(list) = sent
       THEN UNCHANGED faults ELSE Fault
    /\ sent' = {} /\ UNCHANGED <<device, of, posted, unreadable>>

\* No answer, whether the batch arrived or not, or another status.
NoAnswer ==
    /\ sent # {} /\ Fault /\ Retry(sent) /\ sent' = {}
    /\ UNCHANGED backend \/ \E no \in SUBSET sent : Decide(no)
    /\ UNCHANGED <<device, of, queue, dead, posted, unreadable>>

\* 400 or 422: every row of the batch is set aside.
SchemaRefused ==
    /\ sent # {} /\ Fault
    /\ queue' = queue \ sent /\ dead' = dead \union sent
    /\ unreadable' = unreadable \union sent /\ sent' = {}
    /\ UNCHANGED <<device, of, attempts, pause, backend, posted>>

Step == \/ Post \/ NoPayload \/ NoAnswer \/ SchemaRefused
        \/ \E list \in Answers : Receive(list)

Next == Capture \/ RetryDue \/ Step \/ \E d \in Devices : Restart(d)

Spec == Init /\ [][Next]_vars

\* The worker goes on, a pause ends and every request has an end; answers
\* are bad only MaxFaults times.
FairSpec == Spec /\ WF_vars(Step) /\ WF_vars(RetryDue)

-----------------------------------------------------------------------------
TypeOK ==
    /\ device \in Devices
    /\ of \in Seq(Devices) /\ Len(of) <= MaxEvents
    /\ queue \subseteq DOMAIN of /\ dead \subseteq DOMAIN of
    /\ queue \intersect dead = {}
    /\ attempts \in [Events -> 0..MaxAttempts] /\ pause \in BOOLEAN
    /\ sent \subseteq queue /\ faults \in 0..MaxFaults

\* Events recorded under one id are never uploaded under another, whatever
\* the operator configures while they wait.
OwnDeviceOnly == \A p \in posted : of[p[1]] = p[2]

\* Whatever the answers look like, an event leaves the outbox only when the
\* backend has it or it has been set aside.
NeverDropped == DOMAIN of \subseteq queue \union dead \union stored

\* Set aside is only what the backend rejected, by itself or with its batch.
SetAsideForAReason == dead \subseteq refused \union unreadable

\* What is posted has been captured: with it the three are inductive.
WireInvariant ==
    /\ TypeOK /\ \A p \in posted : p[1] \in DOMAIN of
    /\ OwnDeviceOnly /\ NeverDropped /\ SetAsideForAReason

\* A row of another device stalls the rows behind it as long as the other id
\* is configured, and no longer: with no such row left, or with its id
\* restored, the outbox drains.
OwnRowsOnly == \A e \in queue : of[e] = device
StallEnds == <>[]OwnRowsOnly => <>[](queue = {})
=============================================================================
