---------------------- MODULE AttendanceDeliveryProofs ----------------------
(***************************************************************************)
(* Proofs about AttendanceDelivery for every number of events, batch size, *)
(* retry parameter and fault budget.                                       *)
(***************************************************************************)
EXTENDS AttendanceDelivery, TLAPS

-----------------------------------------------------------------------------
(* What retry_at guarantees, for every delay, cap and jitter.              *)

\* The exponential delay is a natural number no larger than its cap, for any
\* attempt count (retry_policy.cpp: the shift is clamped, the delay capped).
LEMMA BackoffBounded ==
    ASSUME NEW a \in Int
    PROVE  Backoff(a) \in Nat /\ Backoff(a) <= MaxDelay
<1>1. Clamp(a, 0, 9) + 1 \in 1..10
  BY DEF Clamp
<1>2. Shifted \in [1..10 -> Nat]
  BY DEF Shifted
<1>3. Shifted[Clamp(a, 0, 9) + 1] \in Nat
  BY <1>1, <1>2
<1>4. ASSUME NEW k \in Nat PROVE BaseDelay * k \in Nat
  BY RetryAssumption
<1>5. BaseDelay * Shifted[Clamp(a, 0, 9) + 1] \in Nat
  BY <1>3, <1>4
<1> QED
  BY <1>5, RetryAssumption DEF Backoff, Lesser

\* A retry never lies before the instant it is computed at, and never before
\* the delay the server asked for.
LEMMA RetryAtLater ==
    ASSUME NEW t \in Nat, NEW a \in Int, NEW h \in Header, NEW j \in Nat
    PROVE  /\ RetryAt(t, a, h, j) \in Nat
           /\ RetryAt(t, a, h, j) >= t + ServerDelay(h, t)
<1>1. ServerDelay(h, t) \in Nat
  BY DEF ServerDelay, Header, Larger
<1>2. Backoff(a) \in Nat
  BY BackoffBounded
<1> QED
  BY <1>1, <1>2, RetryAssumption DEF RetryAt, Larger, Lesser

-----------------------------------------------------------------------------
(***************************************************************************)
(* Type correctness.                                                       *)
(***************************************************************************)

\* Postponing rows keeps the types of the tables: the attempts column stays
\* within its cap.
LEMMA PostponedTypes ==
    ASSUME TypeOK, NEW S, NEW next \in Nat, Postponed(S, next)
    PROVE  /\ DOMAIN outbox' = DOMAIN outbox
           /\ outbox' \in [DOMAIN outbox' -> Row]
           /\ notBefore' \in Nat
<1>1. DOMAIN outbox' = DOMAIN outbox
  BY DEF Postponed
<1>2. \A e \in DOMAIN outbox : outbox'[e] \in Row
  <2> TAKE e \in DOMAIN outbox
  <2>1. outbox[e] \in Row
    BY DEF TypeOK
  <2>2. Lesser(outbox[e].attempts + 1, MaxAttempts) \in 0..MaxAttempts
    BY <2>1, DeliveryAssumption DEF Row, Lesser
  <2> QED
    BY <2>1, <2>2 DEF Postponed, Row
<1>3. outbox' \in [DOMAIN outbox' -> Row]
  BY <1>1, <1>2 DEF Postponed
<1>4. notBefore' \in Nat
  BY DEF Postponed, TypeOK, Larger
<1> QED
  BY <1>1, <1>3, <1>4

\* The same for the retry of a whole batch, whatever its transaction does.
LEMMA RetryBatchTypes ==
    ASSUME TypeOK, NEW h \in Header, NEW tx \in Outcome, RetryBatch(h, tx)
    PROVE  /\ DOMAIN outbox' = DOMAIN outbox
           /\ outbox' \in [DOMAIN outbox' -> Row]
           /\ notBefore' \in Nat
<1>1. CASE Applies(tx)
  <2>1. PICK e \in DOMAIN batch, j \in 0..MaxJitter :
           Postponed(DOMAIN batch, RetryAt(now, batch[e], h, j))
    BY <1>1 DEF RetryBatch
  <2>2. batch[e] \in Int /\ now \in Nat /\ j \in Nat
    BY RetryAssumption, DeliveryAssumption DEF TypeOK
  <2>3. RetryAt(now, batch[e], h, j) \in Nat
    BY <2>2, RetryAtLater
  <2> QED
    BY <2>1, <2>3, PostponedTypes
<1>2. CASE ~Applies(tx)
  BY <1>2 DEF RetryBatch, TypeOK
<1> QED
  BY <1>1, <1>2

\* Settling rows keeps the types of the tables.
LEMMA SettleRowsTypes ==
    ASSUME TypeOK, NEW D, NEW R, SettleRows(D, R)
    PROVE  /\ DOMAIN outbox' = DOMAIN outbox \ (D \cup R)
           /\ outbox' \in [DOMAIN outbox' -> Row]
           /\ \A e \in DOMAIN outbox' : outbox'[e] = outbox[e]
           /\ deadLetter' = deadLetter \cup (R \cap DOMAIN outbox)
           /\ deadLetter' \subseteq Events
  BY DEF SettleRows, Restricted, TypeOK

LEMMA EnsureEnqueuedTypes ==
    ASSUME TypeOK, NEW e \in Events, EnsureEnqueued(e)
    PROVE  /\ DOMAIN outbox' \subseteq Events
           /\ outbox' \in [DOMAIN outbox' -> Row]
           /\ queued' \subseteq Events
<1>1. CASE e \in DOMAIN outbox \cup deadLetter
  BY <1>1 DEF EnsureEnqueued, TypeOK
<1>2. CASE e \notin DOMAIN outbox \cup deadLetter
  <2>1. FreshRow \in Row
    BY DeliveryAssumption DEF FreshRow, Row
  <2> QED
    BY <1>2, <2>1 DEF EnsureEnqueued, TypeOK
<1> QED
  BY <1>1, <1>2

LEMMA EmptyTypes ==
    /\ DOMAIN NoBatch = {} /\ NoBatch \in [{} -> 0..MaxAttempts]
    /\ DOMAIN NoRows = {} /\ NoRows \in [{} -> Row]
    /\ NoVerdict \in [accepted : SUBSET Events, rejected : SUBSET Events]
  BY DEF NoBatch, NoRows, NoVerdict

LEMMA FaultTypes == TypeOK /\ (Fault \/ UNCHANGED faults) => faults' \in 0..MaxFaults
  BY DeliveryAssumption DEF TypeOK, Fault

\* Every step of either thread, of the backend and of the environment keeps
\* the type invariant.
LEMMA TypeStep == TypeOK /\ [Next]_vars => TypeOK'
<1> SUFFICES ASSUME TypeOK, [Next]_vars
             PROVE  TypeOK'
  OBVIOUS
<1> USE DEF durable, ownerVars, workerVars, backend
<1>1. CASE LoopTest
  BY <1>1 DEF LoopTest, TypeOK
<1>2. ASSUME NEW n \in 0..FrameFaces, Frame(n) PROVE TypeOK'
  <2>1. pending' \subseteq Events /\ nextId' \in 1..(MaxEvents + 1)
    BY <1>2, DeliveryAssumption DEF Frame, TypeOK, Events
  <2> QED
    BY <1>2, <2>1 DEF Frame, TypeOK
<1>3. ASSUME NEW e \in Events, NEW tx \in Outcome, CommitNext(e, tx)
      PROVE  TypeOK'
  <2>1. faults' \in 0..MaxFaults
    BY <1>3, FaultTypes DEF CommitNext, Charge
  <2>2. /\ DOMAIN outbox' \subseteq Events
        /\ outbox' \in [DOMAIN outbox' -> Row]
        /\ queued' \subseteq Events
    <3>1. CASE Applies(tx)
      BY <1>3, <3>1, EnsureEnqueuedTypes DEF CommitNext
    <3>2. CASE ~Applies(tx)
      BY <1>3, <3>2 DEF CommitNext, TypeOK
    <3> QED
      BY <3>1, <3>2
  <2>3. /\ pending' \subseteq Events /\ reported' \subseteq Events
        /\ owner' \in {"top", "frame", "drain", "closing", "joining", "down"}
    BY <1>3 DEF CommitNext, TypeOK
  <2> QED
    BY <1>3, <2>1, <2>2, <2>3 DEF CommitNext, TypeOK
<1>4. CASE Close
  BY <1>4 DEF Close, TypeOK
<1>5. CASE Exit
  BY <1>5 DEF Exit, TypeOK
<1>6. CASE Restart
  BY <1>6 DEF Restart, TypeOK
<1>7. CASE BeginStep
  <2>1. Due(now) \subseteq DOMAIN outbox
    BY DEF Due, Eligible
  <2>2. batch' \in [Due(now) -> 0..MaxAttempts] /\ DOMAIN batch' = Due(now)
    BY <1>7, <2>1 DEF BeginStep, TypeOK, Row
  <2> QED
    BY <1>7, <2>1, <2>2 DEF BeginStep, TypeOK
<1>8. ASSUME NEW A \in SUBSET Events, NEW R \in SUBSET Events, Process(A, R)
      PROVE  TypeOK'
  <2>1. faults' \in 0..MaxFaults
    BY <1>8, FaultTypes DEF Process
  <2> QED
    BY <1>8, <2>1 DEF Process, TypeOK
<1>9. CASE AuthRefused
  BY <1>9, FaultTypes, EmptyTypes DEF AuthRefused, EndStep, TypeOK
<1>10. ASSUME NEW tx \in Outcome, TransportFailure(tx) PROVE TypeOK'
  <2>1. NoHeader \in Header
    BY DEF NoHeader, Header
  <2>2. faults' \in 0..MaxFaults /\ orphans' \subseteq Events
    BY <1>10, FaultTypes DEF TransportFailure, TypeOK
  <2>3. /\ DOMAIN outbox' = DOMAIN outbox
        /\ outbox' \in [DOMAIN outbox' -> Row]
        /\ notBefore' \in Nat
    BY <1>10, <2>1, RetryBatchTypes DEF TransportFailure
  <2> QED
    BY <1>10, <2>2, <2>3, EmptyTypes
    DEF TransportFailure, RetryBatch, EndStep, TypeOK
<1>11. ASSUME NEW h \in Headers, NEW tx \in Outcome, ErrorAnswer(h, tx)
       PROVE  TypeOK'
  <2>1. faults' \in 0..MaxFaults
    BY <1>11, FaultTypes DEF ErrorAnswer
  <2>2. /\ DOMAIN outbox' = DOMAIN outbox
        /\ outbox' \in [DOMAIN outbox' -> Row]
        /\ notBefore' \in Nat
    BY <1>11, DeliveryAssumption, RetryBatchTypes DEF ErrorAnswer
  <2> QED
    BY <1>11, <2>1, <2>2, EmptyTypes
    DEF ErrorAnswer, RetryBatch, EndStep, TypeOK
<1>12. ASSUME NEW tx \in Outcome, SchemaRefused(tx) PROVE TypeOK'
  <2>1. faults' \in 0..MaxFaults
    BY <1>12, FaultTypes DEF SchemaRefused
  <2>2. /\ DOMAIN outbox' \subseteq DOMAIN outbox
        /\ outbox' \in [DOMAIN outbox' -> Row]
        /\ deadLetter' \subseteq Events
    <3>1. CASE Applies(tx)
      BY <1>12, <3>1, SettleRowsTypes DEF SchemaRefused
    <3>2. CASE ~Applies(tx)
      BY <1>12, <3>2 DEF SchemaRefused, TypeOK
    <3> QED
      BY <3>1, <3>2
  <2> QED
    BY <1>12, <2>1, <2>2, EmptyTypes DEF SchemaRefused, EndStep, TypeOK
<1>13. ASSUME NEW S \in SUBSET Events, NEW tx \in Outcome, Acknowledge(S, tx)
       PROVE  TypeOK'
  <2>1. faults' \in 0..MaxFaults
    BY <1>13, FaultTypes DEF Acknowledge
  <2>2. /\ DOMAIN outbox' \subseteq DOMAIN outbox
        /\ outbox' \in [DOMAIN outbox' -> Row]
        /\ deadLetter' \subseteq Events
    <3>1. CASE Applies(tx)
      BY <1>13, <3>1, SettleRowsTypes DEF Acknowledge
    <3>2. CASE ~Applies(tx)
      BY <1>13, <3>2 DEF Acknowledge, TypeOK
    <3> QED
      BY <3>1, <3>2
  <2>3. /\ DOMAIN batch' \subseteq Events
        /\ batch' \in [DOMAIN batch' -> 0..MaxAttempts]
        /\ call' \in {"none", "acked"}
        /\ verdict' \in [accepted : SUBSET Events, rejected : SUBSET Events]
    BY <1>13, EmptyTypes DEF Acknowledge, Restricted, EndStep, TypeOK
  <2> QED
    BY <1>13, <2>1, <2>2, <2>3 DEF Acknowledge, TypeOK
<1>14. ASSUME NEW h \in Headers, NEW tx \in Outcome, RetryMissing(h, tx)
       PROVE  TypeOK'
  <2>1. faults' \in 0..MaxFaults
    BY <1>14, FaultTypes DEF RetryMissing, Charge
  <2>2. /\ DOMAIN outbox' = DOMAIN outbox
        /\ outbox' \in [DOMAIN outbox' -> Row]
        /\ notBefore' \in Nat
    BY <1>14, DeliveryAssumption, RetryBatchTypes DEF RetryMissing
  <2> QED
    BY <1>14, <2>1, <2>2, EmptyTypes
    DEF RetryMissing, RetryBatch, EndStep, TypeOK
<1>15. CASE Unblock
  BY <1>15 DEF Unblock, TypeOK
<1>16. CASE Stop
  BY <1>16, FaultTypes DEF Stop, TypeOK
<1>17. CASE Crash
  BY <1>17, FaultTypes, EmptyTypes DEF Crash, TypeOK
<1>18. ASSUME NEW e \in Events, LateArrival(e) PROVE TypeOK'
  BY <1>18 DEF LateArrival, TypeOK
<1>19. CASE Tick
  BY <1>19 DEF Tick, TypeOK
<1>20. CASE UNCHANGED vars
  BY <1>20 DEF vars, TypeOK
<1> QED
  BY <1>1, <1>2, <1>3, <1>4, <1>5, <1>6, <1>7, <1>8, <1>9, <1>10, <1>11,
     <1>12, <1>13, <1>14, <1>15, <1>16, <1>17, <1>18, <1>19, <1>20
  DEF Next, Owner, Worker, Environment, Answer

LEMMA InitTypes == Init => TypeOK
<1> SUFFICES ASSUME Init PROVE TypeOK
  OBVIOUS
<1>1. /\ DOMAIN outbox \subseteq Events /\ outbox \in [DOMAIN outbox -> Row]
      /\ DOMAIN batch \subseteq Events
      /\ batch \in [DOMAIN batch -> 0..MaxAttempts]
      /\ verdict \in [accepted : SUBSET Events, rejected : SUBSET Events]
  BY EmptyTypes DEF Init
<1>2. nextId \in 1..(MaxEvents + 1) /\ faults \in 0..MaxFaults
  BY DeliveryAssumption DEF Init
<1> QED
  BY <1>1, <1>2 DEF Init, TypeOK

\* Type correctness of the delivery path, the cap of the attempts column
\* included.
THEOREM TypeCorrect == Spec => []TypeOK
<1> QED
  BY InitTypes, TypeStep, PTL DEF Spec

-----------------------------------------------------------------------------
(***************************************************************************)
(* The delivery invariant.                                                 *)
(***************************************************************************)

\* retry only changes the retry columns and moves the endpoint pause with
\* them.
LEMMA RetryBatchEffect ==
    ASSUME TypeOK, EndpointGate, NEW h \in Header, NEW tx \in Outcome,
           RetryBatch(h, tx)
    PROVE  EndpointGate' /\ notBefore' >= notBefore
<1>1. CASE Applies(tx)
  <2>1. PICK e \in DOMAIN batch, j \in 0..MaxJitter :
           Postponed(DOMAIN batch, RetryAt(now, batch[e], h, j))
    BY <1>1 DEF RetryBatch
  <2> DEFINE next == RetryAt(now, batch[e], h, j)
  <2>2. next \in Nat
    <3>1. batch[e] \in Int /\ now \in Nat /\ j \in Nat
      BY RetryAssumption, DeliveryAssumption DEF TypeOK
    <3> QED
      BY <3>1, RetryAtLater
  <2>3. Postponed(DOMAIN batch, next)
    BY <2>1
  <2> HIDE DEF next
  <2>4. notBefore' >= notBefore /\ notBefore' >= next
    BY <2>2, <2>3 DEF Postponed, Larger, TypeOK
  <2>5. \A f \in DOMAIN outbox' : outbox'[f].next <= notBefore'
    <3> SUFFICES ASSUME NEW f \in DOMAIN outbox'
                 PROVE  outbox'[f].next <= notBefore'
      OBVIOUS
    <3>1. f \in DOMAIN outbox
      BY <2>3 DEF Postponed
    <3>2. outbox[f] \in Row /\ outbox[f].next <= notBefore
      BY <3>1 DEF TypeOK, EndpointGate
    <3>3. outbox'[f].next \in {next, outbox[f].next}
      BY <2>3, <3>1 DEF Postponed
    <3>4. notBefore' \in Nat
      BY <2>2, <2>3, PostponedTypes
    <3> QED
      BY <2>2, <2>4, <3>2, <3>3, <3>4 DEF Row, TypeOK
  <2> QED
    BY <2>4, <2>5 DEF EndpointGate
<1>2. CASE ~Applies(tx)
  BY <1>2 DEF RetryBatch, EndpointGate, TypeOK
<1> QED
  BY <1>1, <1>2

\* A retry changes no set of events; it ends the step, so that no row of a
\* request is in flight any more.
LEMMA RetryBatchInvariant ==
    ASSUME DeliveryInvariant, TypeOK', NEW h \in Header, NEW tx \in Outcome,
           RetryBatch(h, tx), orphans' \subseteq orphans \cup DOMAIN batch
    PROVE  DeliveryInvariant'
<1> USE DEF DeliveryInvariant
<1>1. DOMAIN outbox' = DOMAIN outbox
  BY RetryBatchTypes
<1>2. EndpointGate'
  BY RetryBatchEffect
<1>3. BatchStillQueued' /\ VerdictTruthful'
  BY EmptyTypes
  DEF RetryBatch, EndStep, BatchStillQueued, VerdictTruthful, NoVerdict
<1>4. DurableBeforeUpload'
  BY <1>1 DEF RetryBatch, DurableBeforeUpload, BatchStillQueued, ownerVars
<1>5. OneTable' /\ CommittedNeverLost' /\ NothingSilentlyLost'
  BY <1>1
  DEF RetryBatch, OneTable, CommittedNeverLost, NothingSilentlyLost, ownerVars
<1> QED
  BY <1>2, <1>3, <1>4, <1>5

\* Deleting rows the backend has stored and moving others to the dead-letter
\* table loses no event.
LEMMA SettleRowsInvariant ==
    ASSUME DeliveryInvariant, NEW D, NEW R, SettleRows(D, R),
           D \subseteq stored, D \cap R = {},
           UNCHANGED <<notBefore, queued, ownerVars, stored, orphans>>
    PROVE  /\ OneTable' /\ EndpointGate' /\ DurableBeforeUpload'
           /\ CommittedNeverLost' /\ NothingSilentlyLost'
<1> USE DEF DeliveryInvariant
<1>1. /\ DOMAIN outbox' = DOMAIN outbox \ (D \cup R)
      /\ \A e \in DOMAIN outbox' : outbox'[e] = outbox[e]
      /\ deadLetter' = deadLetter \cup (R \cap DOMAIN outbox)
  BY SettleRowsTypes
<1>2. OneTable'
  BY <1>1 DEF OneTable
<1>3. EndpointGate'
  BY <1>1 DEF EndpointGate
<1>4. DurableBeforeUpload'
  BY <1>1 DEF DurableBeforeUpload
<1>5. CommittedNeverLost'
  BY <1>1 DEF CommittedNeverLost, ownerVars
<1>6. NothingSilentlyLost'
  BY <1>1 DEF NothingSilentlyLost, ownerVars
<1> QED
  BY <1>2, <1>3, <1>4, <1>5, <1>6

\* Inserting an event that is in neither table keeps the tables disjoint and
\* leaves the rows of a request in flight alone.
LEMMA EnsureEnqueuedEffect ==
    ASSUME DeliveryInvariant, NEW e \in Events, EnsureEnqueued(e),
           UNCHANGED <<deadLetter, notBefore, batch, stored, orphans>>
    PROVE  /\ OneTable' /\ EndpointGate' /\ DurableBeforeUpload'
           /\ BatchStillQueued'
           /\ DOMAIN outbox \subseteq DOMAIN outbox'
           /\ e \in DOMAIN outbox' \cup deadLetter'
<1> USE DEF DeliveryInvariant
<1>1. CASE e \in DOMAIN outbox \cup deadLetter
  BY <1>1
  DEF EnsureEnqueued, OneTable, EndpointGate, DurableBeforeUpload,
      BatchStillQueued
<1>2. CASE e \notin DOMAIN outbox \cup deadLetter
  <2>1. /\ DOMAIN outbox' = DOMAIN outbox \cup {e}
        /\ \A f \in DOMAIN outbox : outbox'[f] = outbox[f]
        /\ outbox'[e] = FreshRow
        /\ queued' = queued \cup {e}
    BY <1>2 DEF EnsureEnqueued
  <2>2. OneTable' /\ DurableBeforeUpload' /\ BatchStillQueued'
    BY <1>2, <2>1 DEF OneTable, DurableBeforeUpload, BatchStillQueued
  <2>3. EndpointGate'
    BY <2>1 DEF EndpointGate, FreshRow, TypeOK
  <2> QED
    BY <2>1, <2>2, <2>3
<1> QED
  BY <1>1, <1>2

\* Every step keeps the delivery invariant.
LEMMA InvariantStep == DeliveryInvariant /\ [Next]_vars => DeliveryInvariant'
<1> SUFFICES ASSUME DeliveryInvariant, [Next]_vars
             PROVE  DeliveryInvariant'
  OBVIOUS
<1>t. TypeOK /\ TypeOK'
  BY TypeStep DEF DeliveryInvariant
<1> USE DEF DeliveryInvariant, durable, ownerVars, workerVars, backend
<1>1. CASE LoopTest
  BY <1>1, <1>t
  DEF LoopTest, OneTable, BatchStillQueued, VerdictTruthful, EndpointGate,
      DurableBeforeUpload, CommittedNeverLost, NothingSilentlyLost
<1>2. ASSUME NEW n \in 0..FrameFaces, Frame(n) PROVE DeliveryInvariant'
  <2>1. nextId \in Nat /\ n \in Nat
    BY <1>t, DeliveryAssumption DEF TypeOK
  <2>2. 1..(nextId' - 1) = 1..(nextId - 1) \cup pending'
    <3>1. nextId \in 1..(MaxEvents + 1)
      BY <1>t DEF TypeOK
    <3> QED
      BY <1>2, <2>1, <3>1 DEF Frame
  <2>3. NothingSilentlyLost'
    BY <1>2, <2>2 DEF Frame, NothingSilentlyLost
  <2> QED
    BY <1>2, <1>t, <2>3
    DEF Frame, OneTable, BatchStillQueued, VerdictTruthful, EndpointGate,
        DurableBeforeUpload, CommittedNeverLost
<1>3. ASSUME NEW e \in Events, NEW tx \in Outcome, CommitNext(e, tx)
      PROVE  DeliveryInvariant'
  <2>1. VerdictTruthful'
    BY <1>3 DEF CommitNext, VerdictTruthful
  <2>2. CASE Applies(tx)
    <3>1. /\ OneTable' /\ EndpointGate' /\ DurableBeforeUpload'
          /\ BatchStillQueued'
          /\ DOMAIN outbox \subseteq DOMAIN outbox'
          /\ e \in DOMAIN outbox' \cup deadLetter'
      BY <1>3, <2>2, EnsureEnqueuedEffect DEF CommitNext
    <3>2. CommittedNeverLost'
      BY <1>3, <3>1 DEF CommitNext, CommittedNeverLost
    <3>3. NothingSilentlyLost'
      BY <1>3, <3>1 DEF CommitNext, NothingSilentlyLost
    <3> QED
      BY <1>t, <2>1, <3>1, <3>2, <3>3
  <2>3. CASE ~Applies(tx)
    BY <1>3, <1>t, <2>1, <2>3
    DEF CommitNext, Applies, OneTable, BatchStillQueued, EndpointGate,
        DurableBeforeUpload, CommittedNeverLost, NothingSilentlyLost
  <2> QED
    BY <2>2, <2>3
<1>4. CASE Close
  BY <1>4, <1>t
  DEF Close, OneTable, BatchStillQueued, VerdictTruthful, EndpointGate,
      DurableBeforeUpload, CommittedNeverLost, NothingSilentlyLost
<1>5. CASE Exit
  BY <1>5, <1>t
  DEF Exit, OneTable, BatchStillQueued, VerdictTruthful, EndpointGate,
      DurableBeforeUpload, CommittedNeverLost, NothingSilentlyLost
<1>6. CASE Restart
  BY <1>6, <1>t
  DEF Restart, OneTable, BatchStillQueued, VerdictTruthful, EndpointGate,
      DurableBeforeUpload, CommittedNeverLost, NothingSilentlyLost
<1>7. CASE BeginStep
  <2>1. Due(now) \subseteq DOMAIN outbox
    BY DEF Due, Eligible
  <2>2. BatchStillQueued'
    BY <1>7, <2>1 DEF BeginStep, BatchStillQueued
  <2>3. VerdictTruthful'
    BY <1>7 DEF BeginStep, VerdictTruthful, NoVerdict
  <2> QED
    BY <1>7, <1>t, <2>2, <2>3
    DEF BeginStep, OneTable, EndpointGate, DurableBeforeUpload,
        CommittedNeverLost, NothingSilentlyLost
<1>8. ASSUME NEW A \in SUBSET Events, NEW R \in SUBSET Events, Process(A, R)
      PROVE  DeliveryInvariant'
  <2>1. VerdictTruthful'
    BY <1>8 DEF Process, VerdictTruthful
  <2>2. DurableBeforeUpload'
    BY <1>8 DEF Process, DurableBeforeUpload, BatchStillQueued
  <2> QED
    BY <1>8, <1>t, <2>1, <2>2
    DEF Process, OneTable, BatchStillQueued, EndpointGate,
        CommittedNeverLost, NothingSilentlyLost
<1>9. CASE AuthRefused
  <2>1. BatchStillQueued' /\ VerdictTruthful'
    BY <1>9, EmptyTypes
    DEF AuthRefused, EndStep, BatchStillQueued, VerdictTruthful, NoVerdict
  <2> QED
    BY <1>9, <1>t, <2>1
    DEF AuthRefused, OneTable, EndpointGate, DurableBeforeUpload,
        CommittedNeverLost, NothingSilentlyLost
<1>10. ASSUME NEW tx \in Outcome, TransportFailure(tx)
       PROVE  DeliveryInvariant'
  <2>1. NoHeader \in Header
    BY DEF NoHeader, Header
  <2> QED
    BY <1>10, <1>t, <2>1, RetryBatchInvariant DEF TransportFailure
<1>11. ASSUME NEW h \in Headers, NEW tx \in Outcome, ErrorAnswer(h, tx)
       PROVE  DeliveryInvariant'
  BY <1>11, <1>t, DeliveryAssumption, RetryBatchInvariant DEF ErrorAnswer
<1>12. ASSUME NEW tx \in Outcome, SchemaRefused(tx) PROVE DeliveryInvariant'
  <2>1. BatchStillQueued' /\ VerdictTruthful'
    BY <1>12, EmptyTypes
    DEF SchemaRefused, EndStep, BatchStillQueued, VerdictTruthful, NoVerdict
  <2>2. CASE Applies(tx)
    BY <1>12, <1>t, <2>1, <2>2, SettleRowsInvariant DEF SchemaRefused
  <2>3. CASE ~Applies(tx)
    BY <1>12, <1>t, <2>1, <2>3
    DEF SchemaRefused, OneTable, EndpointGate, DurableBeforeUpload,
        CommittedNeverLost, NothingSilentlyLost
  <2> QED
    BY <2>2, <2>3
<1>13. ASSUME NEW S \in SUBSET Events, NEW tx \in Outcome, Acknowledge(S, tx)
       PROVE  DeliveryInvariant'
  <2>1. VerdictTruthful'
    BY <1>13, EmptyTypes DEF Acknowledge, EndStep, VerdictTruthful, NoVerdict
  <2>2. CASE Applies(tx)
    <3> DEFINE D == S \cap verdict.accepted
               R == S \cap verdict.rejected
    <3>1. SettleRows(D, R) /\ D \cup R = S
      BY <1>13, <2>2 DEF Acknowledge
    <3>2. D \subseteq stored /\ D \cap R = {}
      BY DEF VerdictTruthful
    <3>3. /\ OneTable' /\ EndpointGate' /\ DurableBeforeUpload'
          /\ CommittedNeverLost' /\ NothingSilentlyLost'
      BY <1>13, <3>1, <3>2, SettleRowsInvariant DEF Acknowledge
    <3>4. /\ DOMAIN outbox' = DOMAIN outbox \ S
          /\ \A e \in DOMAIN outbox' : outbox'[e] = outbox[e]
      BY <1>t, <3>1, SettleRowsTypes
    <3>5. /\ DOMAIN batch' \subseteq DOMAIN batch \ S
          /\ \A e \in DOMAIN batch' : batch'[e] = batch[e]
      BY <1>13, EmptyTypes DEF Acknowledge, EndStep, Restricted
    <3>6. BatchStillQueued'
      BY <3>4, <3>5 DEF BatchStillQueued
    <3> QED
      BY <1>t, <2>1, <3>3, <3>6
  <2>3. CASE ~Applies(tx)
    <3>1. BatchStillQueued'
      BY <1>13, <2>3, EmptyTypes
      DEF Acknowledge, Applies, EndStep, BatchStillQueued
    <3> QED
      BY <1>13, <1>t, <2>1, <2>3, <3>1
      DEF Acknowledge, OneTable, EndpointGate, DurableBeforeUpload,
          CommittedNeverLost, NothingSilentlyLost
  <2> QED
    BY <2>2, <2>3
<1>14. ASSUME NEW h \in Headers, NEW tx \in Outcome, RetryMissing(h, tx)
       PROVE  DeliveryInvariant'
  BY <1>14, <1>t, DeliveryAssumption, RetryBatchInvariant DEF RetryMissing
<1>15. CASE Unblock
  BY <1>15, <1>t
  DEF Unblock, OneTable, BatchStillQueued, VerdictTruthful, EndpointGate,
      DurableBeforeUpload, CommittedNeverLost, NothingSilentlyLost
<1>16. CASE Stop
  BY <1>16, <1>t
  DEF Stop, OneTable, BatchStillQueued, VerdictTruthful, EndpointGate,
      DurableBeforeUpload, CommittedNeverLost, NothingSilentlyLost
<1>17. CASE Crash
  <2>1. BatchStillQueued' /\ VerdictTruthful'
    BY <1>17, EmptyTypes
    DEF Crash, BatchStillQueued, VerdictTruthful, NoVerdict
  <2>2. DurableBeforeUpload'
    BY <1>17 DEF Crash, DurableBeforeUpload, BatchStillQueued
  <2> QED
    BY <1>17, <1>t, <2>1, <2>2
    DEF Crash, OneTable, EndpointGate, CommittedNeverLost, NothingSilentlyLost
<1>18. ASSUME NEW e \in Events, LateArrival(e) PROVE DeliveryInvariant'
  BY <1>18, <1>t
  DEF LateArrival, OneTable, BatchStillQueued, VerdictTruthful, EndpointGate,
      DurableBeforeUpload, CommittedNeverLost, NothingSilentlyLost
<1>19. CASE Tick
  BY <1>19, <1>t
  DEF Tick, OneTable, BatchStillQueued, VerdictTruthful, EndpointGate,
      DurableBeforeUpload, CommittedNeverLost, NothingSilentlyLost
<1>20. CASE UNCHANGED vars
  BY <1>20, <1>t
  DEF vars, OneTable, BatchStillQueued, VerdictTruthful, EndpointGate,
      DurableBeforeUpload, CommittedNeverLost, NothingSilentlyLost
<1> QED
  BY <1>1, <1>2, <1>3, <1>4, <1>5, <1>6, <1>7, <1>8, <1>9, <1>10, <1>11,
     <1>12, <1>13, <1>14, <1>15, <1>16, <1>17, <1>18, <1>19, <1>20
  DEF Next, Owner, Worker, Environment, Answer

\* The delivery invariant holds in every reachable state.
THEOREM InvariantHolds == Spec => []DeliveryInvariant
<1>1. Init => DeliveryInvariant
  <2> SUFFICES ASSUME Init PROVE DeliveryInvariant
    OBVIOUS
  <2>1. TypeOK
    BY InitTypes
  <2>2. DOMAIN outbox = {} /\ DOMAIN batch = {}
    BY EmptyTypes DEF Init
  <2> QED
    BY <2>1, <2>2
    DEF Init, DeliveryInvariant, OneTable, BatchStillQueued, VerdictTruthful,
        NoVerdict, EndpointGate, DurableBeforeUpload, CommittedNeverLost,
        NothingSilentlyLost
<1> QED
  BY <1>1, InvariantStep, PTL DEF Spec

\* An event announced as COMMITTED stays in the outbox, in the dead-letter
\* table or with the backend, for every number of events and failures.
THEOREM NoCommittedEventLost == Spec => []CommittedNeverLost
<1>1. DeliveryInvariant => CommittedNeverLost
  BY DEF DeliveryInvariant
<1> QED
  BY <1>1, InvariantHolds, PTL

\* No event disappears without being announced as given up.
THEOREM NoSilentLoss == Spec => []NothingSilentlyLost
<1>1. DeliveryInvariant => NothingSilentlyLost
  BY DEF DeliveryInvariant
<1> QED
  BY <1>1, InvariantHolds, PTL

\* An event is never in both tables, so a refused event is never uploaded
\* again and moving a row never meets a primary key conflict.
THEOREM TablesDisjoint == Spec => []OneTable
<1>1. DeliveryInvariant => OneTable
  BY DEF DeliveryInvariant
<1> QED
  BY <1>1, InvariantHolds, PTL

\* The rows of a request in flight are still in the outbox as they were read.
THEOREM RowsInFlightStable == Spec => []BatchStillQueued
<1>1. DeliveryInvariant => BatchStillQueued
  BY DEF DeliveryInvariant
<1> QED
  BY <1>1, InvariantHolds, PTL

\* The endpoint pause covers the pause of every row.
THEOREM PauseCoversRows == Spec => []EndpointGate
<1>1. DeliveryInvariant => EndpointGate
  BY DEF DeliveryInvariant
<1> QED
  BY <1>1, InvariantHolds, PTL

-----------------------------------------------------------------------------
(***************************************************************************)
(* The endpoint pause and the dead-letter table only grow.                 *)
(***************************************************************************)

\* No step shortens the endpoint pause or takes an event out of the
\* dead-letter table; a restart keeps both.
THEOREM PauseKept == Spec => PauseAndRefusalsKept
<1> DEFINE Kept == notBefore' >= notBefore /\ deadLetter \subseteq deadLetter'
<1>1. ASSUME DeliveryInvariant, [Next]_vars PROVE Kept
  <2>t. TypeOK /\ EndpointGate
    BY <1>1 DEF DeliveryInvariant
  <2>u. notBefore' = notBefore /\ deadLetter' = deadLetter => Kept
    BY <2>t DEF TypeOK
  <2>r. ASSUME NEW h \in Header, NEW tx \in Outcome, RetryBatch(h, tx)
        PROVE  Kept
    BY <2>t, <2>r, RetryBatchEffect DEF RetryBatch
  <2>h. NoHeader \in Header /\ Headers \subseteq Header
    BY DeliveryAssumption DEF NoHeader, Header
  <2>1. ASSUME NEW tx \in Outcome, TransportFailure(tx) PROVE Kept
    BY <2>1, <2>r, <2>h DEF TransportFailure
  <2>2. ASSUME NEW h \in Headers, NEW tx \in Outcome, ErrorAnswer(h, tx)
        PROVE  Kept
    BY <2>2, <2>r, <2>h DEF ErrorAnswer
  <2>3. ASSUME NEW h \in Headers, NEW tx \in Outcome, RetryMissing(h, tx)
        PROVE  Kept
    BY <2>3, <2>r, <2>h DEF RetryMissing
  <2>4. ASSUME NEW tx \in Outcome, SchemaRefused(tx) PROVE Kept
    BY <2>4, <2>t DEF SchemaRefused, SettleRows, TypeOK
  <2>5. ASSUME NEW S \in SUBSET Events, NEW tx \in Outcome, Acknowledge(S, tx)
        PROVE  Kept
    BY <2>5, <2>t DEF Acknowledge, SettleRows, TypeOK
  <2>6. ASSUME NEW e \in Events, NEW tx \in Outcome, CommitNext(e, tx)
        PROVE  Kept
    BY <2>6, <2>u DEF CommitNext
  <2>7. CASE \/ LoopTest \/ (\E n \in 0..FrameFaces : Frame(n)) \/ Close
             \/ Exit \/ Restart \/ BeginStep \/ AuthRefused \/ Unblock
             \/ (\E A, R \in SUBSET Events : Process(A, R))
             \/ Stop \/ Crash \/ (\E e \in Events : LateArrival(e)) \/ Tick
             \/ UNCHANGED vars
    BY <2>7, <2>u
    DEF LoopTest, Frame, Close, Exit, Restart, BeginStep, AuthRefused, Unblock,
        Process, Stop, Crash, LateArrival, Tick, vars, durable
  <2> QED
    BY <1>1, <2>1, <2>2, <2>3, <2>4, <2>5, <2>6, <2>7
    DEF Next, Owner, Worker, Environment, Answer
<1>2. DeliveryInvariant /\ [Next]_vars => [Kept]_vars
  BY <1>1
<1> QED
  BY <1>2, InvariantHolds, PTL DEF Spec, PauseAndRefusalsKept

-----------------------------------------------------------------------------
(***************************************************************************)
(* Refinement of AtLeastOnceQueue.                                         *)
(***************************************************************************)

\* Settling rows of the request in flight is a Settle step of the queue.
LEMMA SettleRefines ==
    ASSUME DeliveryInvariant, NEW D \in SUBSET Events, NEW R \in SUBSET Events,
           SettleRows(D, R), D \cup R \subseteq DOMAIN batch,
           D \subseteq stored, D \cap R = {}, UNCHANGED <<queued, stored>>
    PROVE  Queue!Next
<1>1. D \cup R \subseteq DOMAIN outbox
  BY DEF DeliveryInvariant, BatchStillQueued
<1>2. /\ DOMAIN outbox' = DOMAIN outbox \ (D \cup R)
      /\ deadLetter' = deadLetter \cup R
  BY <1>1, SettleRowsTypes DEF DeliveryInvariant
<1>3. Queue!Settle(D, R)
  BY <1>1, <1>2 DEF Queue!Settle
<1> QED
  BY <1>3 DEF Queue!Next

\* Every step is a step of the queue or leaves its view unchanged.
LEMMA QueueStep ==
    DeliveryInvariant /\ [Next]_vars => [Queue!Next]_(Queue!vars)
<1> SUFFICES ASSUME DeliveryInvariant, [Next]_vars
             PROVE  Queue!Next \/ UNCHANGED Queue!vars
  BY DEF Queue!vars
<1>t. TypeOK /\ BatchStillQueued /\ VerdictTruthful /\ DurableBeforeUpload
  BY DEF DeliveryInvariant
<1>h. NoHeader \in Header /\ Headers \subseteq Header
  BY DeliveryAssumption DEF NoHeader, Header
<1>r. ASSUME NEW h \in Header, NEW tx \in Outcome, RetryBatch(h, tx)
      PROVE  UNCHANGED Queue!vars
  <2>1. DOMAIN outbox' = DOMAIN outbox
    BY <1>r, <1>t, RetryBatchTypes
  <2> QED
    BY <1>r, <2>1 DEF RetryBatch, Queue!vars
<1>1. ASSUME NEW e \in Events, NEW tx \in Outcome, CommitNext(e, tx)
      PROVE  Queue!Next \/ UNCHANGED Queue!vars
  <2>1. CASE Applies(tx) /\ e \notin DOMAIN outbox \cup deadLetter
    <3>1. DOMAIN outbox' = DOMAIN outbox \cup {e} /\ queued' = queued \cup {e}
      BY <1>1, <2>1 DEF CommitNext, EnsureEnqueued
    <3>2. Queue!Take(e)
      BY <1>1, <2>1, <3>1 DEF CommitNext, Queue!Take, backend
    <3> QED
      BY <3>2 DEF Queue!Next
  <2>2. CASE ~(Applies(tx) /\ e \notin DOMAIN outbox \cup deadLetter)
    <3>1. UNCHANGED <<outbox, queued>>
      BY <1>1, <2>2 DEF CommitNext, EnsureEnqueued
    <3> QED
      BY <1>1, <3>1 DEF CommitNext, backend, Queue!vars
  <2> QED
    BY <2>1, <2>2
<1>2. ASSUME NEW A \in SUBSET Events, NEW R \in SUBSET Events, Process(A, R)
      PROVE  Queue!Next
  <2>1. A \subseteq queued
    BY <1>2, <1>t DEF Process, BatchStillQueued, DurableBeforeUpload
  <2>2. Queue!Receive(A)
    BY <1>2, <2>1 DEF Process, Queue!Receive, durable
  <2> QED
    BY <2>2 DEF Queue!Next
<1>3. ASSUME NEW e \in Events, LateArrival(e)
      PROVE  Queue!Next \/ UNCHANGED Queue!vars
  <2>1. CASE stored' = stored \cup {e}
    <3>1. Queue!Receive({e})
      BY <1>3, <1>t, <2>1
      DEF LateArrival, DurableBeforeUpload, Queue!Receive, durable
    <3> QED
      BY <3>1 DEF Queue!Next
  <2>2. CASE stored' = stored
    BY <1>3, <2>2 DEF LateArrival, durable, Queue!vars
  <2> QED
    BY <1>3, <2>1, <2>2 DEF LateArrival
<1>4. ASSUME NEW tx \in Outcome, SchemaRefused(tx)
      PROVE  Queue!Next \/ UNCHANGED Queue!vars
  <2>1. CASE Applies(tx)
    BY <1>4, <1>t, <2>1, SettleRefines DEF SchemaRefused, TypeOK
  <2>2. CASE ~Applies(tx)
    BY <1>4, <2>2 DEF SchemaRefused, Queue!vars
  <2> QED
    BY <2>1, <2>2
<1>5. ASSUME NEW S \in SUBSET Events, NEW tx \in Outcome, Acknowledge(S, tx)
      PROVE  Queue!Next \/ UNCHANGED Queue!vars
  <2>1. CASE Applies(tx)
    <3> DEFINE D == S \cap verdict.accepted
               R == S \cap verdict.rejected
    <3>1. SettleRows(D, R) /\ UNCHANGED <<queued, stored>>
      BY <1>5, <2>1 DEF Acknowledge
    <3>2. /\ D \in SUBSET Events /\ R \in SUBSET Events
          /\ D \cup R \subseteq DOMAIN batch
          /\ D \subseteq stored /\ D \cap R = {}
      BY <1>t DEF VerdictTruthful, TypeOK
    <3> QED
      BY <3>1, <3>2, SettleRefines
  <2>2. CASE ~Applies(tx)
    BY <1>5, <2>2 DEF Acknowledge, Queue!vars
  <2> QED
    BY <2>1, <2>2
<1>6. ASSUME NEW tx \in Outcome, TransportFailure(tx)
      PROVE  UNCHANGED Queue!vars
  BY <1>6, <1>r, <1>h DEF TransportFailure
<1>7. ASSUME NEW h \in Headers, NEW tx \in Outcome,
             ErrorAnswer(h, tx) \/ RetryMissing(h, tx)
      PROVE  UNCHANGED Queue!vars
  BY <1>7, <1>r, <1>h DEF ErrorAnswer, RetryMissing
<1>8. CASE \/ LoopTest \/ (\E n \in 0..FrameFaces : Frame(n)) \/ Close
           \/ Exit \/ Restart \/ BeginStep \/ AuthRefused \/ Unblock
           \/ Stop \/ Crash \/ Tick \/ UNCHANGED vars
  BY <1>8
  DEF LoopTest, Frame, Close, Exit, Restart, BeginStep, AuthRefused, Unblock,
      Stop, Crash, Tick, vars, durable, backend, Queue!vars
<1> QED
  BY <1>1, <1>2, <1>3, <1>4, <1>5, <1>6, <1>7, <1>8
  DEF Next, Owner, Worker, Environment, Answer

\* The two threads, the tables and the backend together implement the
\* at-least-once queue, for every number of events and failures.
THEOREM DeliveryImplementsQueue == Spec => ImplementsQueue
<1>1. Init => Queue!Init
  BY EmptyTypes DEF Init, Queue!Init
<1> QED
  BY <1>1, QueueStep, InvariantHolds, PTL DEF Spec, ImplementsQueue, Queue!Spec
=============================================================================
