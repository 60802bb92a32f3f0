-------------------------- MODULE GallerySyncProofs --------------------------
(***************************************************************************)
(* Proofs about GallerySync for any number of galleries, credentials and   *)
(* failures.                                                               *)
(***************************************************************************)
EXTENDS GallerySync, TLAPS

-----------------------------------------------------------------------------
(* What retry_at guarantees, for every delay, cap and jitter.              *)

\* The exponential delay is a natural number no larger than its cap, for any
\* attempt count (retry_policy.cpp: the shift is clamped, the delay capped).
LEMMA BackoffBounded ==
    ASSUME NEW a \in Int
    PROVE  Backoff(a) \in Nat /\ Backoff(a) <= MaxDelay
<1>1. Clamp(a, 0, 9) + 1 \in 1..10
  BY DEF Clamp
<1>2. Shifted \in [1..10 -> Nat]
  BY DEF Shifted
<1>3. Shifted[Clamp(a, 0, 9) + 1] \in Nat
  BY <1>1, <1>2
<1>4. ASSUME NEW k \in Nat PROVE BaseDelay * k \in Nat
  BY RetryAssumption
<1>5. BaseDelay * Shifted[Clamp(a, 0, 9) + 1] \in Nat
  BY <1>3, <1>4
<1> QED
  BY <1>5, RetryAssumption DEF Backoff, Lesser

\* A retry never lies before the instant it is computed at, and never before
\* the delay the server asked for.
LEMMA RetryAtLater ==
    ASSUME NEW t \in Nat, NEW a \in Int, NEW h \in Header, NEW j \in Nat
    PROVE  /\ RetryAt(t, a, h, j) \in Nat
           /\ RetryAt(t, a, h, j) >= t + ServerDelay(h, t)
<1>1. ServerDelay(h, t) \in Nat
  BY DEF ServerDelay, Header, Larger
<1>2. Backoff(a) \in Nat
  BY BackoffBounded
<1> QED
  BY <1>1, <1>2, RetryAssumption DEF RetryAt, Larger, Lesser

-----------------------------------------------------------------------------
(* The gallery                                                             *)

\* TypeOK in three parts: where the threads are, what is counted, and what is
\* a flag.
PlaceTypes ==
    /\ step \in {"idle", "attendance", "asking", "replacing", "committed"}
    /\ owner \in {"loop", "loading", "installing"}

CountTypes ==
    /\ server \in 1..MaxVersions /\ credential \in 1..MaxCredentials
    /\ token \in 0..MaxCredentials
    /\ wait \in Nat /\ attempts \in 0..MaxAttempts
    /\ old \in 0..MaxVersions /\ got \in 0..MaxVersions
    /\ stored \in 0..MaxVersions
    /\ snapshot \in 0..MaxVersions /\ installed \in 0..MaxVersions
    /\ faults \in 0..MaxFaults

FlagTypes ==
    /\ connected \in BOOLEAN /\ authConn \in BOOLEAN /\ refresh \in BOOLEAN
    /\ blocked \in BOOLEAN /\ restored \in BOOLEAN
    /\ dirty \in BOOLEAN /\ unsure \in BOOLEAN
    /\ reload \in BOOLEAN /\ hold \in BOOLEAN

\* Both threads are always at one of their places.
LEMMA PlaceStep == PlaceTypes /\ [Next]_vars => PlaceTypes'
  BY DEF PlaceTypes, Next, Worker, Owner, Channel, StepBegin, AttendanceDone,
         AttendanceThrows, Refused, NotModified, Fetched, PollFails, Replace,
         Replaced, TakeDirty, Load, Install, InstallFails, Restart, Connect,
         Reconcile, Disconnect, PublishGallery, RotateCredential, Tick,
         RetryDue, vars, ownerVars

\* A flag is only ever set, cleared or combined with other flags.
LEMMA FlagStep == FlagTypes /\ [Next]_vars => FlagTypes'
<1> SUFFICES ASSUME FlagTypes, [Next]_vars PROVE FlagTypes'
  OBVIOUS
<1> USE DEF FlagTypes, channelVars, gateVars, hintVars, dbVars, ownerVars
<1>1. CASE StepBegin
  BY <1>1 DEF StepBegin
<1>2. CASE AttendanceDone
  BY <1>2 DEF AttendanceDone
<1>3. CASE AttendanceThrows
  BY <1>3 DEF AttendanceThrows
<1>4. CASE Refused
  BY <1>4 DEF Refused
<1>5. CASE NotModified
  BY <1>5 DEF NotModified
<1>6. CASE Fetched
  BY <1>6 DEF Fetched
<1>7. CASE Replaced
  BY <1>7 DEF Replaced
<1>8. CASE TakeDirty
  BY <1>8 DEF TakeDirty
<1>9. CASE Load
  BY <1>9 DEF Load
<1>10. CASE Install
  BY <1>10 DEF Install
<1>11. CASE InstallFails
  BY <1>11 DEF InstallFails
<1>12. CASE Restart
  BY <1>12 DEF Restart
<1>13. CASE Connect
  BY <1>13 DEF Connect, Hint
<1>14. CASE Reconcile
  BY <1>14 DEF Reconcile, Hint
<1>15. CASE Disconnect
  BY <1>15 DEF Disconnect
<1>16. CASE PublishGallery
  BY <1>16 DEF PublishGallery
<1>17. CASE RotateCredential
  BY <1>17 DEF RotateCredential
<1>18. CASE Tick
  BY <1>18 DEF Tick
<1>19. CASE RetryDue
  BY <1>19 DEF RetryDue
<1>20. CASE \E h \in Headers, j \in 0..MaxJitter : PollFails(h, j)
  BY <1>20 DEF PollFails
<1>21. CASE \E tx \in {"ok", "failed", "uncertain"} : Replace(tx)
  BY <1>21 DEF Replace
<1>22. CASE UNCHANGED vars
  BY <1>22 DEF vars
<1> QED
  BY <1>1, <1>2, <1>3, <1>4, <1>5, <1>6, <1>7, <1>8, <1>9, <1>10, <1>11,
     <1>12, <1>13, <1>14, <1>15, <1>16, <1>17, <1>18, <1>19, <1>20, <1>21,
     <1>22
     DEF Next, Worker, Owner, Channel

\* Versions are copied from the server, credentials from the operator; the
\* retry policy yields a delay, and the attempts are capped.
LEMMA CountStep == CountTypes /\ [Next]_vars => CountTypes'
<1> SUFFICES ASSUME CountTypes, [Next]_vars PROVE CountTypes'
  OBVIOUS
<1>0. /\ MaxVersions \in Nat \ {0} /\ MaxCredentials \in Nat \ {0}
      /\ Poll \in Nat /\ MaxAttempts \in Nat \ {0} /\ MaxFaults \in Nat
  BY GalleryAssumption
<1> USE <1>0 DEF CountTypes, Fault, channelVars, gateVars, hintVars, pollVars,
                 dbVars, ownerVars
<1>1. CASE StepBegin
  BY <1>1 DEF StepBegin
<1>2. CASE AttendanceDone \/ AttendanceThrows \/ Refused
  BY <1>2 DEF AttendanceDone, AttendanceThrows, Refused
<1>3. CASE NotModified \/ Fetched \/ Replaced
  BY <1>3 DEF NotModified, Fetched, Replaced
<1>4. ASSUME NEW h \in Headers, NEW j \in 0..MaxJitter, PollFails(h, j)
      PROVE  CountTypes'
  <2>1. h \in Header /\ j \in Nat /\ attempts \in Int
    BY RetryAssumption, GalleryAssumption
  <2>2. wait' \in Nat
    BY <1>4, <2>1, RetryAtLater DEF PollFails
  <2>3. attempts' \in 0..MaxAttempts
    BY <1>4 DEF PollFails, Lesser
  <2> QED
    BY <1>4, <2>2, <2>3 DEF PollFails
<1>5. CASE \E tx \in {"ok", "failed", "uncertain"} : Replace(tx)
  BY <1>5 DEF Replace
<1>6. CASE Owner
  BY <1>6 DEF Owner, TakeDirty, Load, Install, InstallFails
<1>7. CASE Restart
  BY <1>7 DEF Restart
<1>8. CASE Channel
  BY <1>8 DEF Channel, Connect, Reconcile, Disconnect
<1>9. CASE PublishGallery \/ RotateCredential \/ Tick \/ RetryDue
  BY <1>9 DEF PublishGallery, RotateCredential, Tick, RetryDue
<1>10. CASE UNCHANGED vars
  BY <1>10 DEF vars
<1> QED
  BY <1>1, <1>2, <1>3, <1>4, <1>5, <1>6, <1>7, <1>8, <1>9, <1>10
     DEF Next, Worker

\* Every variable keeps its type: above all the attempt counter stays within
\* its cap, and a gallery that is stored, loaded or installed is one that the
\* server has published.
THEOREM GalleryTypeCorrect == Spec => []TypeOK
<1>1. Init => PlaceTypes /\ CountTypes /\ FlagTypes
  <2>1. Init => PlaceTypes
    BY DEF Init, PlaceTypes
  <2>2. Init => CountTypes
    BY GalleryAssumption DEF Init, CountTypes
  <2>3. Init => FlagTypes
    BY DEF Init, FlagTypes
  <2> QED
    BY <2>1, <2>2, <2>3
<1>2. PlaceTypes /\ CountTypes /\ FlagTypes => TypeOK
  BY DEF PlaceTypes, CountTypes, FlagTypes, TypeOK
<1> QED
  BY <1>1, <1>2, PlaceStep, CountStep, FlagStep, PTL DEF Spec

\* A gallery that was stored after the owner read the database has been
\* announced, or is about to be, or its COMMIT reported a failure.
Announced == dirty \/ step = "committed" \/ unsure

\* The flag is taken before the database is read, so what the owner is about
\* to install is current or a newer announcement is waiting.
InstallInvariant ==
    /\ owner \in {"loop", "loading", "installing"}
    /\ owner # "loop" => reload
    /\ owner = "installing" /\ snapshot # stored => Announced
    /\ StaleIsFlagged

LEMMA InstallStep == InstallInvariant /\ [Next]_vars => InstallInvariant'
<1> SUFFICES ASSUME InstallInvariant, [Next]_vars PROVE InstallInvariant'
  OBVIOUS
<1> USE DEF InstallInvariant, Announced, StaleIsFlagged, ownerVars, dbVars
<1>1. CASE \/ StepBegin \/ AttendanceDone \/ AttendanceThrows \/ Refused
           \/ NotModified \/ Fetched
  BY <1>1 DEF StepBegin, AttendanceDone, AttendanceThrows, Refused,
              NotModified, Fetched
<1>2. CASE \E h \in Headers, j \in 0..MaxJitter : PollFails(h, j)
  BY <1>2 DEF PollFails
<1>3. ASSUME NEW tx \in {"ok", "failed", "uncertain"}, Replace(tx)
      PROVE  InstallInvariant'
  <2>1. CASE tx = "ok"
    BY <1>3, <2>1 DEF Replace
  <2>2. CASE tx = "failed"
    BY <1>3, <2>2 DEF Replace
  <2>3. CASE tx = "uncertain"
    BY <1>3, <2>3 DEF Replace
  <2> QED
    BY <2>1, <2>2, <2>3
<1>4. CASE Replaced
  BY <1>4 DEF Replaced
<1>5. CASE TakeDirty
  BY <1>5 DEF TakeDirty
<1>6. CASE Load
  BY <1>6 DEF Load
<1>7. CASE Install
  BY <1>7 DEF Install
<1>8. CASE InstallFails
  BY <1>8 DEF InstallFails
<1>9. CASE Restart
  BY <1>9 DEF Restart
<1>10. CASE Channel \/ PublishGallery \/ RotateCredential \/ Tick \/ RetryDue
  BY <1>10 DEF Channel, Connect, Reconcile, Disconnect, PublishGallery,
               RotateCredential, Tick, RetryDue
<1>11. CASE UNCHANGED vars
  BY <1>11 DEF vars
<1> QED
  BY <1>1, <1>2, <1>3, <1>4, <1>5, <1>6, <1>7, <1>8, <1>9, <1>10, <1>11
  DEF Next, Worker, Owner

\* The matcher never stays behind the stored gallery unnoticed, however the
\* worker's replace and the owner's reload interleave.
THEOREM NoUnnoticedStaleGallery == Spec => []StaleIsFlagged
<1>1. Init => InstallInvariant
  BY DEF Init, InstallInvariant, StaleIsFlagged
<1>2. InstallInvariant => StaleIsFlagged
  BY DEF InstallInvariant
<1> QED
  BY <1>1, <1>2, InstallStep, PTL DEF Spec

\* While a request for the gallery is under way its due time is over, and a
\* worker that has begun a step has a credential.
PollInvariant ==
    /\ wait \in Nat /\ attempts \in Nat
    /\ credential \in Nat \ {0}
    /\ step \in {"asking", "replacing", "committed"} => wait = 0
    /\ step # "idle" \/ attempts > 0 => token # 0

LEMMA PollStep == PollInvariant /\ [Next]_vars => PollInvariant'
<1> SUFFICES ASSUME PollInvariant, [Next]_vars PROVE PollInvariant'
  OBVIOUS
<1> USE DEF PollInvariant, channelVars, gateVars, pollVars
<1>1. CASE StepBegin
  BY <1>1 DEF StepBegin
<1>2. CASE AttendanceDone \/ AttendanceThrows \/ Refused \/ Fetched
  BY <1>2 DEF AttendanceDone, AttendanceThrows, Refused, Fetched
<1>3. CASE NotModified \/ Replaced
  BY <1>3, GalleryAssumption DEF NotModified, Replaced
<1>4. ASSUME NEW h \in Headers, NEW j \in 0..MaxJitter, PollFails(h, j)
      PROVE  PollInvariant'
  <2>1. wait' \in Nat
    BY <1>4, RetryAtLater, GalleryAssumption, RetryAssumption DEF PollFails
  <2>2. attempts' \in Nat
    BY <1>4, GalleryAssumption DEF PollFails, Lesser
  <2> QED
    BY <1>4, <2>1, <2>2 DEF PollFails
<1>5. ASSUME NEW tx \in {"ok", "failed", "uncertain"}, Replace(tx)
      PROVE  PollInvariant'
  BY <1>5 DEF Replace
<1>6. CASE TakeDirty \/ Load \/ Install \/ InstallFails
  BY <1>6 DEF TakeDirty, Load, Install, InstallFails
<1>7. CASE Restart
  BY <1>7 DEF Restart
<1>8. CASE Channel \/ PublishGallery \/ RotateCredential \/ Tick \/ RetryDue
  BY <1>8 DEF Channel, Connect, Reconcile, Disconnect, PublishGallery,
              RotateCredential, Tick, RetryDue
<1>9. CASE UNCHANGED vars
  BY <1>9 DEF vars
<1> QED
  BY <1>1, <1>2, <1>3, <1>4, <1>5, <1>6, <1>7, <1>8, <1>9
  DEF Next, Worker, Owner

\* No reconcile hint and no new connection brings forward the request that
\* follows a failure; a new credential or a new process may.
THEOREM HintsNeverBypassBackoff == Spec => HintsKeepBackoff
<1> DEFINE Kept == attempts > 0 /\ wait' + 1 < wait => token' # token
<1>1. Init => PollInvariant
  BY DEF Init, PollInvariant
<1>2. ASSUME PollInvariant, [Next]_vars PROVE Kept
  <2> USE <1>2 DEF PollInvariant, pollVars, gateVars
  <2>1. CASE StepBegin
    BY <2>1 DEF StepBegin
  <2>2. CASE AttendanceDone \/ AttendanceThrows \/ Refused \/ Fetched
    BY <2>2 DEF AttendanceDone, AttendanceThrows, Refused, Fetched
  <2>3. CASE NotModified \/ Replaced
    BY <2>3, GalleryAssumption DEF NotModified, Replaced
  <2>4. ASSUME NEW h \in Headers, NEW j \in 0..MaxJitter, PollFails(h, j)
        PROVE  Kept
    <3>1. wait = 0
      BY <2>4 DEF PollFails
    <3>2. wait' \in Nat
      BY <2>4, RetryAtLater, GalleryAssumption, RetryAssumption DEF PollFails
    <3>3. \A x \in Nat : ~(x + 1 < 0)
      BY ONLY TRUE
    <3>4. ~(wait' + 1 < 0)
      BY ONLY <3>2, <3>3
    <3> QED
      BY ONLY <3>1, <3>4 DEF Kept
  <2>5. ASSUME NEW tx \in {"ok", "failed", "uncertain"}, Replace(tx)
        PROVE  Kept
    BY <2>5 DEF Replace
  <2>6. CASE TakeDirty \/ Load \/ Install \/ InstallFails
    BY <2>6 DEF TakeDirty, Load, Install, InstallFails
  <2>7. CASE Restart
    BY <2>7 DEF Restart
  <2>8. CASE Channel \/ PublishGallery \/ RotateCredential \/ Tick \/ RetryDue
    BY <2>8 DEF Channel, Connect, Reconcile, Disconnect, PublishGallery,
                RotateCredential, Tick, RetryDue
  <2>9. CASE UNCHANGED vars
    BY <2>9 DEF vars
  <2> QED
    BY <2>1, <2>2, <2>3, <2>4, <2>5, <2>6, <2>7, <2>8, <2>9
    DEF Next, Worker, Owner
<1>3. PollInvariant /\ [Next]_vars => [Kept]_vars
  BY <1>2
<1> QED
  BY <1>1, <1>3, PollStep, PTL DEF Spec, HintsKeepBackoff
=============================================================================
