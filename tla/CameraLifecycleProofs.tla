------------------------ MODULE CameraLifecycleProofs ------------------------
(***************************************************************************)
(* Proofs about CameraLifecycle for any number of callbacks, frames and    *)
(* sessions.                                                               *)
(***************************************************************************)
EXTENDS CameraLifecycle, FiniteSetTheorems, TLAPS

\* While every change was confirmed, a pending restore means that the driver's
\* setting is the zero that was forced on it, so a later session neither saves
\* the forced value over the user's nor finds exposure priority to switch off.
LegacyInvariant ==
    RestoreOnStop /\ ~unnoticed
        => IF restore THEN legacy = 0 /\ saved = userValue
                      ELSE legacy = userValue

UnnoticedType == unnoticed \in BOOLEAN

\* The low-light setting the user had survives every sequence of sessions,
\* failed opens, refused writes and failed cleanups, as long as no write
\* changes it without the code being told.
THEOREM LegacyNeverForgotten == Spec => []LegacyRecoverable
<1> DEFINE IInv == LegacyInvariant /\ UnnoticedType
<1>1. Init => IInv
  BY DEF Init, LegacyInvariant, UnnoticedType
<1>2. IInv /\ [Next]_vars => IInv'
  <2> SUFFICES ASSUME LegacyInvariant, UnnoticedType, [Next]_vars PROVE IInv'
    OBVIOUS
  <2> USE DEF LegacyInvariant, UnnoticedType
  <2>1. CASE ApplyLegacy
    <3>1. CASE UNCHANGED <<legacy, saved, restore, unnoticed>>
      BY <2>1, <3>1 DEF ApplyLegacy
    <3>2. CASE WriteLegacy(0, FALSE) /\ UNCHANGED <<saved, restore>>
      <4>1. unnoticed' \in BOOLEAN /\ (~unnoticed' => legacy' = legacy /\ ~unnoticed)
        BY <3>2 DEF WriteLegacy
      <4> QED
        BY <2>1, <3>2, <4>1 DEF ApplyLegacy
    <3>3. CASE /\ legacy # 0 /\ WriteLegacy(0, TRUE)
               /\ saved' = legacy /\ restore' = RestoreOnStop
      <4>1. legacy' = 0 /\ unnoticed' = unnoticed
        BY <3>3 DEF WriteLegacy
      <4> QED
        BY <2>1, <3>3, <4>1 DEF ApplyLegacy
    <3> QED
      BY <2>1, <3>1, <3>2, <3>3 DEF ApplyLegacy
  <2>2. CASE Open
    BY <2>2 DEF Open, SwitchOffPriority
  <2>3. CASE CloseDevice
    <3>1. CASE UNCHANGED <<legacy, restore, unnoticed>>
      BY <2>3, <3>1 DEF CloseDevice
    <3>2. CASE WriteLegacy(saved, FALSE) /\ UNCHANGED restore
      <4>1. unnoticed' \in BOOLEAN /\ (~unnoticed' => legacy' = legacy /\ ~unnoticed)
        BY <3>2 DEF WriteLegacy
      <4> QED
        BY <2>3, <3>2, <4>1 DEF CloseDevice
    <3>3. CASE restore /\ WriteLegacy(saved, TRUE) /\ restore' = FALSE
      <4>1. legacy' = saved /\ unnoticed' = unnoticed
        BY <3>3 DEF WriteLegacy
      <4> QED
        BY <2>3, <3>3, <4>1 DEF CloseDevice
    <3> QED
      BY <2>3, <3>1, <3>2, <3>3 DEF CloseDevice, RestoreLegacy
  <2>4. CASE UNCHANGED <<legacy, userValue, saved, restore, unnoticed>>
    BY <2>4
  <2> QED
    BY <2>1, <2>2, <2>3, <2>4
    DEF Next, Start, StopStore, Owner, StartReturns, Fetch, StopNotify, Join,
        Control, Select, Announce, TestStop, Block, FailStart,
        EndSession, ClearLatest, SpuriousWakeup, Arrive, Callback, Number,
        Publish, ResetFailures, RecordFailure, Alarm, vars, legacyVars
<1>3. IInv => LegacyRecoverable
  BY DEF LegacyInvariant, LegacyRecoverable
<1> QED
  BY <1>1, <1>2, <1>3, PTL DEF Spec

\* The control states in which no frame can be under way: before the reader
\* runs, and after it was stopped.
Silent == {"none", "selecting", "applying", "opening", "clearing", "done"}

FrameInvariant ==
    /\ cb \in [Callbacks -> {"idle", "entered", "numbered", "published",
                           "alarming"}]
    /\ control \in Silent => Quiet
    /\ control \in Silent \cup {"failed", "closing"} => ~running
    /\ control = "failed" => Quiet
    /\ control \in {"none", "done"} => latest = 0

\* A camera that was never started has no frame and no callback.
LEMMA FrameInit == Init => FrameInvariant
  BY DEF Init, FrameInvariant, Silent, Quiet

\* The reader is stopped before the frame is cleared, and no callback runs
\* from then to the next start.
LEMMA FrameStep == FrameInvariant /\ [Next]_vars => FrameInvariant'
<1> SUFFICES ASSUME FrameInvariant, [Next]_vars PROVE FrameInvariant'
  OBVIOUS
<1> USE DEF FrameInvariant, Silent, Quiet, clientVars, controlVars, frameVars
<1>1. CASE Start
  BY <1>1 DEF Start
<1>2. CASE StopStore \/ StartReturns \/ Fetch
  BY <1>2 DEF StopStore, StartReturns, Fetch
<1>3. CASE StopNotify
  BY <1>3 DEF StopNotify, WakeControl
<1>4. CASE Join
  BY <1>4 DEF Join
<1>5. CASE Select \/ Announce
  BY <1>5 DEF Select, Announce
<1>6. CASE TestStop \/ Block \/ SpuriousWakeup
  BY <1>6 DEF TestStop, Block, SpuriousWakeup
<1>7. CASE FailStart \/ EndSession \/ ClearLatest
  BY <1>7 DEF FailStart, EndSession, ClearLatest
<1>8. CASE CloseDevice
  BY <1>8 DEF CloseDevice
<1>9. ASSUME NEW c \in Callbacks, Arrive(c) PROVE FrameInvariant'
  BY <1>9 DEF Arrive
<1>10. ASSUME NEW c \in Callbacks, Number(c) PROVE FrameInvariant'
  BY <1>10 DEF Number
<1>11. ASSUME NEW c \in Callbacks, Publish(c) PROVE FrameInvariant'
  BY <1>11 DEF Publish
<1>12. ASSUME NEW c \in Callbacks, RecordFailure(c) PROVE FrameInvariant'
  BY <1>12 DEF RecordFailure
<1>13. ASSUME NEW c \in Callbacks, Alarm(c) PROVE FrameInvariant'
  BY <1>13 DEF Alarm, WakeControl
<1>14. ASSUME NEW c \in Callbacks, ResetFailures(c) PROVE FrameInvariant'
  BY <1>14 DEF ResetFailures
<1>15. CASE Open
  BY <1>15 DEF Open
<1>16. CASE ApplyLegacy
  <2>1. /\ control = "applying" /\ control' = "opening"
        /\ UNCHANGED <<running, latest, cb>>
    BY <1>16 DEF ApplyLegacy
  <2> QED
    BY <2>1
<1>17. CASE UNCHANGED vars
  BY <1>17 DEF vars
<1> QED
  BY <1>1, <1>2, <1>3, <1>4, <1>5, <1>6, <1>7, <1>8, <1>9, <1>10, <1>11,
     <1>12, <1>13, <1>14, <1>15, <1>16, <1>17
  DEF Next, Owner, Control, Callback

\* A stopped camera keeps no frame, however late its callbacks run.
THEOREM StoppedCameraIsEmpty == Spec => []NoFrameAfterStop
<1>1. FrameInvariant => NoFrameAfterStop
  BY DEF FrameInvariant, NoFrameAfterStop, Silent
<1> QED
  BY <1>1, FrameInit, FrameStep, PTL DEF Spec

-----------------------------------------------------------------------------
(* Frames: how many there are, and in which order they are handed out.     *)

\* A frame the owner has not seen yet.
Unread == IF latest # 0 /\ latest # lastId THEN 1 ELSE 0

Numbered == {c \in Callbacks : cb[c] = "numbered"}

\* What the frames of a session are, one by one.
FrameTypes ==
    /\ lastId \in 0..MaxFrames /\ latest \in 0..MaxFrames
    /\ cbId \in [Callbacks -> 0..MaxFrames]
    /\ fetched \in Nat /\ frameId \in Nat

\* Every frame handed out was published, every frame published was numbered,
\* and the callbacks that have entered will number no more than MaxFrames.
FramesCounted ==
    /\ frameId + Cardinality(Entered) <= MaxFrames
    /\ fetched + Unread + Cardinality(Numbered) <= frameId

\* While no two callbacks have overlapped, the frame that is numbered and not
\* yet published is the newest, and newer than any the owner has seen.
FramesOrdered ==
    ~ overlapped =>
        /\ latest <= frameId /\ lastId <= frameId
        /\ latest = 0 \/ lastId <= latest
        /\ \A c, d \in Numbered : c = d
        /\ \A c \in Numbered : cbId[c] = frameId /\ latest < frameId
                               /\ lastId < frameId

\* A frame that is numbered and not yet published is another than the latest,
\* than those handed out, and than that of any other callback; and of the
\* frames handed out only the last can still be the latest.
FramesDistinct ==
    /\ handed \subseteq 1..frameId
    /\ latest <= frameId
    /\ latest \in handed => latest = lastId
    /\ \A c \in Numbered :
          cbId[c] \in 1..frameId /\ cbId[c] # latest /\ cbId[c] \notin handed
    /\ \A c, d \in Numbered : cbId[c] = cbId[d] => c = d

CountInvariant ==
    FrameInvariant /\ FrameTypes /\ FramesCounted /\ FramesOrdered

\* What a step of one callback makes of the callbacks that are at one place.
LEMMA Counts ==
  ASSUME NEW S, S \subseteq Callbacks, NEW c \in Callbacks
  PROVE  /\ Cardinality(S) \in Nat
         /\ c \in S => Cardinality(S \ {c}) = Cardinality(S) - 1
         /\ c \notin S => Cardinality(S \cup {c}) = Cardinality(S) + 1
<1>1. IsFiniteSet(S)
  BY CameraAssumption, FS_Subset
<1> QED
  BY <1>1, FS_CardinalityType, FS_AddElement, FS_RemoveElement

\* A camera that was never started has no frame.
LEMMA CountInit == Init => FrameTypes /\ FramesCounted /\ FramesOrdered
<1> SUFFICES ASSUME Init PROVE FrameTypes /\ FramesCounted /\ FramesOrdered
  OBVIOUS
<1>1. Entered = {} /\ Numbered = {}
  BY DEF Init, Entered, Numbered
<1>2. Cardinality(Entered) = 0 /\ Cardinality(Numbered) = 0
  BY <1>1, FS_EmptySet
<1>3. MaxFrames \in Nat
  BY CameraAssumption
<1> QED
  BY <1>1, <1>2, <1>3
     DEF Init, FrameTypes, FramesCounted, FramesOrdered, Unread

\* A callback that moves from one place to another.
LEMMA Moved ==
  ASSUME FrameInvariant, NEW c \in Callbacks, NEW to,
         cb' = [cb EXCEPT ![c] = to]
  PROVE  /\ Entered' = IF to = "entered" THEN Entered \cup {c} ELSE Entered \ {c}
         /\ Numbered' = IF to = "numbered" THEN Numbered \cup {c}
                                          ELSE Numbered \ {c}
  BY DEF FrameInvariant, Entered, Numbered

\* Every step keeps the count and the order of the frames.
LEMMA CountStep ==
  ASSUME CountInvariant, FrameInvariant', [Next]_vars
  PROVE  FrameTypes' /\ FramesCounted' /\ FramesOrdered'
<1> USE DEF FrameTypes, FramesCounted, FramesOrdered
<1>0. /\ MaxFrames \in Nat /\ Cardinality(Entered) \in Nat
      /\ Cardinality(Numbered) \in Nat
      /\ FrameTypes /\ FramesCounted /\ FramesOrdered /\ FrameInvariant
      /\ Entered \subseteq Callbacks /\ Numbered \subseteq Callbacks
  <2>1. IsFiniteSet(Entered) /\ IsFiniteSet(Numbered)
    BY CameraAssumption, FS_Subset DEF Entered, Numbered
  <2> QED
    BY <2>1, FS_CardinalityType, CameraAssumption
       DEF CountInvariant, Entered, Numbered
<1>1. CASE UNCHANGED <<lastId, latest, cbId, fetched, frameId, cb, overlapped>>
  BY <1>0, <1>1 DEF Entered, Numbered, Unread
<1>2. CASE Start
  <2>1. Entered' = {} /\ Numbered' = {}
    BY <1>0, <1>2 DEF Start, FrameInvariant, Silent, Quiet, Entered, Numbered
  <2>2. Cardinality(Entered') = 0 /\ Cardinality(Numbered') = 0
    BY <2>1, FS_EmptySet
  <2> QED
    BY <1>0, <1>2, <2>1, <2>2 DEF Start, Unread
<1>3. CASE Fetch
  <2>1. UNCHANGED <<latest, cbId, frameId, cb, overlapped>>
    BY <1>3 DEF Fetch, frameVars
  <2>2. Entered' = Entered /\ Numbered' = Numbered
    BY <2>1 DEF Entered, Numbered
  <2>3. CASE UNCHANGED <<lastId, fetched>>
    BY <1>0, <2>1, <2>2, <2>3 DEF Unread
  <2>4. CASE latest # 0 /\ latest # lastId /\ lastId' = latest
             /\ fetched' = fetched + 1
    BY <1>0, <2>1, <2>2, <2>4 DEF Unread
  <2> QED
    BY <1>3, <2>3, <2>4 DEF Fetch
<1>4. CASE Join
  <2>1. latest = 0 /\ lastId' = 0
    BY <1>0, <1>4 DEF Join, FrameInvariant
  <2>2. UNCHANGED <<latest, cbId, fetched, frameId, cb, overlapped>>
    BY <1>4 DEF Join, frameVars
  <2>3. Entered' = Entered /\ Numbered' = Numbered
    BY <2>2 DEF Entered, Numbered
  <2> QED
    BY <1>0, <2>1, <2>2, <2>3 DEF Unread
<1>5. CASE ClearLatest
  <2>1. latest' = 0 /\ UNCHANGED <<lastId, cbId, fetched, frameId, cb, overlapped>>
    BY <1>5 DEF ClearLatest, clientVars
  <2>2. Entered' = Entered /\ Numbered' = Numbered
    BY <2>1 DEF Entered, Numbered
  <2>3. Numbered = {}
    BY <1>0, <1>5 DEF ClearLatest, FrameInvariant, Silent, Quiet, Numbered
  <2> QED
    BY <1>0, <2>1, <2>2, <2>3 DEF Unread
<1>6. ASSUME NEW c \in Callbacks, Arrive(c)
      PROVE  FrameTypes' /\ FramesCounted' /\ FramesOrdered'
  <2>1. /\ cb[c] = "idle" /\ frameId + Cardinality(Entered) < MaxFrames
        /\ cb' = [cb EXCEPT ![c] = "entered"]
        /\ UNCHANGED <<lastId, latest, cbId, fetched, frameId, overlapped>>
    BY <1>6 DEF Arrive, clientVars
  <2>2. /\ Entered' = Entered \cup {c} /\ Numbered' = Numbered
        /\ c \notin Entered
    BY <1>0, <2>1, Moved DEF Entered, Numbered
  <2>3. Cardinality(Entered') = Cardinality(Entered) + 1
    BY <1>0, <2>2, Counts
  <2> QED
    BY <1>0, <2>1, <2>2, <2>3 DEF Unread
<1>7. ASSUME NEW c \in Callbacks, Number(c)
      PROVE  FrameTypes' /\ FramesCounted' /\ FramesOrdered'
  <2>1. /\ cb[c] = "entered" /\ frameId' = frameId + 1
        /\ cbId' = [cbId EXCEPT ![c] = frameId + 1]
        /\ cb' = [cb EXCEPT ![c] = "numbered"]
        /\ overlapped' = (overlapped \/ \E d \in Callbacks : cb[d] = "numbered")
        /\ UNCHANGED <<lastId, latest, fetched>>
    BY <1>7 DEF Number, clientVars
  <2>2. /\ Entered' = Entered \ {c} /\ Numbered' = Numbered \cup {c}
        /\ c \in Entered /\ c \notin Numbered
    BY <1>0, <2>1, Moved DEF Entered, Numbered
  <2>3. /\ Cardinality(Entered') = Cardinality(Entered) - 1
        /\ Cardinality(Numbered') = Cardinality(Numbered) + 1
    BY <1>0, <2>2, Counts
  <2>4. Cardinality(Entered') \in Nat
    <3>1. Entered' \subseteq Callbacks
      BY <1>0, <2>2
    <3> QED
      BY <3>1, Counts
  <2>5. FrameTypes'
    BY <1>0, <2>1, <2>3, <2>4
  <2>6. FramesCounted'
    BY <1>0, <2>1, <2>3, <2>4 DEF Unread
  <2>7. FramesOrdered'
    <3> SUFFICES ASSUME ~ overlapped' PROVE FramesOrdered'
      OBVIOUS
    <3>1. ~ overlapped /\ Numbered' = {c}
      BY <2>1, <2>2 DEF Numbered
    <3> QED
      BY <1>0, <2>1, <3>1
  <2> QED
    BY <2>5, <2>6, <2>7
<1>8. ASSUME NEW c \in Callbacks, Publish(c)
      PROVE  FrameTypes' /\ FramesCounted' /\ FramesOrdered'
  <2>1. /\ cb[c] = "numbered" /\ latest' = cbId[c]
        /\ cb' = [cb EXCEPT ![c] = "published"]
        /\ UNCHANGED <<lastId, cbId, fetched, frameId, overlapped>>
    BY <1>8 DEF Publish, clientVars
  <2>2. /\ Entered' = Entered /\ Numbered' = Numbered \ {c} /\ c \in Numbered
    <3>1. c \in Numbered /\ c \notin Entered
      BY <2>1 DEF Entered, Numbered
    <3>2. \A d \in Callbacks : cb'[d] = IF d = c THEN "published" ELSE cb[d]
      BY <1>0, <2>1 DEF FrameInvariant
    <3> QED
      BY <3>1, <3>2 DEF Entered, Numbered
  <2>3. Cardinality(Numbered') = Cardinality(Numbered) - 1
    BY <1>0, <2>2, Counts
  <2>4. Unread \in 0..1 /\ Unread' \in 0..1
    BY DEF Unread
  <2>5. FrameTypes' /\ FramesCounted'
    BY <1>0, <2>1, <2>2, <2>3, <2>4
  <2>6. FramesOrdered'
    <3> SUFFICES ASSUME ~ overlapped PROVE FramesOrdered'
      BY <2>1
    <3>1. latest' = frameId /\ lastId < frameId /\ Numbered' = {}
      BY <1>0, <2>1, <2>2
    <3> QED
      BY <1>0, <2>1, <3>1
  <2> QED
    BY <2>5, <2>6
<1>9. ASSUME NEW c \in Callbacks, RecordFailure(c)
      PROVE  FrameTypes' /\ FramesCounted' /\ FramesOrdered'
  <2>1. PICK to \in {"idle", "alarming"} : cb' = [cb EXCEPT ![c] = to]
    BY <1>9 DEF RecordFailure
  <2>2. /\ cb[c] = "entered"
        /\ UNCHANGED <<lastId, latest, cbId, fetched, frameId, overlapped>>
    BY <1>9 DEF RecordFailure, clientVars
  <2>3. Entered' = Entered \ {c} /\ Numbered' = Numbered /\ c \in Entered
    BY <1>0, <2>1, <2>2, Moved DEF Entered, Numbered
  <2>4. Cardinality(Entered') = Cardinality(Entered) - 1
    BY <1>0, <2>3, Counts
  <2> QED
    BY <1>0, <2>2, <2>3, <2>4 DEF Unread
<1>10. ASSUME NEW c \in Callbacks, ResetFailures(c) \/ Alarm(c)
       PROVE  FrameTypes' /\ FramesCounted' /\ FramesOrdered'
  <2>1. /\ cb[c] \in {"published", "alarming"}
        /\ cb' = [cb EXCEPT ![c] = "idle"]
        /\ UNCHANGED <<lastId, latest, cbId, fetched, frameId, overlapped>>
    BY <1>10 DEF ResetFailures, Alarm, clientVars
  <2>2. Entered' = Entered /\ Numbered' = Numbered
    BY <1>0, <2>1, Moved DEF Entered, Numbered
  <2> QED
    BY <1>0, <2>1, <2>2 DEF Unread
<1>11. CASE \/ StopStore \/ StartReturns \/ StopNotify \/ Select \/ ApplyLegacy
            \/ Open \/ Announce \/ TestStop \/ Block \/ FailStart \/ EndSession
            \/ CloseDevice \/ SpuriousWakeup \/ UNCHANGED vars
  BY <1>1, <1>11
     DEF StopStore, StartReturns, StopNotify, Select, ApplyLegacy, Open,
         Announce, TestStop, Block, FailStart, EndSession, CloseDevice,
         SpuriousWakeup, vars, clientVars, frameVars
<1> QED
  BY <1>2, <1>3, <1>4, <1>5, <1>6, <1>7, <1>8, <1>9, <1>10, <1>11
     DEF Next, Owner, Control, Callback

\* A camera that was never started has handed out no frame.
LEMMA DistinctInit == Init => FramesDistinct
  BY DEF Init, FramesDistinct, Numbered

\* However callbacks overlap, every frame is published once and replaced for
\* good.
LEMMA DistinctStep ==
  ASSUME CountInvariant, FramesDistinct, [Next]_vars
  PROVE  FramesDistinct'
<1> USE DEF FramesDistinct
<1>0. FrameTypes /\ FrameInvariant
  BY DEF CountInvariant
<1>1. CASE UNCHANGED <<lastId, latest, cbId, handed, frameId, cb>>
  BY <1>1 DEF Numbered
<1>2. CASE Start
  <2>1. Numbered' = {}
    BY <1>0, <1>2 DEF Start, FrameInvariant, Silent, Quiet, Numbered
  <2> QED
    BY <1>2, <2>1 DEF Start
<1>3. CASE Fetch
  <2>1. UNCHANGED <<latest, cbId, frameId, cb>>
    BY <1>3 DEF Fetch, frameVars
  <2>2. Numbered' = Numbered
    BY <2>1 DEF Numbered
  <2>3. CASE UNCHANGED <<lastId, handed>>
    BY <2>1, <2>2, <2>3
  <2>4. CASE latest # 0 /\ lastId' = latest /\ handed' = handed \cup {latest}
    BY <1>0, <2>1, <2>2, <2>4 DEF FrameTypes
  <2> QED
    BY <1>3, <2>3, <2>4 DEF Fetch
<1>4. CASE Join
  <2>1. latest = 0 /\ UNCHANGED <<latest, cbId, handed, frameId, cb>>
    BY <1>0, <1>4 DEF Join, FrameInvariant, frameVars
  <2>2. Numbered' = Numbered /\ 0 \notin handed
    BY <1>0, <2>1 DEF Numbered, FrameTypes
  <2> QED
    BY <2>1, <2>2
<1>5. CASE ClearLatest
  <2>1. latest' = 0 /\ UNCHANGED <<lastId, cbId, handed, frameId, cb>>
    BY <1>5 DEF ClearLatest, clientVars
  <2>2. Numbered = {} /\ Numbered' = {} /\ 0 \notin handed
    BY <1>0, <1>5, <2>1
       DEF ClearLatest, FrameInvariant, Silent, Quiet, Numbered, FrameTypes
  <2> QED
    BY <1>0, <2>1, <2>2 DEF FrameTypes
<1>6. ASSUME NEW c \in Callbacks, Number(c) PROVE FramesDistinct'
  <2>1. /\ cb[c] = "entered" /\ frameId' = frameId + 1
        /\ cbId' = [cbId EXCEPT ![c] = frameId + 1]
        /\ cb' = [cb EXCEPT ![c] = "numbered"]
        /\ UNCHANGED <<lastId, latest, handed>>
    BY <1>6 DEF Number, clientVars
  <2>2. Numbered' = Numbered \cup {c} /\ c \notin Numbered
    BY <1>0, <2>1, Moved DEF Numbered
  <2>3. /\ cbId'[c] = frameId + 1
        /\ \A d \in Numbered : cbId'[d] = cbId[d]
    BY <1>0, <2>1, <2>2 DEF FrameTypes, Numbered
  <2> QED
    BY <1>0, <2>1, <2>2, <2>3 DEF FrameTypes
<1>7. ASSUME NEW c \in Callbacks, Publish(c) PROVE FramesDistinct'
  <2>1. /\ cb[c] = "numbered" /\ latest' = cbId[c]
        /\ cb' = [cb EXCEPT ![c] = "published"]
        /\ UNCHANGED <<lastId, cbId, handed, frameId>>
    BY <1>7 DEF Publish, clientVars
  <2>2. Numbered' = Numbered \ {c} /\ c \in Numbered
    BY <1>0, <2>1, Moved DEF Numbered
  <2> QED
    BY <1>0, <2>1, <2>2 DEF FrameTypes
<1>8. ASSUME NEW c \in Callbacks,
             Arrive(c) \/ RecordFailure(c) \/ ResetFailures(c) \/ Alarm(c)
      PROVE  FramesDistinct'
  <2>1. PICK to \in {"entered", "idle", "alarming"} :
               cb' = [cb EXCEPT ![c] = to]
    BY <1>8 DEF Arrive, RecordFailure, ResetFailures, Alarm
  <2>2. /\ cb[c] # "numbered"
        /\ UNCHANGED <<lastId, latest, cbId, handed, frameId>>
    BY <1>8 DEF Arrive, RecordFailure, ResetFailures, Alarm, clientVars
  <2>3. Numbered' = Numbered
    BY <1>0, <2>1, <2>2, Moved DEF Numbered
  <2> QED
    BY <2>2, <2>3
<1>9. CASE \/ StopStore \/ StartReturns \/ StopNotify \/ Select \/ ApplyLegacy
           \/ Open \/ Announce \/ TestStop \/ Block \/ FailStart \/ EndSession
           \/ CloseDevice \/ SpuriousWakeup \/ UNCHANGED vars
  BY <1>1, <1>9
     DEF StopStore, StartReturns, StopNotify, Select, ApplyLegacy, Open,
         Announce, TestStop, Block, FailStart, EndSession, CloseDevice,
         SpuriousWakeup, vars, clientVars, frameVars
<1> QED
  BY <1>2, <1>3, <1>4, <1>5, <1>6, <1>7, <1>8, <1>9
     DEF Next, Owner, Control, Callback

\* The rest of the types: none of these depends on the frames.
OwnTypes ==
    /\ client \in {"idle", "starting", "aborting", "running", "faulted",
                   "notifying", "joining"}
    /\ control \in {"none", "selecting", "applying", "opening", "announcing",
                    "testing", "blocking", "waiting", "failed", "ending",
                    "closing", "clearing", "done"}
    /\ startEnd \in {"no", "ok", "error"}

FlagTypes ==
    /\ stopReq \in BOOLEAN /\ running \in BOOLEAN /\ error \in BOOLEAN
    /\ overlapped \in BOOLEAN /\ named \in BOOLEAN /\ restore \in BOOLEAN
    /\ unnoticed \in BOOLEAN

LimitTypes ==
    /\ starts \in 0..MaxStarts /\ failures \in 0..MaxFailures
    /\ legacy \in Values /\ userValue \in Values /\ saved \in Values

\* Both threads are always at one of their places.
LEMMA OwnStep == OwnTypes /\ [Next]_vars => OwnTypes'
<1> SUFFICES ASSUME OwnTypes, [Next]_vars PROVE OwnTypes'
  OBVIOUS
<1> USE DEF OwnTypes, controlVars, clientVars
<1>1. CASE \/ Start \/ StartReturns \/ Fetch \/ StopStore \/ Join
  BY <1>1 DEF Start, StartReturns, Fetch, StopStore, Join
<1>2. CASE StopNotify
  BY <1>2 DEF StopNotify, WakeControl
<1>3. CASE Control \/ SpuriousWakeup
  BY <1>3 DEF Control, Select, ApplyLegacy, Open, Announce, TestStop, Block,
              FailStart, EndSession, CloseDevice, ClearLatest, SpuriousWakeup
<1>4. ASSUME NEW c \in Callbacks, Arrive(c) \/ Callback(c) PROVE OwnTypes'
  BY <1>4 DEF Arrive, Callback, Number, Publish, ResetFailures, RecordFailure,
              Alarm, WakeControl
<1>5. CASE UNCHANGED vars
  BY <1>5 DEF vars
<1> QED
  BY <1>1, <1>2, <1>3, <1>4, <1>5 DEF Next, Owner

\* A flag is only ever set, cleared, or combined with other flags.
LEMMA FlagStep == FlagTypes /\ [Next]_vars => FlagTypes'
<1> SUFFICES ASSUME FlagTypes, [Next]_vars PROVE FlagTypes'
  OBVIOUS
<1> USE DEF FlagTypes, controlVars, frameVars, legacyVars
<1>1. CASE \/ Start \/ StartReturns \/ Fetch \/ StopStore \/ StopNotify \/ Join
  BY <1>1 DEF Start, StartReturns, Fetch, StopStore, StopNotify, Join
<1>2. CASE ApplyLegacy
  BY <1>2, CameraAssumption DEF ApplyLegacy, WriteLegacy
<1>3. CASE \/ Select \/ Open \/ Announce \/ TestStop \/ Block \/ FailStart
           \/ EndSession \/ CloseDevice \/ ClearLatest \/ SpuriousWakeup
  BY <1>3 DEF Select, Open, Announce, TestStop, Block, FailStart, EndSession,
              CloseDevice, ClearLatest, SpuriousWakeup, SwitchOffPriority,
              RestoreLegacy, WriteLegacy
<1>4. ASSUME NEW c \in Callbacks, Arrive(c) \/ Callback(c) PROVE FlagTypes'
  BY <1>4 DEF Arrive, Callback, Number, Publish, ResetFailures, RecordFailure,
              Alarm
<1>5. CASE UNCHANGED vars
  BY <1>5 DEF vars
<1> QED
  BY <1>1, <1>2, <1>3, <1>4, <1>5 DEF Next, Owner, Control

\* Sessions are bounded, failures counted up to the limit of the code, and
\* the driver's property is only written with values it had.
LEMMA LimitStep == LimitTypes /\ [Next]_vars => LimitTypes'
<1> SUFFICES ASSUME LimitTypes, [Next]_vars PROVE LimitTypes'
  OBVIOUS
<1>0. MaxFailures \in Nat \ {0} /\ MaxStarts \in Nat /\ 0 \in Values
  BY CameraAssumption
<1> USE <1>0 DEF LimitTypes, clientVars, frameVars, legacyVars
<1>1. CASE \/ Start \/ StartReturns \/ Fetch \/ StopStore \/ StopNotify \/ Join
  BY <1>1 DEF Start, StartReturns, Fetch, StopStore, StopNotify, Join
<1>2. CASE Control \/ SpuriousWakeup
  BY <1>2 DEF Control, Select, ApplyLegacy, Open, Announce, TestStop, Block,
              FailStart, EndSession, CloseDevice, ClearLatest, SpuriousWakeup,
              SwitchOffPriority, RestoreLegacy, WriteLegacy
<1>3. ASSUME NEW c \in Callbacks, Arrive(c) \/ Callback(c) PROVE LimitTypes'
  BY <1>3 DEF Arrive, Callback, Number, Publish, ResetFailures, RecordFailure,
              Alarm
<1>4. CASE UNCHANGED vars
  BY <1>4 DEF vars
<1> QED
  BY <1>1, <1>2, <1>3, <1>4 DEF Next, Owner

\* Every variable keeps its type: above all no session has more frames, in
\* the camera or with the owner, than callbacks have numbered, however late a
\* callback publishes.
THEOREM CameraTypeCorrect == Spec => []TypeOK
<1> DEFINE Types == /\ CountInvariant /\ FramesDistinct
                    /\ OwnTypes /\ FlagTypes /\ LimitTypes
<1>1. Init => Types
  <2>1. Init => OwnTypes /\ FlagTypes
    BY DEF Init, OwnTypes, FlagTypes
  <2>2. Init => LimitTypes
    BY CameraAssumption DEF Init, LimitTypes
  <2> QED
    BY <2>1, <2>2, FrameInit, CountInit, DistinctInit DEF CountInvariant
<1>2. Types /\ [Next]_vars => Types'
  BY FrameStep, CountStep, DistinctStep, OwnStep, FlagStep, LimitStep
     DEF CountInvariant
<1>3. Types => TypeOK
  <2> SUFFICES ASSUME Types PROVE TypeOK
    OBVIOUS
  <2>1. fetched \in 0..MaxFrames /\ frameId \in 0..MaxFrames
    <3>1. Entered \subseteq Callbacks /\ Numbered \subseteq Callbacks
      BY DEF Entered, Numbered
    <3>2. Cardinality(Entered) \in Nat /\ Cardinality(Numbered) \in Nat
      BY <3>1, CameraAssumption, FS_Subset, FS_CardinalityType
    <3>3. Unread \in 0..1 /\ MaxFrames \in Nat
      BY CameraAssumption DEF Unread
    <3> QED
      BY <3>2, <3>3 DEF CountInvariant, FrameTypes, FramesCounted
  <2>2. OwnTypes /\ FlagTypes /\ LimitTypes /\ FrameTypes /\ FrameInvariant
    BY DEF CountInvariant
  <2>3. handed \subseteq 1..MaxFrames
    BY <2>1, CameraAssumption DEF FramesDistinct
  <2> QED
    BY <2>1, <2>2, <2>3
       DEF OwnTypes, FlagTypes, LimitTypes, FrameTypes, FrameInvariant, TypeOK
<1> QED
  BY <1>1, <1>2, <1>3, PTL DEF Spec

\* However callbacks overlap, the owner is never handed one frame twice; and
\* as long as no two have overlapped between number and publication, it gets
\* the frames in the order of their numbers.
THEOREM FramesComeInOrder == Spec => FramesInOrder
<1> DEFINE IInv == CountInvariant /\ FramesDistinct
<1>1. Init => IInv
  BY FrameInit, CountInit, DistinctInit DEF CountInvariant
<1>2. IInv /\ [Next]_vars => IInv'
  BY FrameStep, CountStep, DistinctStep DEF CountInvariant
<1>3. IInv /\ [Next]_vars
        => [fetched' > fetched
              => lastId' \notin handed /\ (~overlapped => lastId' > lastId)]_vars
  <2> SUFFICES ASSUME CountInvariant, FramesDistinct, [Next]_vars,
                      fetched' > fetched
               PROVE  lastId' \notin handed /\ (~overlapped => lastId' > lastId)
    OBVIOUS
  <2>1. fetched \in Nat
    BY DEF CountInvariant, FrameTypes
  <2>2. latest # 0 /\ latest # lastId /\ lastId' = latest
    <3>1. CASE Fetch
      BY <2>1, <3>1 DEF Fetch
    <3>2. fetched' \in {fetched, 0} \/ Fetch
      BY DEF Next, Owner, Control, Callback, Start, StopStore, StartReturns,
             StopNotify, Join, Select, ApplyLegacy, Open, Announce, TestStop,
             Block, FailStart, EndSession, CloseDevice, ClearLatest,
             SpuriousWakeup, Arrive, Number, Publish, ResetFailures,
             RecordFailure, Alarm, vars, clientVars
    <3> QED
      BY <2>1, <3>1, <3>2
  <2>3. latest \notin handed
    BY <2>2 DEF FramesDistinct
  <2>4. ~overlapped => lastId' > lastId
    BY <2>2 DEF CountInvariant, FrameTypes, FramesOrdered
  <2> QED
    BY <2>2, <2>3, <2>4
<1> QED
  BY <1>1, <1>2, <1>3, PTL DEF Spec, FramesInOrder

=============================================================================
