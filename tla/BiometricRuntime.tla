--------------------------- MODULE BiometricRuntime ---------------------------
(***************************************************************************)
(* vision_runtime/pipeline: BiometricAttendanceRuntime and the             *)
(* FaceTrackingRuntime it owns, around the tracker of module ByteTrack.    *)
(* The attendance processor (module AttendanceProcessor) files what it     *)
(* learns about a face under the number of its track; the tracker starts   *)
(* again at number 1 whenever it is reset.  Two objects therefore have to  *)
(* be reset together, by whichever of start, reset_session or a start that *)
(* fails half way.                                                         *)
(***************************************************************************)
EXTENDS ByteTrack

VARIABLES
    started,    \* BiometricAttendanceRuntime::Impl::started
    tracking,   \* FaceTrackingRuntime::Impl::started
    known       \* the processor's states: whether its evidence on a track
                \* number was collected since the tracker's last reset

runtimeVars == <<started, tracking, known>>
allVars == <<vars, runtimeVars>>

Nothing == [t \in Ids |-> "none"]

\* What a reset of the tracker makes of the evidence the processor holds.
Aged(evidence) ==
    [t \in Ids |-> IF evidence[t] = "none" THEN "none" ELSE "earlier"]

RuntimeInit ==
    /\ Init /\ started = FALSE /\ tracking = FALSE
    /\ known = Nothing

\* start: the processor first, then FaceTrackingRuntime::start.
Start ==
    /\ ~ started /\ ~ tracking
    /\ started' = TRUE /\ tracking' = TRUE
    /\ known' = Aged(Nothing) /\ Reset

\* The camera does not open: camera.start() throws before the tracker is
\* reset.  The caller may try again.
StartFails ==
    /\ ~ started /\ ~ tracking
    /\ known' = Nothing
    /\ UNCHANGED <<vars, started, tracking>>

Stop ==
    /\ started /\ tracking
    /\ started' = FALSE /\ tracking' = FALSE
    /\ UNCHANGED <<vars, known>>

\* wait_for_frame and process: the tracks of the frame go to the processor,
\* which makes a state for a number it does not know and forgets the ones
\* it has not seen for max_missing_runtime_frames.
WaitForFrame(score) ==
    /\ started /\ tracking /\ Update(score)
    /\ \E forgotten \in SUBSET (Ids \ In(out')) :
         known' = [t \in Ids |->
                     CASE t \in forgotten -> "none"
                       [] t \in In(out') /\ known[t] = "none" -> "current"
                       [] OTHER -> known[t]]
    /\ UNCHANGED <<started, tracking>>

\* Mutant: only the tracker is reset.
ResetSession_TrackerOnly ==
    Reset /\ known' = Aged(known) /\ UNCHANGED <<started, tracking>>
\* reset_session, at any time: the processor, then the tracker.
ResetSession ==
    Reset /\ known' = Aged(Nothing) /\ UNCHANGED <<started, tracking>>

RuntimeNext ==
    \/ Start \/ StartFails \/ Stop \/ ResetSession
    \/ \E score \in [Dets -> Score] : WaitForFrame(score)

RuntimeSpec == RuntimeInit /\ [][RuntimeNext]_allVars

-----------------------------------------------------------------------------
\* The processor never holds evidence (votes, recognitions, an announced
\* identity) under a number the tracker has meanwhile given, or may still
\* give, to somebody else.
EvidenceOfThisTrack ==
    \A t \in Ids :
      /\ known[t] # "earlier"
      /\ known[t] = "current" => t < next_id
==============================================================================
