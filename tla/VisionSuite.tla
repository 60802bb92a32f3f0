------------------------------ MODULE VisionSuite ------------------------------
(***************************************************************************)
(* Small instances of the modules on the way of a frame: the textures of   *)
(* the GPU (GpuInference), the faces found on it (ScrfdDecode) and their   *)
(* alignment (FaceAlignment), the tracks (Assignment, ByteTrack and        *)
(* BiometricRuntime), the gallery the faces are compared with              *)
(* (GalleryMatcher), and the format the camera was opened in               *)
(* (FormatSelector).  They share no state that this version of the models  *)
(* follows, so one run examines them side by side: `component' says whose  *)
(* behaviour is being explored, and the variables of the others stay Asleep.  *)
(***************************************************************************)
EXTENDS Integers, Sequences, TLC

CONSTANTS
    Asleep, NotANumber, Unusable,
    Textures, Cameras, MaxEntries, MaxObs, MaxFrames, MaxReallocs,
                                                  \* GpuInference
    InputSize, FrameW, FrameH, Pad, ScoreThreshold, NmsPercent, BlobKinds,
    DetectorRows, MaxRows,                        \* ScrfdDecode
    Points, ArcFaceDst, LivenessDst, MaxSquaredRmse,      \* FaceAlignment
    TrackCount, BoxCount, MaxCost, PairCosts, Infinity,   \* Assignment
    MaxDets, MaxTimeLost, MaxIds, MaxFrame,       \* ByteTrack
    Identities, One, Offered,                     \* GalleryMatcher
    Offers, Wanted, MaxListed, TieEpsilon, MaxFpsError, Subtypes,
    AnySubtype                                    \* FormatSelector

VARIABLES
    component,
    \* GpuInference
    device, content, incarn, tag, latest, gpu_frame, nextTag, enabled, lru,
    views, made, srcDevice, fenceNext, wrapped, bound, gpu_pc, model, obs,
    batch, recorded, camQ, queue, fence, nv12, tensor, output, got,
    \* ScrfdDecode
    scrfd_pc, blobs, input, candidates, kept, result,
    \* FaceAlignment
    landmarks, stage, align_pc, col, A, b, fit,
    \* Assignment
    costs, u, v, p, way, minv, used, i, j0, lapjv_pc,
    \* BiometricRuntime, ByteTrack
    frame, next_id, trk, tracked, lost, removed, out, oldest,
    started, tracking, known,
    \* GalleryMatcher
    identities_, owners_, matrix_, best_, answer, given,
    \* FormatSelector
    listed, request, k, best, format_pc

gpuVars == <<device, content, incarn, tag, latest, gpu_frame, nextTag, enabled,
             lru, views, made, srcDevice, fenceNext, wrapped, bound, gpu_pc,
             model, obs, batch, recorded, camQ, queue, fence, nv12, tensor,
             output, got>>
scrfdVars == <<scrfd_pc, blobs, input, candidates, kept, result>>
alignVars == <<landmarks, stage, align_pc, col, A, b, fit>>
lapjvVars == <<costs, u, v, p, way, minv, used, i, j0, lapjv_pc>>
trackVars == <<frame, next_id, trk, tracked, lost, removed, out, oldest,
               started, tracking, known>>
matcherVars == <<identities_, owners_, matrix_, best_, answer, given>>
formatVars == <<listed, request, k, best, format_pc>>
vars == <<component, gpuVars, scrfdVars, alignVars, lapjvVars, trackVars,
          matcherVars, formatVars>>

-----------------------------------------------------------------------------
\* The frame pool does not tell its textures apart.
TextureSymmetry == Permutations(Textures)

Gpu == INSTANCE GpuInference
         WITH frame <- gpu_frame, pc <- gpu_pc,
              Addrs <- Textures, Devices <- Cameras

\* The nine shapes of an input of 64 pixels, one with a wrong dimension, and
\* one with a number of anchors that belongs to no stride.
SomeBlobs == << <<128, 1>>, <<128, 4>>, <<128, 10>>,
                <<32, 1>>, <<32, 4>>, <<32, 10>>,
                <<8, 1>>, <<8, 4>>, <<8, 10>>, <<32, 3>>, <<50, 4>> >>

Row(s, n, l, t, r, bt, score, kx, ky) ==
    [stride |-> s, anchor |-> n, left |-> l, top |-> t, right |-> r,
     bottom |-> bt, score |-> score, kx |-> kx, ky |-> ky]

\* Boxes that coincide, overlap in a chain, touch the border, lie outside
\* it, turn inside out, are not finite, or score too low.
SomeRows == {
    Row(32, 6, 1, 1, 1, 1, 9, 0, 0),
    Row(32, 7, 1, 1, 1, 1, 9, 0, 0),
    Row(16, 14, 1, 2, 2, 1, 8, 1, 1),
    Row(16, 20, 2, 1, 0, 1, 8, 0, 0),
    Row(8, 40, 2, 2, 3, 3, 7, 0, 0),
    Row(8, 126, 1, 1, 9, 9, 7, 9, 9),
    Row(8, 0, 5, 5, 0, 0, 6, 0, 0),
    Row(8, 42, -3, 1, -1, 1, 5, 0, 0),
    Row(16, 13, 1, 1, NotANumber, 1, 6, NotANumber, 0),
    Row(8, 60, 1, 1, 1, 1, 6, NotANumber, 0),
    Row(16, 11, 1, 1, 1, 1, NotANumber, 0, 0),
    Row(16, 10, 1, 1, 1, 1, 0, 0, 0) }

Scrfd == INSTANCE ScrfdDecode
           WITH pc <- scrfd_pc, Nan <- NotANumber, Rows <- DetectorRows

Grid == {0, 1} \X {0, 1, 2}
BigTemplate == << <<0, 0>>, <<4, 0>>, <<2, 2>>, <<0, 5>>, <<4, 5>> >>
SmallTemplate == << <<1, 1>>, <<3, 1>>, <<2, 2>>, <<1, 3>>, <<3, 3>> >>

Align == INSTANCE FaceAlignment
           WITH pc <- align_pc

Lapjv == INSTANCE Assignment
           WITH pc <- lapjv_pc, Rows <- TrackCount, Cols <- BoxCount, Costs <- PairCosts

\* Costs below, at and above a max_cost of 1, and -1 for one not finite.
SomeCosts == {-1, 0, 1, 2}

Track == INSTANCE BiometricRuntime

T(id, s) == [identity_id |-> id, embedding |-> s]
Similarities == -1..1
Usable == {T(id, s) : id \in {1, 2}, s \in Similarities}
Orders == {<<1, 1, 2>>, <<1, 2, 1>>, <<2, 3, 1>>}

SomeGalleries ==
    {<<>>} \union {<<x>> : x \in Usable} \union {<<x, y>> : x, y \in Usable}
    \union {<<T(o[1], x), T(o[2], y), T(o[3], z)>> :
              o \in Orders, x, y, z \in Similarities}
    \union {<<T(0, 1)>>, <<T(1, 1), T(0, 1)>>, <<T(1, Unusable)>>,
            <<T(3, 1), T(2, Unusable)>>, <<T(1, Unusable), T(2, 0), T(3, 1)>>}

Matcher == INSTANCE GalleryMatcher
             WITH out <- answer

Offer(color, fits, stream, subtype, rate) ==
    [color |-> color, fits |-> fits, stream |-> stream, subtype |-> subtype,
     rate |-> rate]

\* Every usable format of two streams and two subtypes, and one format for
\* each filter that turns it down.
AllOffers ==
    {Offer(TRUE, TRUE, s, t, r) : s \in {"VideoPreview", "VideoRecord"},
                                  t \in {"NV12", "MJPG"},
                                  r \in {9, 10, 12, 15}}
    \union {Offer(FALSE, TRUE, "VideoPreview", "NV12", 10),
            Offer(TRUE, FALSE, "VideoPreview", "NV12", 10),
            Offer(TRUE, TRUE, "Photo", "NV12", 10)}

Format == INSTANCE FormatSelector
            WITH pc <- format_pc

ASSUME GpuAssumption == Gpu!GpuAssumption
ASSUME ScrfdAssumption == Scrfd!ScrfdAssumption
ASSUME AlignAssumption == Align!AlignmentAssumption
ASSUME LapjvAssumption == Lapjv!AssignmentAssumption
ASSUME TrackAssumption == Track!TrackAssumption
ASSUME MatcherAssumption ==
    Matcher!IdentityAssumption /\ Matcher!OfferedAssumption
ASSUME FormatAssumption == Format!OffersAssumption

-----------------------------------------------------------------------------
GpuOff ==
    /\ device = Asleep /\ content = Asleep /\ incarn = Asleep /\ tag = Asleep
    /\ latest = Asleep /\ gpu_frame = Asleep /\ nextTag = Asleep /\ enabled = Asleep
    /\ lru = Asleep /\ views = Asleep /\ made = Asleep /\ srcDevice = Asleep
    /\ fenceNext = Asleep /\ wrapped = Asleep /\ bound = Asleep /\ gpu_pc = Asleep
    /\ model = Asleep /\ obs = Asleep /\ batch = Asleep /\ recorded = Asleep
    /\ camQ = Asleep /\ queue = Asleep /\ fence = Asleep /\ nv12 = Asleep
    /\ tensor = Asleep /\ output = Asleep /\ got = Asleep
ScrfdOff ==
    /\ scrfd_pc = Asleep /\ blobs = Asleep /\ input = Asleep /\ candidates = Asleep
    /\ kept = Asleep /\ result = Asleep
AlignOff ==
    /\ landmarks = Asleep /\ stage = Asleep /\ align_pc = Asleep /\ col = Asleep
    /\ A = Asleep /\ b = Asleep /\ fit = Asleep
LapjvOff ==
    /\ costs = Asleep /\ u = Asleep /\ v = Asleep /\ p = Asleep /\ way = Asleep
    /\ minv = Asleep /\ used = Asleep /\ i = Asleep /\ j0 = Asleep /\ lapjv_pc = Asleep
TrackOff ==
    /\ frame = Asleep /\ next_id = Asleep /\ trk = Asleep /\ tracked = Asleep
    /\ lost = Asleep /\ removed = Asleep /\ out = Asleep /\ oldest = Asleep
    /\ started = Asleep /\ tracking = Asleep /\ known = Asleep
MatcherOff ==
    /\ identities_ = Asleep /\ owners_ = Asleep /\ matrix_ = Asleep /\ best_ = Asleep
    /\ answer = Asleep /\ given = Asleep
FormatOff ==
    /\ listed = Asleep /\ request = Asleep /\ k = Asleep /\ best = Asleep
    /\ format_pc = Asleep

Init ==
    /\ component \in {"gpu", "scrfd", "align", "lapjv", "track", "matcher",
                      "format"}
    /\ IF component = "gpu" THEN Gpu!Init ELSE GpuOff
    /\ IF component = "scrfd" THEN Scrfd!Init ELSE ScrfdOff
    /\ IF component = "align" THEN Align!Init ELSE AlignOff
    /\ IF component = "lapjv" THEN Lapjv!Init ELSE LapjvOff
    /\ IF component = "track" THEN Track!RuntimeInit ELSE TrackOff
    /\ IF component = "matcher" THEN Matcher!Init ELSE MatcherOff
    /\ IF component = "format" THEN Format!Init ELSE FormatOff

Next ==
    /\ \/ /\ component = "gpu" /\ Gpu!Next
          /\ UNCHANGED <<scrfdVars, alignVars, lapjvVars, trackVars,
                         matcherVars, formatVars>>
       \/ /\ component = "scrfd" /\ Scrfd!Next
          /\ UNCHANGED <<gpuVars, alignVars, lapjvVars, trackVars,
                         matcherVars, formatVars>>
       \/ /\ component = "align" /\ Align!Next
          /\ UNCHANGED <<gpuVars, scrfdVars, lapjvVars, trackVars,
                         matcherVars, formatVars>>
       \/ /\ component = "lapjv" /\ Lapjv!Next
          /\ UNCHANGED <<gpuVars, scrfdVars, alignVars, trackVars,
                         matcherVars, formatVars>>
       \/ /\ component = "track" /\ Track!RuntimeNext
          /\ UNCHANGED <<gpuVars, scrfdVars, alignVars, lapjvVars,
                         matcherVars, formatVars>>
       \/ /\ component = "matcher" /\ Matcher!Next
          /\ UNCHANGED <<gpuVars, scrfdVars, alignVars, lapjvVars, trackVars,
                         formatVars>>
       \/ /\ component = "format" /\ Format!Next
          /\ UNCHANGED <<gpuVars, scrfdVars, alignVars, lapjvVars, trackVars,
                         matcherVars>>
    /\ UNCHANGED component

Spec == Init /\ [][Next]_vars

-----------------------------------------------------------------------------
(* The parts of a property are those of the modules, where each is         *)
(* explained; a property here says what they come to for a component.      *)

\* FramesSound: the preprocessors use what their construction has made; a
\* result is of the frame and the face at hand, no copy waits to overwrite
\* what is still to be read, camera textures are given back before the flush,
\* and a cached view is of the texture that is at its address now.  decode and
\* nms return boxes inside the picture with no overlapping pair and none
\* dropped without reason, whatever the outputs contain.
FramesSound ==
    /\ component = "gpu" =>
        /\ Gpu!NothingUsedBeforeMade
        /\ Gpu!FreshResult
        /\ Gpu!NoOverwriteWhileRead
        /\ Gpu!ReleasedBeforeFlush
        /\ Gpu!CacheSound
        /\ Gpu!TypeOK
    /\ component = "scrfd" =>
        /\ Scrfd!OutputsOneOfEach
        /\ Scrfd!InsideThePicture
        /\ Scrfd!NmsSound

\* FacesSound: a face that passes quality can be aligned for both models, by
\* the transform of least squares, whose inverse takes the template back.
FacesSound ==
    component = "align" =>
        /\ Align!QualityMeansAlignable
        /\ Align!LeastSquares
        /\ Align!InverseTakesBack

\* TracksSound: a track is in at most one list of the tracker, is reported
\* only with a detection of the frame that is its own, and one that started
\* after the first frame not at its first sight; it is lost for a bounded time
\* and does not come back under its number; removing near duplicates leaves
\* some track of the greatest age; the processor's evidence is of the track
\* that has the number now; and linear_assignment pairs tracks and boxes at
\* the least cost.
TracksSound ==
    /\ [](component = "track" =>
            /\ Track!ListsPartition
            /\ Track!OutputsCurrent
            /\ Track!SeenTwice
            /\ Track!LostNotForEver
            /\ Track!LongestLivedStays
            /\ Track!EvidenceOfThisTrack
            /\ Track!TypeOK)
    /\ [](component = "lapjv" =>
            /\ Lapjv!Optimal
            /\ Lapjv!DualFeasible
            /\ Lapjv!TypeOK)
    /\ [][component = "track" => Track!StaysGone]_vars

\* MatchSound: replace installs a whole gallery or leaves the old one, and
\* match returns the best identity of it and the distance to the next one.
MatchSound ==
    /\ [](component = "matcher" => Matcher!InstalledAsAWhole)
    /\ [][component = "matcher" => Matcher!AnswerIsBest]_vars

\* ModeSound: initialize_capture takes the best mode by rate, stream and
\* subtype, and over near ties drifts no further than they allow.
ModeSound ==
    component = "format" =>
        /\ Format!NoDriftBeyondTies
        /\ Format!BestModeTaken
==============================================================================
