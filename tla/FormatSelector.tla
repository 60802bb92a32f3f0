--------------------------- MODULE FormatSelector ---------------------------
(***************************************************************************)
(* The choice of a camera mode: the loop of Camera::Impl::initialize_capture*)
(* over the formats a driver lists (vision_runtime/camera/camera.cpp) and  *)
(* the order of preference of vision_runtime/camera/format_selector.cpp.   *)
(*                                                                         *)
(* A listed format is what the loop tells apart: whether its source and    *)
(* its picture size pass the filters, its stream, its subtype and its      *)
(* frame rate.  Rates and errors are integers; TieEpsilon and MaxFpsError  *)
(* are the constants of the code in that unit.                             *)
(***************************************************************************)
EXTENDS Integers, Sequences, FiniteSetsExt

CONSTANTS
    Offers,        \* the formats a driver may list
    Wanted,        \* config.fps
    MaxListed,     \* formats in the driver's list
    TieEpsilon,    \* kTieEpsilon
    MaxFpsError,   \* kMaxFpsError
    Subtypes,      \* the subtypes a configuration may ask for
    AnySubtype     \* no subtype was requested

Streams == {"VideoPreview", "VideoRecord", "Photo"}
AnyStream == "Auto"

VARIABLES
    listed,    \* the driver's list: source and format of each entry
    request,   \* stream and subtype asked for in the configuration
    k,         \* the entry the loop is at
    best,      \* index of the best candidate so far, 0 when there is none
    pc         \* "scan", "active" (the mode is set) or "error" (it throws)

vars == <<listed, request, k, best, pc>>

OffersAssumption ==
    /\ Wanted \in Nat /\ MaxListed \in Nat
    /\ TieEpsilon \in Nat \ {0} /\ MaxFpsError \in Nat
    /\ \A f \in Offers : /\ f.color \in BOOLEAN /\ f.fits \in BOOLEAN
                         /\ f.stream \in Streams /\ f.rate \in Nat

-----------------------------------------------------------------------------
(* format_selector.cpp                                                     *)

subtype_rank(s) ==
    CASE s = "NV12" -> 0 [] s = "YUY2" -> 1 [] s = "BGRA8" -> 2
      [] s = "ARGB32" -> 3 [] s = "RGB32" -> 4
      [] s = "MJPG" -> 50 [] s = "H264" -> 60 [] OTHER -> 20

stream_rank(s) ==
    CASE s = "VideoPreview" -> 0 [] s = "VideoRecord" -> 1 [] OTHER -> 10

stream_matches(actual, requested) ==
    requested = AnyStream \/ actual = requested

Distance(a, b) == IF a < b THEN b - a ELSE a - b
fps_error(f) == Distance(f.rate, Wanted)

\* The score of a format: error, stream and subtype, in that order.
Score(f) == <<fps_error(f), stream_rank(f.stream), subtype_rank(f.subtype)>>

\* Mutant: the subtype is compared before the stream.
is_better_candidate_SubtypeFirst(c, i) ==
    \/ c[1] < i[1]
    \/ Distance(c[1], i[1]) < TieEpsilon /\ c[3] < i[3]
    \/ Distance(c[1], i[1]) < TieEpsilon /\ c[3] = i[3] /\ c[2] < i[2]
is_better_candidate(c, i) ==
    \/ c[1] < i[1]
    \/ Distance(c[1], i[1]) < TieEpsilon /\ c[2] < i[2]
    \/ Distance(c[1], i[1]) < TieEpsilon /\ c[2] = i[2] /\ c[3] < i[3]

is_supported_fps(e) == ~ (e > MaxFpsError)

-----------------------------------------------------------------------------
(* initialize_capture                                                      *)

Init ==
    /\ listed \in UNION {[1..n -> Offers] : n \in 0..MaxListed}
    /\ request \in [stream : {AnyStream, "VideoPreview", "VideoRecord"},
                    subtype : {AnySubtype} \union Subtypes]
    /\ k = 1 /\ best = 0 /\ pc = "scan"

\* The filters of the two loops: a colour video source of the stream asked
\* for, the picture size, the subtype asked for.
Eligible(f) ==
    /\ f.color /\ f.stream \in {"VideoPreview", "VideoRecord"}
    /\ stream_matches(f.stream, request.stream)
    /\ f.fits
    /\ request.subtype = AnySubtype \/ f.subtype = request.subtype

Skip ==
    /\ pc = "scan" /\ k <= Len(listed) /\ ~ Eligible(listed[k])
    /\ k' = k + 1 /\ UNCHANGED <<listed, request, best, pc>>

Compare ==
    /\ pc = "scan" /\ k <= Len(listed) /\ Eligible(listed[k])
    /\ best' = IF \/ best = 0
                  \/ is_better_candidate(Score(listed[k]), Score(listed[best]))
               THEN k ELSE best
    /\ k' = k + 1 /\ UNCHANGED <<listed, request, pc>>

\* Mutant: the error of the chosen mode is not looked at.
Select_Anything ==
    /\ pc = "scan" /\ k > Len(listed)
    /\ pc' = IF best # 0 THEN "active" ELSE "error"
    /\ UNCHANGED <<listed, request, k, best>>
Select ==
    /\ pc = "scan" /\ k > Len(listed)
    /\ pc' = IF best # 0 /\ is_supported_fps(fps_error(listed[best]))
             THEN "active" ELSE "error"
    /\ UNCHANGED <<listed, request, k, best>>

Ended == pc # "scan" /\ UNCHANGED vars

Next == Skip \/ Compare \/ Select \/ Ended

Spec == Init /\ [][Next]_vars

-----------------------------------------------------------------------------
Usable == {j \in 1..Len(listed) : Eligible(listed[j])}
Errors == {fps_error(listed[j]) : j \in Usable}

\* No two rates of the list are a near tie: equal, or an epsilon apart.
Separated == \A d, e \in Errors : d = e \/ Distance(d, e) >= TieEpsilon

Lexicographic(c, i) ==
    \/ c[1] < i[1]
    \/ c[1] = i[1] /\ c[2] < i[2]
    \/ c[1] = i[1] /\ c[2] = i[2] /\ c[3] < i[3]

\* Whatever the order of the driver's list: unless two rates are a near tie,
\* the mode taken is the best one listed (error, then stream, then subtype),
\* the first one among equals, and the camera refuses to start only when no
\* listed mode is within the tolerance.
BestModeTaken ==
    pc # "scan" /\ Separated =>
        /\ best # 0 =>
             \A j \in Usable :
                 /\ ~ Lexicographic(Score(listed[j]), Score(listed[best]))
                 /\ Score(listed[j]) = Score(listed[best]) => best <= j
        /\ pc = "error" <=> \A e \in Errors : e > MaxFpsError

\* Near ties included: the mode taken passes the filters, lies within the
\* tolerance, and its error exceeds the smallest one of the list by less
\* than an epsilon for every other mode that could have been preferred.
NoDriftBeyondTies ==
    pc = "active" =>
        /\ best \in Usable /\ fps_error(listed[best]) <= MaxFpsError
        /\ fps_error(listed[best]) <=
             Min(Errors) + (TieEpsilon - 1) * (Cardinality(Usable) - 1)

-----------------------------------------------------------------------------
(* Why it holds: what the scan knows of the part of the list it has seen.  *)

Considered == {j \in Usable : j < k}

ScanTypes ==
    /\ Len(listed) \in Nat /\ listed \in [1..Len(listed) -> Offers]
    /\ k \in 1..(Len(listed) + 1)
    /\ pc \in {"scan", "active", "error"}
    /\ pc # "scan" => k = Len(listed) + 1

\* There is a best mode as soon as one was usable, and it was judged.
BestOfConsidered ==
    /\ IF best = 0 THEN Considered = {} ELSE best \in Considered
    /\ pc # "scan" =>
         (pc = "active"
            <=> best # 0 /\ is_supported_fps(fps_error(listed[best])))

PreferredSoFar ==
    Separated /\ best # 0 =>
        \A j \in Considered :
            /\ ~ Lexicographic(Score(listed[j]), Score(listed[best]))
            /\ Score(listed[j]) = Score(listed[best]) => best <= j

\* Every usable mode lets the error grow by less than an epsilon.
DriftSoFar ==
    best # 0 =>
        /\ \A j \in Considered :
             fps_error(listed[best]) <= fps_error(listed[j])
               + (TieEpsilon - 1) * (Cardinality(Considered) - 1)
        /\ \E i \in Considered : \A j \in Considered :
             fps_error(listed[i]) <= fps_error(listed[j])

ModeInvariant == ScanTypes /\ BestOfConsidered /\ PreferredSoFar /\ DriftSoFar
=============================================================================
