------------------------------ MODULE ByteTrack ------------------------------
(***************************************************************************)
(* vision_runtime/bytetrack: ByteTracker gives the faces of successive     *)
(* frames a track identifier.  update() associates the detections of a     *)
(* frame with the tracks it keeps in three rounds, starts tracks, gives    *)
(* tracks up, and removes near duplicates.                                 *)
(*                                                                         *)
(* Boxes and the Kalman filter are abstracted: an association is any       *)
(* matching of its rows and columns (module Assignment says what           *)
(* linear_assignment returns), and any pair of boxes may overlap.  A list  *)
(* of tracks is abstracted to how often each track occurs in it, since     *)
(* only that, and not the order, decides what update() does.               *)
(***************************************************************************)
EXTENDS Integers, FiniteSets

CONSTANTS
    MaxDets,       \* bound: detections of a frame
    MaxTimeLost,   \* Impl::max_time_lost
    MaxIds,        \* bound: tracks started since the last reset
    MaxFrame       \* bound: frames since the last reset

TrackAssumption ==
    /\ MaxDets \in Nat /\ MaxTimeLost \in Nat
    /\ MaxIds \in Nat /\ MaxFrame \in Nat

Ids == 1..MaxIds
Dets == 1..MaxDets

VARIABLES
    frame,     \* Impl::frame
    next_id,   \* Impl::next_id
    trk,       \* the STrack object of each identifier
    tracked,   \* Impl::tracked, as occurrences of each track
    lost,      \* Impl::lost
    removed,   \* Impl::removed
    out,       \* what the last update returned
    oldest     \* history: the longest life before remove_duplicates

vars == <<frame, next_id, trk, tracked, lost, removed, out, oldest>>

\* How the score of a detection compares with the thresholds: at least
\* new_track_threshold, above track_threshold, between low_threshold and
\* track_threshold, or none of these (no detection, or a score equal to
\* track_threshold, which is neither high nor low).
Score == {"new", "high", "low", "none"}

STrack == [state : {"New", "Tracked", "Lost", "Removed"}, activated : BOOLEAN,
           frame : Nat, start : Nat, obs : 0..MaxDets]
Unused == [state |-> "New", activated |-> FALSE, frame |-> 0, start |-> 0,
           obs |-> 0]

Empty == [t \in Ids |-> 0]
In(list) == {t \in Ids : list[t] > 0}

TypeOK ==
    /\ frame \in 0..MaxFrame /\ next_id \in 1..(MaxIds + 1)
    /\ trk \in [Ids -> STrack]
    /\ \A list \in {tracked, lost, removed, out} : list \in [Ids -> 0..1]
    /\ oldest \in -1..MaxFrame

Init ==
    /\ frame = 0 /\ next_id = 1 /\ trk = [t \in Ids |-> Unused]
    /\ tracked = Empty /\ lost = Empty /\ removed = Empty /\ out = Empty
    /\ oldest = -1

-----------------------------------------------------------------------------
\* joint_tracks: b's tracks are added unless their identifier is there.
Joint(a, b) ==
    [t \in Ids |-> IF a[t] > 0 THEN a[t] ELSE IF b[t] > 0 THEN 1 ELSE 0]

\* subtract_tracks
Subtract(a, b) == [t \in Ids |-> IF b[t] > 0 THEN 0 ELSE a[t]]

\* insert at the end
Insert(a, b) == [t \in Ids |-> a[t] + b[t]]

\* A list that holds each track of a set once, and the part of a list that
\* is in a set.
Once(S) == [t \in Ids |-> IF t \in S THEN 1 ELSE 0]
Only(a, S) == [t \in Ids |-> IF t \in S THEN a[t] ELSE 0]

\* associate: what may come out of an association is, for each column, its
\* row or 0; no row has two columns.
Associate(rows, cols) ==
    {f \in [cols -> rows \union {0}] :
       \A c, d \in cols : (f[c] = f[d] /\ f[c] # 0) => c = d}
Rows(f) == {f[c] : c \in DOMAIN f} \ {0}
Column(f, t) == CHOOSE c \in DOMAIN f : f[c] = t
FreeColumns(f) == {c \in DOMAIN f : f[c] = 0}

\* update and re_activate, by detection d.
Updated(s, d, n) == [state |-> "Tracked", activated |-> TRUE, frame |-> n,
                     start |-> s.start, obs |-> d]

\* Mutant: every new track is confirmed.
Activated_AtOnce(d, n) == [state |-> "Tracked", activated |-> TRUE,
                           frame |-> n, start |-> n, obs |-> d]
\* activate: only a track of the first frame is confirmed at once.
Activated(d, n) == [state |-> "Tracked", activated |-> (n = 1), frame |-> n,
                    start |-> n, obs |-> d]

\* frame_id_ - start_frame_
Life(s) == s.frame - s.start
MaxLife(T, S) == IF S = {} THEN -1
                 ELSE Life(T[CHOOSE s \in S : \A r \in S : Life(T[r]) <= Life(T[s])])

\* remove_duplicates: of two tracks whose boxes nearly coincide the lost one
\* goes when it is the younger, the tracked one otherwise.
DropTracked(T, close) == {p[1] : p \in {q \in close : Life(T[q[1]]) <= Life(T[q[2]])}}
\* Mutant: of two tracks that lived equally long both go.
DropLost_Ties(T, close) == {p[2] : p \in {q \in close : Life(T[q[1]]) >= Life(T[q[2]])}}
DropLost(T, close) == {p[2] : p \in {q \in close : Life(T[q[1]]) > Life(T[q[2]])}}

-----------------------------------------------------------------------------
\* confirmed and lost tracks compete for the high detections.
Unconfirmed == {t \in In(tracked) : ~ trk[t].activated}
Confirmed == In(tracked) \ Unconfirmed
Pool == In(Joint(Only(tracked, Confirmed), lost))

\* Only tracks that are not lost take part in the second association.
SecondRows(first) == {t \in Pool \ Rows(first) : trk[t].state = "Tracked"}

\* Mutant: a new track gets the smallest number that no list holds.
Started_FirstFree(S) ==
    LET free == {u \in Ids : tracked[u] + lost[u] + removed[u] = 0}
        k(t) == Cardinality({u \in free : u < t})
    IN  [t \in {u \in free : k(u) < Cardinality(S)} |->
           CHOOSE d \in S : Cardinality({e \in S : e < d}) = k(t)]
\* The tracks started from the detections S, in the order of the input.
Started(S) ==
    [t \in {u \in Ids : u >= next_id /\ u < next_id + Cardinality(S)} |->
       CHOOSE d \in S : Cardinality({e \in S : e < d}) = t - next_id]

\* Mutant: a track that was not found keeps its state.
AfterRounds_NotMarked(first, second, unc, start, n) ==
    [t \in Ids |->
       CASE t \in Rows(first)  -> Updated(trk[t], Column(first, t), n)
         [] t \in Rows(second) -> Updated(trk[t], Column(second, t), n)
         [] t \in Rows(unc)    -> Updated(trk[t], Column(unc, t), n)
         [] t \in Unconfirmed \ Rows(unc) -> [trk[t] EXCEPT !.state = "Removed"]
         [] t \in DOMAIN start -> Activated(start[t], n)
         [] OTHER -> trk[t]]
\* The tracks after the three rounds and the start of new ones.
AfterRounds(first, second, unc, start, n) ==
    [t \in Ids |->
       CASE t \in Rows(first)  -> Updated(trk[t], Column(first, t), n)
         [] t \in Rows(second) -> Updated(trk[t], Column(second, t), n)
         [] t \in SecondRows(first) \ Rows(second) ->
              [trk[t] EXCEPT !.state = "Lost"]
         [] t \in Rows(unc)    -> Updated(trk[t], Column(unc, t), n)
         [] t \in Unconfirmed \ Rows(unc) -> [trk[t] EXCEPT !.state = "Removed"]
         [] t \in DOMAIN start -> Activated(start[t], n)
         [] OTHER -> trk[t]]

\* Mutant: the age of a lost track is not looked at.
Expired_Never(T, n) == {}
\* The lost tracks that were not found for too long.
Expired(T, n) == {t \in In(lost) : n - T[t].frame > MaxTimeLost}

\* Mutant: unconfirmed tracks compete with the others.
UnconfirmedColumns_All(high, first) == high
\* Unconfirmed tracks get what the first association left.
UnconfirmedColumns(high, first) == FreeColumns(first)

\* The lists, after the tracks became T, before remove_duplicates.
Lists(T, found, gone, again) ==
    LET tk == Joint(Joint(Only(tracked, {t \in Ids : T[t].state = "Tracked"}),
                          Once(found)), Once(again))
    IN  [tracked |-> tk,
         lost |-> Subtract(Insert(Subtract(lost, tk), Once(gone.lost)),
                           Once(gone.removed))]

\* The detections of a frame: each has a score.
Update(score) ==
    LET n    == frame + 1
        high == {d \in Dets : score[d] \in {"new", "high"}}
        low  == {d \in Dets : score[d] = "low"}
    IN  /\ frame < MaxFrame /\ frame' = n
        /\ \E first \in Associate(Pool, high) :
           \E second \in Associate(SecondRows(first), low) :
           \E unc \in Associate(Unconfirmed, UnconfirmedColumns(high, first)) :
             LET fresh == {d \in FreeColumns(unc) : score[d] = "new"}
                 start == Started(fresh)
                 T0    == AfterRounds(first, second, unc, start, n)
                 old   == Expired(T0, n)
                 T     == [t \in Ids |-> IF t \in old
                             THEN [T0[t] EXCEPT !.state = "Removed"] ELSE T0[t]]
                 again == {t \in Rows(first) \union Rows(second) :
                             trk[t].state # "Tracked"}
                 found == (Rows(first) \union Rows(second) \union Rows(unc)
                             \union DOMAIN start) \ again
                 gone  == [lost |-> SecondRows(first) \ Rows(second),
                           removed |-> (Unconfirmed \ Rows(unc)) \union old]
                 lists == Lists(T, found, gone, again)
             IN  /\ next_id + Cardinality(fresh) <= MaxIds + 1
                 /\ next_id' = next_id + Cardinality(fresh)
                 /\ trk' = T
                 /\ removed' = Insert(removed, Once(gone.removed))
                 /\ oldest' = MaxLife(T, In(lists.tracked) \union In(lists.lost))
                 /\ \E close \in SUBSET (In(lists.tracked) \X In(lists.lost)) :
                      /\ tracked' = Only(lists.tracked,
                                         Ids \ DropTracked(T, close))
                      /\ lost' = Only(lists.lost, Ids \ DropLost(T, close))
        /\ out' = Only(tracked', {t \in Ids : trk'[t].activated})

\* reset: the next track is number 1 again.
Reset ==
    /\ frame' = 0 /\ next_id' = 1 /\ trk' = [t \in Ids |-> Unused]
    /\ tracked' = Empty /\ lost' = Empty /\ removed' = Empty
    /\ out' = Empty /\ oldest' = -1

Next == (\E score \in [Dets -> Score] : Update(score)) \/ Reset

Spec == Init /\ [][Next]_vars

-----------------------------------------------------------------------------
\* A track is in at most one of the three lists, once, and its state says
\* in which: tracks are shared between lists, and update() moves them about
\* in four steps that each compare identifiers.
ListsPartition ==
    /\ \A t \in Ids : tracked[t] + lost[t] + removed[t] <= 1
    /\ \A t \in In(tracked) : trk[t].state = "Tracked"
    /\ \A t \in In(lost)    : trk[t].state = "Lost" /\ trk[t].activated
    /\ \A t \in In(removed) : trk[t].state = "Removed"

\* What update() returns are tracks that a detection of this very frame was
\* matched to, each with a detection of its own, each identifier once: the
\* attendance processor takes the landmarks of that detection, and throws
\* on a repeated identifier.
OutputsCurrent ==
    /\ \A t \in In(out) : out[t] = 1 /\ trk[t].frame = frame /\ trk[t].obs # 0
    /\ \A t, u \in In(out) : trk[t].obs = trk[u].obs => t = u

\* A face is returned only when it was seen in two frames, unless the
\* first frame showed it.
SeenTwice ==
    \A t \in In(out) : trk[t].start < frame \/ (trk[t].start = 1 /\ frame = 1)

\* A track that was lost is given up after max_time_lost frames (after one
\* frame when that is zero).
LostNotForEver ==
    \A t \in In(lost) : frame - trk[t].frame <= (IF MaxTimeLost = 0 THEN 1 ELSE MaxTimeLost)

\* Removing near duplicates never costs the track that lived longest: one
\* that lived as long as any stays.
LongestLivedStays ==
    oldest >= 0 =>
      \E t \in In(tracked) \union In(lost) : Life(trk[t]) = oldest

\* Between two resets an identifier that was given up never comes back: it
\* would join the evidence of two faces.
StaysGone ==
    frame' > 0 =>
      \A t \in 1..(next_id - 1) :
        t \notin In(tracked) \union In(lost) =>
          t \notin In(tracked') \union In(lost')
NeverResurrected == [][StaysGone]_vars

-----------------------------------------------------------------------------
(* What makes these properties inductive.                                  *)

\* A number that was not given yet has no track.
FreshUnused ==
    \A t \in Ids : t >= next_id =>
        trk[t] = Unused /\ tracked[t] + lost[t] + removed[t] = 0

\* Every tracked track was matched in this frame, to a detection of its own.
SeenNow ==
    /\ \A t \in In(tracked) : trk[t].frame = frame /\ trk[t].obs # 0
    /\ \A t, s \in In(tracked) : trk[t].obs = trk[s].obs => t = s

\* A track starts before it is seen again, and a confirmed one was, unless
\* it started in the first frame.
LifeSoFar ==
    /\ \A t \in Ids : trk[t].start <= trk[t].frame /\ trk[t].frame <= frame
    /\ \A t \in In(tracked) : trk[t].activated =>
         trk[t].start < frame \/ (trk[t].start = 1 /\ frame = 1)

Reported == \A t \in Ids : out[t] = IF trk[t].activated THEN tracked[t] ELSE 0

TrackInvariant ==
    /\ TypeOK /\ ListsPartition /\ FreshUnused /\ SeenNow /\ LifeSoFar
    /\ Reported /\ LostNotForEver /\ LongestLivedStays
==============================================================================
