------------------------ MODULE AttendanceProcessor ------------------------
(***************************************************************************)
(* vision_runtime/pipeline/attendance_processor: from the tracked faces of *)
(* a frame to attendance events.  Each track collects presentation-attack  *)
(* votes, then face recognitions, and an identity that was announced is    *)
(* not announced again before a cooldown is over.                          *)
(*                                                                         *)
(* Instants are modelled by their age, saturated where a larger age makes  *)
(* no difference to the code, so behaviours are not bounded: frames and    *)
(* time go on for ever.  The models are external: a vote and a match are   *)
(* inputs of the frame.                                                    *)
(***************************************************************************)
EXTENDS Integers

CONSTANTS
    Tracks,          \* track identifiers
    Identities,      \* identities a gallery may hold
    None,            \* no gallery identity is similar enough
    BonaFide,        \* pad_bona_fide_votes_required
    Attack,          \* pad_attack_votes_required
    PadMax,          \* pad_max_attempts
    PadEvery,        \* pad_every_frames
    ArcMax,          \* recognition_max_attempts
    ArcExtra,        \* recognition_extra_attempts
    ArcEvery,        \* recognition_every_frames
    MaxQuality,      \* bound: levels of quality, retry_quality_gain apart
    MaxMissing,      \* max_missing_runtime_frames
    Ttl,             \* evidence_ttl
    Cooldown,        \* event_cooldown
    MaxGap           \* bound: time between two frames

\* validate_attendance_config
ASSUME ProcessorAssumption ==
    /\ None \notin Identities
    /\ PadMax \in Nat \ {0} /\ BonaFide \in 1..PadMax /\ Attack \in 1..PadMax
    /\ PadEvery \in Nat \ {0} /\ ArcEvery \in Nat \ {0}
    /\ ArcMax \in Nat \ {0} /\ ArcExtra \in Nat
    /\ MaxMissing \in Nat \ {0}
    /\ Ttl \in Nat \ {0} /\ Cooldown \in Nat \ {0}
    /\ MaxQuality \in Nat /\ MaxGap \in Nat

VARIABLES
    states,    \* track -> its State
    emitted,   \* identity -> age of its entry in emitted, Cooldown if none
    gallery,   \* the identities in the matcher
    events,    \* the events of the last frame
    quiet      \* history: identity -> time since its last event

vars == <<states, emitted, gallery, events, quiet>>

Phase == {"WaitingQuality", "CheckingPad", "RejectedAttack", "Recognizing",
          "Recognized", "UnknownIdentity", "RecognitionDeferred",
          "DuplicateIdentity"}

Announced == {"Recognized", "DuplicateIdentity"}

Final == Announced \cup {"RejectedAttack", "UnknownIdentity"}

\* Phases a track reaches only with enough bona fide votes.
Passed == Announced \cup {"Recognizing", "RecognitionDeferred",
                          "UnknownIdentity"}

State == [phase    : Phase,
          seen     : 0..MaxMissing,    \* tick - seen
          padAge   : 0..PadEvery,      \* tick - last_pad; PadEvery if never
          arcAge   : 0..ArcEvery,      \* tick - last_arc; ArcEvery if never
          attempts : Nat,
          extra    : 0..ArcExtra,
          real     : Nat,              \* votes
          spoof    : Nat,
          evidence : 0..(Ttl + 1),     \* age of the first vote
          terminal : 0..Cooldown,      \* age of the announcement
          best     : 0..MaxQuality]

Fresh == [phase |-> "WaitingQuality", seen |-> 0,
          padAge |-> PadEvery, arcAge |-> ArcEvery,
          attempts |-> 0, extra |-> 0, real |-> 0, spoof |-> 0,
          evidence |-> 0, terminal |-> 0, best |-> 0]

Event == [track : Tracks, identity : Identities, real : Nat, spoof : Nat,
          evidence : 0..(Ttl + 1), quiet : 0..Cooldown]

TypeOK ==
    /\ DOMAIN states \subseteq Tracks /\ states \in [DOMAIN states -> State]
    /\ emitted \in [Identities -> 0..Cooldown]
    /\ gallery \subseteq Identities
    /\ events \subseteq Event
    /\ quiet \in [Identities -> 0..Cooldown]

Init ==
    /\ states = [t \in {} |-> Fresh]
    /\ emitted = [i \in Identities |-> Cooldown]
    /\ gallery = {}
    /\ events = {}
    /\ quiet = [i \in Identities |-> Cooldown]

-----------------------------------------------------------------------------
(***************************************************************************)
(* What a frame does to one track.                                         *)
(***************************************************************************)

Capped(n, cap) == IF n <= cap THEN n ELSE cap

Votes(s) == s.real + s.spoof

\* The next tick, `gap' later.
Aged(s, gap) ==
    [s EXCEPT !.seen     = @ + 1,
              !.padAge   = Capped(@ + 1, PadEvery),
              !.arcAge   = Capped(@ + 1, ArcEvery),
              !.evidence = IF Votes(s) > 0 THEN Capped(@ + gap, Ttl + 1) ELSE 0,
              !.terminal = IF s.phase \in Announced
                             THEN Capped(@ + gap, Cooldown) ELSE 0]

\* Mutant: evidence expires before the final phases are left alone.
Expired_RejectionToo(s) ==
    \/ s.phase \in Announced /\ s.terminal >= Cooldown
    \/ s.phase \notin Announced /\ Votes(s) > 0 /\ s.evidence > Ttl

\* Mutant: evidence expires only while votes are collected.
Expired_NotWhileRecognizing(s) ==
    \/ s.phase \in Announced /\ s.terminal >= Cooldown
    \/ s.phase \notin Passed \cup Final /\ Votes(s) > 0 /\ s.evidence > Ttl

\* Mutant: evidence as old as its limit has expired.
Expired_AtTheLimit(s) ==
    \/ s.phase \in Announced /\ s.terminal >= Cooldown
    \/ s.phase \notin Final /\ Votes(s) > 0 /\ s.evidence >= Ttl

\* The cooldown of an announced track is over, or evidence that has not led
\* to a final phase is too old.
Expired(s) ==
    \/ s.phase \in Announced /\ s.terminal >= Cooldown
    \/ s.phase \notin Final /\ Votes(s) > 0 /\ s.evidence > Ttl

\* The state of a track of the frame before any evaluation.
Entered(t, gap) ==
    IF t \notin DOMAIN states THEN Fresh
    ELSE LET s == Aged(states[t], gap)
         IN IF s.seen > MaxMissing \/ Expired(s) THEN Fresh
            ELSE [s EXCEPT !.seen = 0]

\* The first loop over the tracks: a deferred track is tried again when its
\* quality has improved; a track without enough votes is put to the vote.
Usable(s, q) == s.phase \notin Final /\ q > 0 /\ gallery # {}

Retried(s, q) ==
    IF /\ Usable(s, q) /\ s.phase = "RecognitionDeferred"
       /\ s.extra < ArcExtra /\ q > s.best
      THEN [s EXCEPT !.extra = @ + 1, !.phase = "Recognizing"]
      ELSE s

PadDue(s, q) ==
    /\ Usable(s, q)
    /\ s.phase \notin {"Recognizing", "RecognitionDeferred"}
    /\ s.padAge >= PadEvery

\* The phase after a vote: the attack votes are counted first, and a vote
\* that stays open until the last attempt is lost.
Verdict(s) ==
    CASE s.spoof >= Attack \/ (s.real < BonaFide /\ Votes(s) >= PadMax)
                -> "RejectedAttack"
      [] s.spoof < Attack /\ s.real >= BonaFide
                -> "Recognizing"
      [] OTHER  -> "CheckingPad"

PadResult == {"live", "spoof", "rejected"}

\* One result of the liveness model: a crop it rejects is no vote.
Voted(s, r) ==
    IF r = "rejected"
      THEN [s EXCEPT !.padAge = 0, !.phase = "WaitingQuality"]
      ELSE LET v == [s EXCEPT !.padAge = 0,
                              !.real   = IF r = "live" THEN @ + 1 ELSE @,
                              !.spoof  = IF r = "spoof" THEN @ + 1 ELSE @]
           IN [v EXCEPT !.phase = Verdict(v)]

ArcDue(s, q) == s.phase = "Recognizing" /\ q > 0 /\ s.arcAge >= ArcEvery

\* Mutant: one recognition more than the budget.
Unmatched_OneMore(s, q) ==
    [s EXCEPT !.arcAge = 0, !.attempts = @ + 1,
              !.best = IF q > @ THEN q ELSE @,
              !.phase = IF s.attempts + 1 <= ArcMax + s.extra THEN @
                        ELSE IF s.extra < ArcExtra THEN "RecognitionDeferred"
                        ELSE "UnknownIdentity"]

\* The averaged embedding is not similar enough to one identity.
Unmatched(s, q) ==
    [s EXCEPT !.arcAge = 0, !.attempts = @ + 1,
              !.best = IF q > @ THEN q ELSE @,
              !.phase = IF s.attempts + 1 < ArcMax + s.extra THEN @
                        ELSE IF s.extra < ArcExtra THEN "RecognitionDeferred"
                        ELSE "UnknownIdentity"]

\* It is: the track is announced, or a duplicate of an announcement.
Matched(s, q, phase) ==
    [s EXCEPT !.arcAge = 0, !.attempts = @ + 1,
              !.best = IF q > @ THEN q ELSE @,
              !.terminal = 0, !.phase = phase]

-----------------------------------------------------------------------------
(***************************************************************************)
(* Operations.                                                             *)
(***************************************************************************)

Later(age, gap) == [i \in Identities |-> Capped(age[i] + gap, Cooldown)]

\* The faces of a frame: track -> quality of its observation, 0 if there is
\* none or a gate refuses it.
Faces == UNION {[S -> 0..MaxQuality] : S \in SUBSET Tracks}

\* Of the faces of a frame that match the same identity, the first in the
\* frame's order wins; W holds the winners among C.
Winners(W, C, arc) ==
    /\ \A t \in C : \E w \in W : arc[w] = arc[t]
    /\ \A v, w \in W : arc[v] = arc[w] => v = w

\* Mutant: the state of a track that disappeared is never dropped.
Kept_Forever(S) == DOMAIN states \ S

\* The tracks that stay known although they are not among the tracks S of the
\* frame.
Kept(S) == {t \in DOMAIN states \ S : states[t].seen < MaxMissing}

\* The end of process, with the states of the frame's tracks before (voted)
\* and after the recognition of the tracks in tried.
Recognize(gap, q, voted, tried, arc) ==
    LET recent == Later(emitted, gap)
        still  == Later(quiet, gap)
        fresh  == {t \in tried : arc[t] # None /\ recent[arc[t]] = Cooldown}
    IN \E new \in SUBSET fresh :
         LET after == [t \in DOMAIN q |->
                          IF t \notin tried THEN voted[t]
                          ELSE IF arc[t] = None THEN Unmatched(voted[t], q[t])
                          ELSE Matched(voted[t], q[t],
                                       IF t \in new THEN "Recognized"
                                       ELSE "DuplicateIdentity")]
         IN /\ Winners(new, fresh, arc)
            /\ states' = [t \in DOMAIN q \cup Kept(DOMAIN q) |->
                             IF t \in DOMAIN q THEN after[t]
                             ELSE Aged(states[t], gap)]
            /\ events' = {[track |-> t, identity |-> arc[t],
                           real |-> voted[t].real, spoof |-> voted[t].spoof,
                           evidence |-> voted[t].evidence,
                           quiet |-> still[arc[t]]] : t \in new}
            /\ emitted' = [i \in Identities |->
                              IF \E t \in new : arc[t] = i THEN 0 ELSE recent[i]]
            /\ quiet' = [i \in Identities |->
                              IF \E t \in new : arc[t] = i THEN 0 ELSE still[i]]
            /\ UNCHANGED gallery

\* process: a frame with the faces q, `gap' after the last one.
Process(gap, q) ==
    LET before == [t \in DOMAIN q |-> Retried(Entered(t, gap), q[t])]
        asked  == {t \in DOMAIN q : PadDue(before[t], q[t])}
    IN \E pad \in [asked -> PadResult] :
         LET voted == [t \in DOMAIN q |->
                          IF t \in asked THEN Voted(before[t], pad[t])
                          ELSE before[t]]
             tried == {t \in DOMAIN q : ArcDue(voted[t], q[t])}
         IN \E arc \in [tried -> gallery \cup {None}] :
              Recognize(gap, q, voted, tried, arc)

\* Mutant: a new gallery also clears the cooldowns.
SetGallery_ForgetsCooldown(g) ==
    /\ gallery' = g
    /\ states' = [t \in {} |-> Fresh]
    /\ events' = {}
    /\ emitted' = [i \in Identities |-> Cooldown]
    /\ UNCHANGED quiet

\* set_gallery: the evidence of every track is dropped, the cooldowns stay.
SetGallery(g) ==
    /\ gallery' = g
    /\ states' = [t \in {} |-> Fresh]
    /\ events' = {}
    /\ UNCHANGED <<emitted, quiet>>

\* reset, by reset_session or by the start of the runtime.
Reset ==
    /\ states' = [t \in {} |-> Fresh]
    /\ events' = {}
    /\ UNCHANGED <<emitted, gallery, quiet>>

Frame == \E gap \in 0..MaxGap, q \in Faces : Process(gap, q)

Next ==
    \/ Frame
    \/ \E g \in SUBSET Identities : SetGallery(g)
    \/ Reset

Spec == Init /\ [][Next]_vars

-----------------------------------------------------------------------------
(***************************************************************************)
(* Properties.                                                             *)
(***************************************************************************)

\* Two events of one identity are at least a cooldown apart, over different
\* tracks, within one frame, and over a reset or a new gallery.
OncePerCooldown ==
    /\ \A e \in events : e.quiet >= Cooldown
    /\ \A e, f \in events : e.identity = f.identity => e = f

\* An event rests on enough bona fide votes of its own track, on too few
\* attack votes to reject it, and on no vote older than the evidence may be.
LiveEvidence ==
    \A e \in events :
        e.real >= BonaFide /\ e.spoof < Attack /\ e.evidence <= Ttl

\* The budgets hold over every mixture of votes, lost observations, retries
\* and expiries: votes, recognitions, and extra recognitions of a track.
BudgetsKept ==
    \A t \in DOMAIN states :
        /\ Votes(states[t]) <= PadMax
        /\ states[t].attempts <= ArcMax + states[t].extra
        /\ states[t].phase = "Recognizing" =>
              states[t].attempts < ArcMax + states[t].extra

\* A track rejected as an attack stays rejected while the tracker keeps it: it
\* is judged again only after it was missing longer than the limit, or after
\* a reset.
RejectionKept ==
    \A t \in DOMAIN states \cap DOMAIN states' :
        states[t].phase = "RejectedAttack" /\ states[t].seen < MaxMissing
          => states'[t].phase = "RejectedAttack"
RejectionSticks == [][RejectionKept]_vars

\* A face seen in every frame, well enough, with a gallery and scored crops.
Steady(t) ==
    \E gap \in 0..MaxGap, q \in Faces :
        /\ t \in DOMAIN q /\ q[t] > 0
        /\ Process(gap, q)
        /\ states'[t].phase # "WaitingQuality"

Decided == Final \cup {"RecognitionDeferred"}
IsDecided(t) == t \in DOMAIN states /\ states[t].phase \in Decided

\* The evidence outlives all the votes and recognitions a face may take.
EvidenceOutlives ==
    ((PadMax - 1) * PadEvery + (ArcMax - 1) * ArcEvery) * MaxGap <= Ttl

\* Such a face is eventually decided, if the evidence lives long enough.
SteadyFaceDecided ==
    EvidenceOutlives =>
        \A t \in Tracks : <>[][Steady(t)]_vars => <>IsDecided(t)
=============================================================================
