---------------------- MODULE AttendanceProcessorProofs ----------------------
(***************************************************************************)
(* Proofs about AttendanceProcessor for any set of tracks, galleries, vote *)
(* counts, budgets, cadences and times.  The state of one track is handled *)
(* by a lemma for each function process applies to it; the theorems put    *)
(* them together for a frame.                                              *)
(***************************************************************************)
EXTENDS AttendanceProcessor, TLAPS

\* What is true of the state of every track between two frames.
Sound(s) ==
    /\ s \in State
    /\ Votes(s) <= PadMax
    /\ Votes(s) = 0 => s.evidence = 0
    /\ s.phase \in {"WaitingQuality", "CheckingPad"} =>
          /\ s.real < BonaFide /\ s.spoof < Attack /\ Votes(s) < PadMax
          /\ s.attempts = 0
    /\ s.phase \in Passed => s.real >= BonaFide /\ s.spoof < Attack
    /\ s.attempts <= ArcMax + s.extra
    /\ s.phase = "Recognizing" => s.attempts < ArcMax + s.extra

\* What is true, within process, of a track of the frame.
Current(s) ==
    /\ Sound(s)
    /\ s.seen = 0
    /\ s.phase \notin Final => s.evidence <= Ttl

\* A track that was just created.
LEMMA FreshCurrent == Current(Fresh)
  BY ProcessorAssumption
  DEF Current, Sound, Fresh, State, Phase, Votes, Passed, Announced, Final

\* A tick that does not exceed the limit of missing frames.
LEMMA AgedSound ==
    ASSUME NEW s, Sound(s), s.seen < MaxMissing, NEW gap \in Nat
    PROVE  Sound(Aged(s, gap)) /\ Aged(s, gap).phase = s.phase
<1>1. s \in State
  BY DEF Sound
<1>2. s.seen + 1 \in 0..MaxMissing
  BY <1>1, ProcessorAssumption DEF State
<1>3. /\ Capped(s.padAge + 1, PadEvery) \in 0..PadEvery
      /\ Capped(s.arcAge + 1, ArcEvery) \in 0..ArcEvery
  BY <1>1, ProcessorAssumption DEF State, Capped
<1>4. (IF Votes(s) > 0 THEN Capped(s.evidence + gap, Ttl + 1) ELSE 0)
         \in 0..(Ttl + 1)
  BY <1>1, ProcessorAssumption DEF State, Capped
<1>5. (IF s.phase \in Announced THEN Capped(s.terminal + gap, Cooldown) ELSE 0)
         \in 0..Cooldown
  BY <1>1, ProcessorAssumption DEF State, Capped
<1> DEFINE n == s.seen + 1
           p == Capped(s.padAge + 1, PadEvery)
           r == Capped(s.arcAge + 1, ArcEvery)
           e == IF Votes(s) > 0 THEN Capped(s.evidence + gap, Ttl + 1) ELSE 0
           c == IF s.phase \in Announced
                  THEN Capped(s.terminal + gap, Cooldown) ELSE 0
           a == [s EXCEPT !.seen = n, !.padAge = p, !.arcAge = r,
                          !.evidence = e, !.terminal = c]
<1>6. Aged(s, gap) = a /\ (Votes(s) = 0 => e = 0)
  BY DEF Aged
<1> HIDE DEF n, p, r, e, c
<1>7. /\ a \in State /\ a.phase = s.phase /\ a.evidence = e
      /\ a.attempts = s.attempts /\ a.extra = s.extra
      /\ a.real = s.real /\ a.spoof = s.spoof
  BY <1>1, <1>2, <1>3, <1>4, <1>5 DEF State, n, p, r, e, c
<1> HIDE DEF a
<1> QED
  BY <1>6, <1>7 DEF Sound, Votes

\* A track of the frame before any evaluation: old evidence is gone.
LEMMA EnteredCurrent ==
    ASSUME NEW t, t \in DOMAIN states => Sound(states[t]), NEW gap \in Nat
    PROVE  Current(Entered(t, gap))
<1>1. CASE t \notin DOMAIN states
  BY <1>1, FreshCurrent DEF Entered
<1>2. CASE t \in DOMAIN states
  <2> DEFINE a == Aged(states[t], gap)
  <2>1. CASE a.seen > MaxMissing \/ Expired(a)
    BY <1>2, <2>1, FreshCurrent DEF Entered
  <2>2. CASE ~(a.seen > MaxMissing \/ Expired(a))
    <3>1. states[t].seen < MaxMissing
      BY <1>2, <2>2, ProcessorAssumption DEF Aged, Sound, State
    <3>2. Sound(a)
      BY <1>2, <3>1, AgedSound
    <3>3. Entered(t, gap) = [a EXCEPT !.seen = 0]
      BY <1>2, <2>2 DEF Entered
    <3> HIDE DEF a
    <3>4. Current([a EXCEPT !.seen = 0])
      BY <2>2, <3>2, ProcessorAssumption
      DEF Current, Sound, State, Votes, Expired, Final, Announced
    <3> QED
      BY <3>3, <3>4
  <2> QED
    BY <2>1, <2>2
<1> QED
  BY <1>1, <1>2

\* The first loop of process.
LEMMA RetriedCurrent ==
    ASSUME NEW s, Current(s), NEW q \in Nat
    PROVE  Current(Retried(s, q))
<1>1. CASE Retried(s, q) = s
  BY <1>1
<1>2. CASE Retried(s, q) # s
  <2>1. /\ s.phase = "RecognitionDeferred" /\ s.extra < ArcExtra
        /\ Retried(s, q) = [s EXCEPT !.extra = s.extra + 1,
                                     !.phase = "Recognizing"]
    BY <1>2 DEF Retried
  <2>2. s.extra + 1 \in 0..ArcExtra /\ s.attempts < ArcMax + (s.extra + 1)
    BY <2>1, ProcessorAssumption DEF Current, Sound, State
  <2> DEFINE x == s.extra + 1
             a == [s EXCEPT !.extra = x, !.phase = "Recognizing"]
  <2> HIDE DEF x
  <2>3. /\ a \in State /\ a.phase = "Recognizing" /\ a.extra = x
        /\ a.attempts = s.attempts /\ a.evidence = s.evidence
        /\ a.real = s.real /\ a.spoof = s.spoof /\ a.seen = s.seen
    BY <2>2 DEF Current, Sound, State, Phase, x
  <2> HIDE DEF a
  <2>4. s.attempts <= ArcMax + x /\ s.attempts < ArcMax + x
    BY <2>2, ProcessorAssumption DEF Current, Sound, State, x
  <2>5. Current(a)
    BY <2>1, <2>3, <2>4
    DEF Current, Sound, Votes, Final, Passed, Announced
  <2> QED
    BY <2>1, <2>5 DEF a, x
<1> QED
  BY <1>1, <1>2

\* One result of the liveness model.
LEMMA VotedCurrent ==
    ASSUME NEW s, Current(s), NEW q \in Nat, PadDue(s, q),
           NEW r \in PadResult
    PROVE  Current(Voted(s, r))
<1>1. s.phase \in {"WaitingQuality", "CheckingPad"}
  BY DEF Current, Sound, State, Phase, PadDue, Usable, Final, Announced
<1>2. /\ s \in State /\ s.real \in Nat /\ s.spoof \in Nat
      /\ s.evidence \in Nat /\ s.seen = 0 /\ s.attempts = 0
      /\ s.real < BonaFide /\ s.spoof < Attack /\ s.real + s.spoof < PadMax
      /\ s.evidence <= Ttl
      /\ s.extra \in Nat
  BY <1>1, ProcessorAssumption
  DEF Current, Sound, State, Votes, Final, Announced
<1>3. 0 \in 0..PadEvery
  BY ProcessorAssumption
<1>4. CASE r = "rejected"
  <2>1. ASSUME NEW p \in 0..PadEvery
        PROVE  Current([s EXCEPT !.padAge = p, !.phase = "WaitingQuality"])
    BY <1>1, <1>2, ProcessorAssumption
    DEF Current, Sound, State, Phase, Votes, Final, Passed, Announced
  <2> QED
    BY <1>3, <1>4, <2>1 DEF Voted
<1>5. CASE r # "rejected"
  <2> DEFINE re == IF r = "live" THEN s.real + 1 ELSE s.real
             sp == IF r = "spoof" THEN s.spoof + 1 ELSE s.spoof
             v  == [s EXCEPT !.padAge = 0, !.real = re, !.spoof = sp]
  <2>1. /\ re \in Nat /\ sp \in Nat /\ re + sp = s.real + s.spoof + 1
        /\ re + sp <= PadMax
    BY <1>2, <1>5, ProcessorAssumption DEF PadResult
  <2>2. Voted(s, r) = [v EXCEPT !.phase = Verdict(v)]
    BY <1>5 DEF Voted
  <2> HIDE DEF re, sp
  <2>3. ASSUME NEW p \in 0..PadEvery
        PROVE  LET w == [s EXCEPT !.padAge = p, !.real = re, !.spoof = sp]
               IN  /\ w \in State /\ w.real = re /\ w.spoof = sp
                   /\ w.seen = s.seen /\ w.attempts = s.attempts
                   /\ w.extra = s.extra /\ w.evidence = s.evidence
    BY <1>2, <2>1 DEF State
  <2>4. /\ v \in State /\ v.real = re /\ v.spoof = sp /\ v.seen = 0
        /\ v.attempts = 0 /\ v.extra = s.extra /\ v.evidence = s.evidence
    BY <1>2, <1>3, <2>3
  <2> HIDE DEF v
  <2>5. /\ Verdict(v) \in {"RejectedAttack", "Recognizing", "CheckingPad"}
        /\ Verdict(v) = "Recognizing" => re >= BonaFide /\ sp < Attack
        /\ Verdict(v) = "CheckingPad" =>
              re < BonaFide /\ sp < Attack /\ re + sp < PadMax
    BY <2>1, <2>4, ProcessorAssumption DEF Verdict, Votes
  <2>6. ASSUME NEW f \in {"RejectedAttack", "Recognizing", "CheckingPad"},
               f = "Recognizing" => re >= BonaFide /\ sp < Attack,
               f = "CheckingPad" =>
                  re < BonaFide /\ sp < Attack /\ re + sp < PadMax
        PROVE  Current([v EXCEPT !.phase = f])
    BY <1>2, <2>1, <2>4, <2>6, ProcessorAssumption
    DEF Current, Sound, State, Phase, Votes, Final, Passed, Announced
  <2> QED
    BY <2>2, <2>5, <2>6
<1> QED
  BY <1>4, <1>5

\* The state after a recognition that leads to the phase f.
Recorded(s, q, c, f) ==
    [s EXCEPT !.arcAge = 0, !.attempts = s.attempts + 1,
              !.best = IF q > s.best THEN q ELSE s.best,
              !.terminal = c, !.phase = f]

\* A recognition, whatever its result: the budget is respected.
LEMMA RecognizedSound ==
    ASSUME NEW s, Current(s), NEW q \in 0..MaxQuality, ArcDue(s, q),
           NEW f \in Phase, NEW c \in 0..Cooldown,
           f \in Passed,
           f = "Recognizing" => s.attempts + 1 < ArcMax + s.extra
    PROVE  Sound(Recorded(s, q, c, f))
<1> DEFINE n == s.attempts + 1
           b == IF q > s.best THEN q ELSE s.best
           a == [s EXCEPT !.arcAge = 0, !.attempts = n, !.best = b,
                          !.terminal = c, !.phase = f]
<1>1. s \in State /\ s.phase = "Recognizing"
  BY DEF Current, Sound, ArcDue
<1>2. n \in Nat /\ n <= ArcMax + s.extra /\ b \in 0..MaxQuality
  BY <1>1, ProcessorAssumption DEF Current, Sound, State
<1>3. 0 \in 0..ArcEvery
  BY ProcessorAssumption
<1>4. f = "Recognizing" => n < ArcMax + s.extra
  OBVIOUS
<1> HIDE DEF n, b
<1>5. ASSUME NEW z \in 0..ArcEvery
      PROVE  LET w == [s EXCEPT !.arcAge = z, !.attempts = n, !.best = b,
                                !.terminal = c, !.phase = f]
             IN  /\ w \in State /\ w.phase = f /\ w.attempts = n
                 /\ w.extra = s.extra /\ w.evidence = s.evidence
                 /\ w.real = s.real /\ w.spoof = s.spoof
  BY <1>1, <1>2 DEF State
<1>6. /\ a \in State /\ a.phase = f /\ a.attempts = n
      /\ a.extra = s.extra /\ a.evidence = s.evidence
      /\ a.real = s.real /\ a.spoof = s.spoof
  BY <1>3, <1>5
<1> HIDE DEF a
<1>7. Sound(a)
  BY <1>1, <1>2, <1>4, <1>6 DEF Current, Sound, Votes, Passed, Announced
<1> QED
  BY <1>7 DEF Recorded, a, n, b

\* A recognition without a match.
LEMMA UnmatchedSound ==
    ASSUME NEW s, Current(s), NEW q \in 0..MaxQuality, ArcDue(s, q)
    PROVE  Sound(Unmatched(s, q))
<1> DEFINE f == IF s.attempts + 1 < ArcMax + s.extra THEN s.phase
                ELSE IF s.extra < ArcExtra THEN "RecognitionDeferred"
                ELSE "UnknownIdentity"
<1>1. s.phase = "Recognizing" /\ s \in State
  BY DEF ArcDue, Current, Sound
<1>2. f \in Phase /\ f \in Passed
  BY <1>1 DEF Phase, Passed
<1>3. f = "Recognizing" => s.attempts + 1 < ArcMax + s.extra
  BY <1>1
<1>4. s.terminal \in 0..Cooldown
  BY <1>1 DEF State
<1>5. Unmatched(s, q) = Recorded(s, q, s.terminal, f)
  BY <1>1 DEF Unmatched, Recorded, State
<1> HIDE DEF f
<1> QED
  BY <1>2, <1>3, <1>4, <1>5, RecognizedSound

\* A recognition with a match.
LEMMA MatchedSound ==
    ASSUME NEW s, Current(s), NEW q \in 0..MaxQuality, ArcDue(s, q),
           NEW f \in Announced
    PROVE  Sound(Matched(s, q, f))
<1>1. f \in Phase /\ f \in Passed /\ f # "Recognizing"
  BY DEF Phase, Passed, Announced
<1>2. 0 \in 0..Cooldown
  BY ProcessorAssumption
<1>3. Matched(s, q, f) = Recorded(s, q, 0, f)
  BY DEF Matched, Recorded
<1> QED
  BY <1>1, <1>2, <1>3, RecognizedSound

\* The inductive invariant.  The code's table of announced identities is never
\* older than the time since an identity's last event.
ProcessorInvariant ==
    /\ DOMAIN states \subseteq Tracks
    /\ states = [t \in DOMAIN states |-> states[t]]
    /\ \A t \in DOMAIN states : Sound(states[t])
    /\ emitted \in [Identities -> 0..Cooldown]
    /\ quiet \in [Identities -> 0..Cooldown]
    /\ \A i \in Identities : emitted[i] <= quiet[i]
    /\ gallery \subseteq Identities
    /\ events \subseteq Event
    /\ OncePerCooldown
    /\ LiveEvidence

\* A rejected track passes through the first loop of process as it is.
LEMMA RejectedStays ==
    ASSUME NEW t \in DOMAIN states, Sound(states[t]),
           states[t].phase = "RejectedAttack", states[t].seen < MaxMissing,
           NEW gap \in Nat, NEW q
    PROVE  Retried(Entered(t, gap), q).phase = "RejectedAttack"
<1> DEFINE a == Aged(states[t], gap)
<1>1. Sound(a) /\ a.phase = "RejectedAttack"
  BY AgedSound
<1>2. a.seen = states[t].seen + 1
  BY DEF Aged, Sound, State
<1>3. ~(a.seen > MaxMissing)
  BY <1>2, ProcessorAssumption DEF Sound, State
<1>4. ~Expired(a)
  BY <1>1 DEF Expired, Announced, Final
<1>5. Entered(t, gap) = [a EXCEPT !.seen = 0]
  BY <1>3, <1>4 DEF Entered
<1> HIDE DEF a
<1>6. Entered(t, gap).phase = "RejectedAttack"
  BY <1>1, <1>5 DEF Sound, State
<1> QED
  BY <1>6 DEF Retried

\* The second half of a frame, from any current states of its tracks.
LEMMA RecognizeStep ==
    ASSUME ProcessorInvariant, NEW gap \in Nat, NEW q \in Faces,
           NEW voted, \A t \in DOMAIN q : Current(voted[t]),
           NEW tried, tried = {t \in DOMAIN q : ArcDue(voted[t], q[t])},
           NEW arc \in [tried -> gallery \cup {None}],
           Recognize(gap, q, voted, tried, arc),
           \A t \in DOMAIN q \cap DOMAIN states :
              states[t].phase = "RejectedAttack" /\ states[t].seen < MaxMissing
                => voted[t].phase = "RejectedAttack"
    PROVE  ProcessorInvariant' /\ RejectionKept
<1> DEFINE recent == Later(emitted, gap)
           still  == Later(quiet, gap)
           fresh  == {t \in tried : arc[t] # None /\ recent[arc[t]] = Cooldown}
           after(new) == [t \in DOMAIN q |->
                          IF t \notin tried THEN voted[t]
                          ELSE IF arc[t] = None THEN Unmatched(voted[t], q[t])
                          ELSE Matched(voted[t], q[t],
                                       IF t \in new THEN "Recognized"
                                       ELSE "DuplicateIdentity")]
           event(t) == [track |-> t, identity |-> arc[t],
                        real |-> voted[t].real, spoof |-> voted[t].spoof,
                        evidence |-> voted[t].evidence, quiet |-> still[arc[t]]]
<1>1. PICK new \in SUBSET fresh :
        /\ Winners(new, fresh, arc)
        /\ states' = [t \in DOMAIN q \cup Kept(DOMAIN q) |->
                         IF t \in DOMAIN q THEN after(new)[t]
                         ELSE Aged(states[t], gap)]
        /\ events' = {event(t) : t \in new}
        /\ emitted' = [i \in Identities |->
                          IF \E t \in new : arc[t] = i THEN 0 ELSE recent[i]]
        /\ quiet' = [i \in Identities |->
                          IF \E t \in new : arc[t] = i THEN 0 ELSE still[i]]
        /\ gallery' = gallery
  BY DEF Recognize
<1>2. DOMAIN q \subseteq Tracks /\ \A t \in DOMAIN q : q[t] \in 0..MaxQuality
  BY DEF Faces
<1>3. /\ recent \in [Identities -> 0..Cooldown]
      /\ still \in [Identities -> 0..Cooldown]
      /\ \A i \in Identities : recent[i] <= still[i]
  BY ProcessorAssumption DEF ProcessorInvariant, Later, Capped
<1>4. \A t \in DOMAIN q : Sound(after(new)[t])
  <2> SUFFICES ASSUME NEW t \in DOMAIN q PROVE Sound(after(new)[t])
    OBVIOUS
  <2>1. CASE t \notin tried
    BY <2>1 DEF Current
  <2>2. CASE t \in tried /\ arc[t] = None
    BY <1>2, <2>2, UnmatchedSound
  <2>3. CASE t \in tried /\ arc[t] # None
    BY <1>2, <2>3, MatchedSound DEF Announced
  <2> QED
    BY <2>1, <2>2, <2>3
<1>5. \A t \in new : /\ t \in tried /\ arc[t] \in Identities
                     /\ still[arc[t]] = Cooldown /\ t \in Tracks
  BY <1>2, <1>3, ProcessorAssumption DEF ProcessorInvariant
<1>6. \A t \in new : /\ voted[t] \in State /\ voted[t].real >= BonaFide
                     /\ voted[t].spoof < Attack /\ voted[t].evidence <= Ttl
  BY <1>5 DEF ArcDue, Current, Sound, Passed, Final, Announced
<1> HIDE DEF recent, still, fresh, after
<1>7. /\ DOMAIN states' \subseteq Tracks
      /\ states' = [t \in DOMAIN states' |-> states'[t]]
  BY <1>1, <1>2 DEF Kept, ProcessorInvariant
<1>8. \A t \in DOMAIN states' : Sound(states'[t])
  BY <1>1, <1>4, AgedSound DEF Kept, ProcessorInvariant
<1>9. /\ emitted' \in [Identities -> 0..Cooldown]
      /\ quiet' \in [Identities -> 0..Cooldown]
      /\ \A i \in Identities : emitted'[i] <= quiet'[i]
  BY <1>1, <1>3, ProcessorAssumption
<1>10. events' \subseteq Event
  <2> SUFFICES ASSUME NEW t \in new PROVE event(t) \in Event
    BY <1>1
  <2>1. /\ voted[t].real \in Nat /\ voted[t].spoof \in Nat
        /\ voted[t].evidence \in 0..(Ttl + 1)
    BY <1>6 DEF State
  <2>2. still[arc[t]] \in 0..Cooldown
    BY <1>3, <1>5
  <2> QED
    BY <1>5, <2>1, <2>2 DEF Event
<1>11. OncePerCooldown'
  <2>1. \A t \in new : event(t).quiet >= Cooldown
    BY <1>5, ProcessorAssumption
  <2>2. \A t, u \in new : event(t).identity = event(u).identity => t = u
    BY <1>1 DEF Winners
  <2> HIDE DEF event
  <2> QED
    BY <1>1, <2>1, <2>2 DEF OncePerCooldown
<1>12. LiveEvidence'
  <2>1. \A t \in new : /\ event(t).real >= BonaFide
                       /\ event(t).spoof < Attack /\ event(t).evidence <= Ttl
    BY <1>6
  <2> HIDE DEF event
  <2> QED
    BY <1>1, <2>1 DEF LiveEvidence
<1>13. RejectionKept
  <2> SUFFICES ASSUME NEW t \in DOMAIN states \cap DOMAIN states',
                      states[t].phase = "RejectedAttack",
                      states[t].seen < MaxMissing
               PROVE  states'[t].phase = "RejectedAttack"
    BY DEF RejectionKept
  <2>1. CASE t \in DOMAIN q
    <3>1. voted[t].phase = "RejectedAttack"
      BY <2>1
    <3>2. t \notin tried
      BY <2>1, <3>1 DEF ArcDue
    <3> QED
      BY <1>1, <2>1, <3>1, <3>2 DEF after
  <2>2. CASE t \notin DOMAIN q
    BY <1>1, <2>2, AgedSound DEF ProcessorInvariant
  <2> QED
    BY <2>1, <2>2
<1> QED
  BY <1>1, <1>7, <1>8, <1>9, <1>10, <1>11, <1>12, <1>13
  DEF ProcessorInvariant

\* A frame keeps the invariant and judges no rejected track again.
LEMMA ProcessStep ==
    ASSUME ProcessorInvariant, NEW gap \in 0..MaxGap, NEW q \in Faces,
           Process(gap, q)
    PROVE  ProcessorInvariant' /\ RejectionKept
<1> DEFINE before == [t \in DOMAIN q |-> Retried(Entered(t, gap), q[t])]
           asked  == {t \in DOMAIN q : PadDue(before[t], q[t])}
           voted(pad) == [t \in DOMAIN q |->
                            IF t \in asked THEN Voted(before[t], pad[t])
                            ELSE before[t]]
           tried(pad) == {t \in DOMAIN q : ArcDue(voted(pad)[t], q[t])}
<1>1. gap \in Nat /\ \A t \in DOMAIN q : q[t] \in Nat
  BY ProcessorAssumption DEF Faces
<1>2. PICK pad \in [asked -> PadResult] :
        \E arc \in [tried(pad) -> gallery \cup {None}] :
           Recognize(gap, q, voted(pad), tried(pad), arc)
  BY DEF Process
<1>3. PICK arc \in [tried(pad) -> gallery \cup {None}] :
        Recognize(gap, q, voted(pad), tried(pad), arc)
  BY <1>2
<1>4. ASSUME NEW t \in DOMAIN q
      PROVE  Current(before[t])
  <2>1. t \in DOMAIN states => Sound(states[t])
    BY DEF ProcessorInvariant
  <2>2. Current(Entered(t, gap))
    BY <1>1, <2>1, EnteredCurrent
  <2> QED
    BY <1>1, <2>2, RetriedCurrent
<1>5. ASSUME NEW t \in DOMAIN q
      PROVE  Current(voted(pad)[t])
  <2>1. CASE t \in asked
    <3>1. pad[t] \in PadResult /\ PadDue(before[t], q[t])
      BY <1>2, <2>1
    <3> HIDE DEF before
    <3>2. Current(Voted(before[t], pad[t]))
      BY <1>1, <1>4, <3>1, VotedCurrent
    <3> QED
      BY <2>1, <3>2
  <2>2. CASE t \notin asked
    BY <1>4, <2>2
  <2> QED
    BY <2>1, <2>2
<1>6. ASSUME NEW t \in DOMAIN q \cap DOMAIN states,
             states[t].phase = "RejectedAttack", states[t].seen < MaxMissing
      PROVE  voted(pad)[t].phase = "RejectedAttack"
  <2>1. before[t].phase = "RejectedAttack"
    BY <1>1, <1>6, RejectedStays DEF ProcessorInvariant
  <2>2. t \notin asked
    BY <2>1 DEF PadDue, Usable, Final
  <2> QED
    BY <2>1, <2>2
<1> HIDE DEF voted
<1> QED
  BY <1>1, <1>3, <1>5, <1>6, RecognizeStep

\* Every step keeps the invariant and judges no rejected track again.
LEMMA ProcessorStep ==
    ASSUME ProcessorInvariant, [Next]_vars
    PROVE  ProcessorInvariant' /\ [RejectionKept]_vars
<1>1. CASE Frame
  BY <1>1, ProcessStep DEF Frame
<1>2. ASSUME NEW g \in SUBSET Identities, SetGallery(g)
      PROVE  ProcessorInvariant' /\ RejectionKept
  BY <1>2
  DEF SetGallery, ProcessorInvariant, OncePerCooldown, LiveEvidence, RejectionKept
<1>3. CASE Reset
  BY <1>3
  DEF Reset, ProcessorInvariant, OncePerCooldown, LiveEvidence, RejectionKept
<1>4. CASE UNCHANGED vars
  BY <1>4
  DEF vars, ProcessorInvariant, OncePerCooldown, LiveEvidence
<1> QED
  BY <1>1, <1>2, <1>3, <1>4 DEF Next

LEMMA ProcessorInvariantHolds == Spec => []ProcessorInvariant
<1>1. Init => ProcessorInvariant
  BY ProcessorAssumption
  DEF Init, ProcessorInvariant, OncePerCooldown, LiveEvidence
<1>2. ProcessorInvariant /\ [Next]_vars => ProcessorInvariant'
  BY ProcessorStep
<1> QED
  BY <1>1, <1>2, PTL DEF Spec

\* The state of every track and the table of announced identities stay well
\* formed: a track that disappears is dropped before its count of missing
\* frames passes the limit.
THEOREM ProcessorTypeCorrect == Spec => []TypeOK
<1>1. ProcessorInvariant => TypeOK
  BY DEF ProcessorInvariant, TypeOK, Sound
<1> QED
  BY <1>1, ProcessorInvariantHolds, PTL

\* However tracks are lost, split, reset or matched against new galleries, two
\* events of one identity are a cooldown apart.
THEOREM NoEarlyRepeat == Spec => []OncePerCooldown
<1>1. ProcessorInvariant => OncePerCooldown
  BY DEF ProcessorInvariant
<1> QED
  BY <1>1, ProcessorInvariantHolds, PTL

\* No event is raised without enough recent bona fide votes of its track.
THEOREM EventsRestOnVotes == Spec => []LiveEvidence
<1>1. ProcessorInvariant => LiveEvidence
  BY DEF ProcessorInvariant
<1> QED
  BY <1>1, ProcessorInvariantHolds, PTL

\* No track gets more votes or recognitions than its budget.
THEOREM BudgetsHold == Spec => []BudgetsKept
<1>1. ProcessorInvariant => BudgetsKept
  BY DEF ProcessorInvariant, BudgetsKept, Sound
<1> QED
  BY <1>1, ProcessorInvariantHolds, PTL

\* A rejected track is judged again only after it was missing for too long or
\* the session was reset.
THEOREM RejectionHolds == Spec => RejectionSticks
<1>1. ProcessorInvariant /\ [Next]_vars => [RejectionKept]_vars
  BY ProcessorStep
<1> QED
  BY <1>1, ProcessorInvariantHolds, PTL DEF Spec, RejectionSticks
=============================================================================
