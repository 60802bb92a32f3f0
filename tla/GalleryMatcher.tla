--------------------------- MODULE GalleryMatcher ---------------------------
(***************************************************************************)
(* The gallery matcher (vision_runtime/pipeline/gallery_matcher.cpp): the  *)
(* templates of a gallery replaced as a whole, and the best identity for a *)
(* query with its margin over every other identity.                        *)
(*                                                                         *)
(* An embedding is abstracted to its similarity with the query, an integer *)
(* between -One and One; Unusable stands for one that is not finite or has *)
(* no direction.                                                           *)
(***************************************************************************)
EXTENDS Integers, Sequences, FiniteSetsExt

CONSTANTS
    Identities,      \* the identities a gallery names, integers; 0 is empty
    One,             \* the similarity 1.0
    Offered,         \* the galleries that are loaded, sequences of templates
    Unusable

IdentityAssumption == Identities \subseteq Nat /\ One \in Nat \ {0}

VARIABLES
    identities_,   \* sorted, without duplicates
    owners_,       \* for every row the place of its identity
    matrix_,       \* for every row its embedding
    best_,         \* the working array of match
    out,           \* the last answer
    given          \* history: the gallery last installed

vars == <<identities_, owners_, matrix_, best_, out, given>>

Similarities == -One..One
Template == [identity_id : Identities, embedding : Similarities \union {Unusable}]

OfferedAssumption == Offered \subseteq Seq(Template)

NoMatch == [valid |-> FALSE, identity_id |-> 0, best |-> -One,
            second |-> -One, margin |-> 0]

Init ==
    /\ identities_ = <<>> /\ owners_ = <<>> /\ matrix_ = <<>> /\ best_ = <<>>
    /\ out = NoMatch /\ given = <<>>

\* An empty identity or an embedding that cannot be normalised throws.
Acceptable(templates) ==
    \A n \in DOMAIN templates : /\ templates[n].identity_id # 0
                                /\ templates[n].embedding # Unusable

\* Mutant: the identities are kept as they come.
Grouped_AsGiven(templates) ==
    [n \in DOMAIN templates |-> templates[n].identity_id]
\* sort, then unique: in each place the identity that so many are below.
Grouped(templates) ==
    LET ids == {templates[n].identity_id : n \in DOMAIN templates}
    IN  [k \in 1..Cardinality(ids) |->
           CHOOSE id \in ids : Cardinality({x \in ids : x < id}) = k - 1]

\* lower_bound: the first place that is not below the identity.
LowerBound(s, id) == Min({k \in 1..Len(s) + 1 : k > Len(s) \/ s[k] >= id})

\* The gallery is built apart and moved in at the end.
Replace(templates) ==
    /\ Acceptable(templates)
    /\ identities_' = Grouped(templates)
    /\ owners_' = [n \in DOMAIN templates |->
                     LowerBound(identities_', templates[n].identity_id)]
    /\ matrix_' = [n \in DOMAIN templates |-> templates[n].embedding]
    /\ best_' = [k \in DOMAIN identities_' |-> 0]
    /\ given' = templates /\ UNCHANGED out

ReplaceThrows(templates) == ~ Acceptable(templates) /\ UNCHANGED vars

Cleared == [k \in DOMAIN best_ |-> -One]

\* best_ after the rows: for every identity its best similarity.  The query
\* of the model is a permutation q of the similarities, so that two queries
\* see different values.
RowsDone(q) ==
    [k \in DOMAIN best_ |->
        Max({Cleared[k]} \union {q[matrix_[n]] : n \in {m \in DOMAIN matrix_ : owners_[m] = k}})]

\* Mutant: the second best stays what it was when a better one comes.
Better_Forgets(o, k, value) ==
    [valid |-> TRUE, identity_id |-> identities_[k], best |-> value,
     second |-> o.second, margin |-> 0]
\* The scan: a new best makes the old one the second.
Better(o, k, value) ==
    [valid |-> TRUE, identity_id |-> identities_[k], best |-> value,
     second |-> o.best, margin |-> 0]
Seen(o, k, value) ==
    IF ~ o.valid \/ value > o.best THEN Better(o, k, value)
    ELSE [o EXCEPT !.second = Max({o.second, value})]
Scanned(best) ==
    LET scan[k \in 0..Len(best)] ==
          IF k = 0 THEN NoMatch ELSE Seen(scan[k - 1], k, best[k])
    IN  scan[Len(best)]

\* The margin of a gallery of one identity is the largest there is.
WithMargin(o) ==
    [o EXCEPT !.margin = IF Len(identities_) = 1 THEN 2 * One
                         ELSE o.best - o.second]

Queries == {[s \in Similarities |-> s], [s \in Similarities |-> -s]}

Match(q) ==
    /\ matrix_ # <<>>
    /\ best_' = RowsDone(q) /\ out' = WithMargin(Scanned(best_'))
    /\ UNCHANGED <<identities_, owners_, matrix_, given>>

\* No gallery, or observations that cancel each other out.
MatchNothing ==
    /\ out' = NoMatch
    /\ UNCHANGED <<identities_, owners_, matrix_, best_, given>>

Next == \/ \E t \in Offered : Replace(t) \/ ReplaceThrows(t)
        \/ \E q \in Queries : Match(q)
        \/ MatchNothing

Spec == Init /\ [][Next]_vars

-----------------------------------------------------------------------------
Of(g, id) == {n \in DOMAIN g : g[n].identity_id = id}
Named(g) == {g[n].identity_id : n \in DOMAIN g}
BestOf(q, ns) == Max({-One} \union {q[given[n].embedding] : n \in ns})

\* What makes the properties inductive: the identities are those of the
\* gallery, sorted, and the working array has a place for each of them.
GalleryAsGiven ==
    /\ given \in Seq(Template) /\ Acceptable(given)
    /\ identities_ = Grouped(given) /\ DOMAIN best_ = DOMAIN identities_
    /\ DOMAIN owners_ = DOMAIN given

\* The rows, their owners and the identities are those of the gallery that
\* was installed last, whole, even after a replacement that threw.
InstalledAsAWhole ==
    /\ matrix_ = [n \in DOMAIN given |-> given[n].embedding]
    /\ \A n \in DOMAIN given :
         /\ owners_[n] \in DOMAIN identities_
         /\ identities_[owners_[n]] = given[n].identity_id
    /\ Len(best_) = Len(identities_) /\ IsInjective(identities_)

\* An answer names an identity no other one beats, and its margin is the
\* distance to the best of the other identities, never to another template
\* of the same one: whatever the order of the templates and the queries
\* before.
AnswerIsBest ==
    \A q \in Queries : Match(q) =>
      LET mine == out'.identity_id IN
      /\ out'.valid /\ mine \in Named(given)
      /\ out'.best = BestOf(q, Of(given, mine))
      /\ out'.best = BestOf(q, DOMAIN given)
      /\ out'.margin = IF Named(given) = {mine} THEN 2 * One
                       ELSE out'.best - BestOf(q, DOMAIN given \ Of(given, mine))
MatchIsBest == [][AnswerIsBest]_vars
=============================================================================
