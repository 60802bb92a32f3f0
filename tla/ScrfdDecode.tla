----------------------------- MODULE ScrfdDecode -----------------------------
(***************************************************************************)
(* vision_runtime/scrfd: what the detector makes of the nine outputs of    *)
(* the model.  organize_outputs files them by stride and kind; decode      *)
(* turns the anchors that score high enough into boxes, suppresses         *)
(* overlapping ones (nms), and maps the rest back to the camera picture.   *)
(*                                                                         *)
(* Numbers are integers or Nan, since nothing before this code looks at    *)
(* whether the model's outputs are finite.  One landmark stands for five.  *)
(* A level's tensors are given by the rows that are worth looking at.      *)
(***************************************************************************)
EXTENDS Integers, Sequences, FiniteSets

CONSTANTS
    InputSize,        \* input_width = input_height, 640 in the code
    FrameW, FrameH,   \* the size of the camera frame
    Pad,              \* pad_x = pad_y of the letterbox, whose scale is 1
    ScoreThreshold,   \* score_threshold
    NmsPercent,       \* nms_threshold, in percent
    BlobKinds,        \* shapes <<rows, last dimension>> an output may have
    Rows,             \* rows of the tensors, a finite set of records
    MaxRows,          \* bound: rows that score high enough
    Nan               \* a number that is not finite

\* A number the model may compute, and a row of a level's tensors.
Number == Int \union {Nan}
Strides == {8, 16, 32}
TensorRow == [stride : Strides, anchor : Nat, left : Number, top : Number,
              right : Number, bottom : Number, score : Number,
              kx : Number, ky : Number]

ScrfdAssumption ==
    /\ InputSize \in Nat /\ InputSize >= 32
    /\ FrameW \in Nat /\ FrameH \in Nat /\ Pad \in Nat
    /\ NmsPercent \in 0..100 /\ ScoreThreshold \in Int
    /\ MaxRows \in Nat /\ Nan \notin Int
    /\ Rows \subseteq TensorRow /\ IsFiniteSet(Rows)
    /\ BlobKinds \in Seq(Nat \X Nat) /\ Len(BlobKinds) >= 9

VARIABLES
    pc,          \* "organize", "sort", "nms", "map", "done" or "error"
    blobs,       \* the outputs of the model
    input,       \* the rows of the tensors
    candidates,  \* the candidates left, as a sequence in sorting order
    kept,        \* the candidates nms keeps
    result       \* the detections

vars == <<pc, blobs, input, candidates, kept, result>>

-----------------------------------------------------------------------------
\* Comparisons and arithmetic of floats: with Nan nothing is smaller, and
\* every sum is Nan.
Less(a, b) == a # Nan /\ b # Nan /\ a < b
Plus(a, b) == IF a = Nan \/ b = Nan THEN Nan ELSE a + b
Minus(a, b) == IF a = Nan \/ b = Nan THEN Nan ELSE a - b
Times(a, b) == IF a = Nan \/ b = Nan THEN Nan ELSE a * b

\* std::max and std::min, with their answers when one argument is Nan.
CppMax(a, b) == IF Less(a, b) THEN b ELSE a
CppMin(a, b) == IF Less(b, a) THEN b ELSE a

\* Mutant: the other way about, min(max(...)) with the arguments swapped.
Clampf_Swapped(x, low, high) == CppMin(CppMax(x, low), high)
Clampf(x, low, high) == CppMax(low, CppMin(x, high))

-----------------------------------------------------------------------------
\* stride_for_anchor_count: two anchors for each cell of the grid.
StrideFor(rows) ==
    LET fits == {s \in Strides : rows = (InputSize \div s) * (InputSize \div s) * 2}
    IN  IF fits = {} THEN 0 ELSE CHOOSE s \in fits : \A t \in fits : s <= t

Kinds == {1, 4, 10}     \* scores, bbox, kps

\* What an output is filed under; an output that fits nowhere throws.
Filed(b) == <<StrideFor(b[1]), b[2]>>
Known(b) == StrideFor(b[1]) # 0 /\ b[2] \in Kinds

\* Mutant: it is enough that every level has its scores.
Complete_ScoresOnly(bs) ==
    \A s \in Strides : \E k \in DOMAIN bs : Filed(bs[k]) = <<s, 1>>
\* has_scores, has_bbox and has_kps of every level.
Complete(bs) ==
    \A s \in Strides, d \in Kinds : \E k \in DOMAIN bs : Filed(bs[k]) = <<s, d>>

\* organize_outputs.  A level keeps the last output of a kind.
Organize ==
    /\ pc = "organize"
    /\ pc' = IF (\A k \in DOMAIN blobs : Known(blobs[k])) /\ Complete(blobs)
             THEN "sort" ELSE "error"
    /\ UNCHANGED <<blobs, input, candidates, kept, result>>

-----------------------------------------------------------------------------
\* The centre of anchor i of a level: each cell has two, row by row.
Cell(i) == i \div 2
AnchorX(i, stride) == (Cell(i) % (InputSize \div stride)) * stride
AnchorY(i, stride) == (Cell(i) \div (InputSize \div stride)) * stride

\* A row of the tensors as a candidate: distances to the four sides and the
\* landmark, in strides.
Candidate(r) ==
    LET x == AnchorX(r.anchor, r.stride)
        y == AnchorY(r.anchor, r.stride)
        far(d) == Times(d, r.stride)
    IN  [x1 |-> Minus(x, far(r.left)),  y1 |-> Minus(y, far(r.top)),
         x2 |-> Plus(x, far(r.right)),  y2 |-> Plus(y, far(r.bottom)),
         score |-> r.score, lx |-> Plus(x, far(r.kx)), ly |-> Plus(y, far(r.ky))]

\* A score that is not finite is not below the threshold.
Selected(r) == ~ Less(r.score, ScoreThreshold)

\* What the anchors that score high enough become.
Seen == {Candidate(r) : r \in {s \in input : Selected(s)}}
ScoresFinite == \A c \in Seen : c.score # Nan

\* std::sort by descending score.  The order of equal scores is not
\* specified; a score that is not finite breaks the ordering and any order
\* may result.
Sorted(s) ==
    \/ \E k \in DOMAIN s : s[k].score = Nan
    \/ \A j, k \in DOMAIN s : j < k => ~ Less(s[j].score, s[k].score)

Sort ==
    /\ pc = "sort"
    /\ LET rows == {r \in input : Selected(r)}
       IN  \E order \in [1..Cardinality(rows) -> rows] :
             /\ \A j, k \in DOMAIN order : order[j] = order[k] => j = k
             /\ candidates' = [k \in DOMAIN order |-> Candidate(order[k])]
    /\ Sorted(candidates') /\ pc' = "nms"
    /\ UNCHANGED <<blobs, input, kept, result>>

\* iou_inclusive: sides include their last pixel.  The quotient is returned
\* as a pair.
Side(lo, hi) == CppMax(0, Plus(Minus(hi, lo), 1))
Iou(a, b) ==
    LET inter == Times(Side(CppMax(a.x1, b.x1), CppMin(a.x2, b.x2)),
                       Side(CppMax(a.y1, b.y1), CppMin(a.y2, b.y2)))
        area(c) == Times(Side(c.x1, c.x2), Side(c.y1, c.y2))
        denom == Minus(Plus(area(a), area(b)), inter)
    IN  IF denom # Nan /\ denom <= 0 THEN <<0, 1>> ELSE <<inter, denom>>
Overlap(a, b) ==
    LET q == Iou(a, b) IN Less(Times(NmsPercent, q[2]), Times(100, q[1]))

\* Mutant: only the candidate accepted last is looked at.
Suppressed_LastOnly(c) == kept # <<>> /\ Overlap(c, kept[Len(kept)])
Suppressed(c) == \E k \in DOMAIN kept : Overlap(c, kept[k])

\* One turn of the loop of nms.
Nms ==
    /\ pc = "nms" /\ candidates # <<>>
    /\ kept' = IF Suppressed(Head(candidates)) THEN kept
               ELSE Append(kept, Head(candidates))
    /\ candidates' = Tail(candidates)
    /\ UNCHANGED <<pc, blobs, input, result>>

NmsEnds == /\ pc = "nms" /\ candidates = <<>> /\ pc' = "map"
           /\ UNCHANGED <<blobs, input, candidates, kept, result>>

\* Back to the camera picture, and inside it.
ToFrame(c) ==
    LET x(v) == Clampf(Minus(v, Pad), 0, FrameW - 1)
        y(v) == Clampf(Minus(v, Pad), 0, FrameH - 1)
    IN  [x1 |-> x(c.x1), y1 |-> y(c.y1), x2 |-> x(c.x2), y2 |-> y(c.y2),
         score |-> c.score, lx |-> x(c.lx), ly |-> y(c.ly)]

NotCollapsed(d) == Less(d.x1, d.x2) /\ Less(d.y1, d.y2)

\* The second half of decode.
Map ==
    /\ pc = "map" /\ pc' = "done"
    /\ result' = {d \in {ToFrame(kept[k]) : k \in DOMAIN kept} : NotCollapsed(d)}
    /\ UNCHANGED <<blobs, input, candidates, kept>>

-----------------------------------------------------------------------------
\* The model has nine outputs (load_model checks it).
AllKinds == <<BlobKinds[1], BlobKinds[2], BlobKinds[3], BlobKinds[4],
              BlobKinds[5], BlobKinds[6], BlobKinds[7], BlobKinds[8],
              BlobKinds[9]>>

\* The outputs a model may have: the expected ones, one of them replaced.
Outputs == {AllKinds} \union
           {[AllKinds EXCEPT ![k] = BlobKinds[j]] :
              k \in 1..9, j \in DOMAIN BlobKinds}

Init ==
    /\ pc = "organize" /\ candidates = <<>> /\ kept = <<>> /\ result = {}
    /\ blobs \in Outputs
    /\ input \in {S \in SUBSET Rows : Cardinality(S) <= MaxRows}

Ended == pc \in {"done", "error"} /\ UNCHANGED vars

Next == Organize \/ Sort \/ Nms \/ NmsEnds \/ Map \/ Ended

Spec == Init /\ [][Next]_vars

-----------------------------------------------------------------------------
\* The outputs are accepted exactly when they are one of each kind for each
\* stride, in any order: nine outputs, so none is there twice.
OutputsOneOfEach ==
    pc \notin {"organize", "error"} =>
      \A j, k \in DOMAIN blobs :
        Known(blobs[k]) /\ (Filed(blobs[j]) = Filed(blobs[k]) => j = k)

\* Whatever the model computed, numbers that are not finite included, a
\* detection is a proper box inside the picture, and so are its landmarks:
\* the tracker and the aligners divide by its size.
InsideThePicture ==
    \A d \in result :
      /\ d.x1 \in 0..(FrameW - 1) /\ d.x2 \in 0..(FrameW - 1) /\ d.x1 < d.x2
      /\ d.y1 \in 0..(FrameH - 1) /\ d.y2 \in 0..(FrameH - 1) /\ d.y1 < d.y2
      /\ d.lx \in 0..(FrameW - 1) /\ d.ly \in 0..(FrameH - 1)

\* No two boxes nms keeps overlap too much, and one it dropped overlaps one
\* it kept that scores at least as high (when all scores are finite): no
\* face is lost to a box that was itself dropped.
NmsSound ==
    pc \in {"map", "done"} =>
      /\ \A j, k \in DOMAIN kept : j < k => ~ Overlap(kept[k], kept[j])
      /\ ScoresFinite =>
           \A c \in Seen :
             \/ \E k \in DOMAIN kept : kept[k] = c
             \/ \E k \in DOMAIN kept : Overlap(c, kept[k])
                                       /\ kept[k].score >= c.score

-----------------------------------------------------------------------------
(* The invariant behind the properties.                                    *)

\* The lists are of what was seen, and are filled and emptied in turn.
Lists ==
    /\ pc \in {"organize", "sort", "nms", "map", "done", "error"}
    /\ DOMAIN blobs = 1..9
    /\ input \in SUBSET Rows
    /\ candidates \in Seq(Seen) /\ kept \in Seq(Seen)
    /\ pc \in {"organize", "sort", "error"} => kept = <<>>
    /\ pc # "nms" => candidates = <<>>
    /\ pc # "done" => result = {}

\* The outputs are of one of the kinds, and there is one of every kind.
AllFiled ==
    pc \notin {"organize", "error"} =>
      (\A k \in DOMAIN blobs : Known(blobs[k])) /\ Complete(blobs)

\* No two boxes kept so far overlap too much.
Apart == \A j, k \in DOMAIN kept : j < k => ~ Overlap(kept[k], kept[j])

\* The candidates left are in descending order and score no higher than what
\* is kept already.
InOrder ==
    ScoresFinite =>
      /\ \A j, k \in DOMAIN candidates :
           j < k => candidates[j].score >= candidates[k].score
      /\ \A j \in DOMAIN kept, k \in DOMAIN candidates :
           kept[j].score >= candidates[k].score

\* What was seen waits, is kept, or overlaps a better one that is kept.
NoneForgotten ==
    pc \in {"nms", "map", "done"} /\ ScoresFinite =>
      \A c \in Seen :
        \/ \E k \in DOMAIN candidates : candidates[k] = c
        \/ \E k \in DOMAIN kept : kept[k] = c
        \/ \E k \in DOMAIN kept : Overlap(c, kept[k])
                                  /\ kept[k].score >= c.score

ScrfdInvariant == /\ Lists /\ AllFiled /\ InsideThePicture
                  /\ Apart /\ InOrder /\ NoneForgotten
==============================================================================
