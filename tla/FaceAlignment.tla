---------------------------- MODULE FaceAlignment ----------------------------
(***************************************************************************)
(* The alignment of a face: quality() of the attendance processor, and     *)
(* estimate_arcface_transform and estimate_liveness_transform, which fit   *)
(* the similarity transform that takes the five landmarks of a face to the *)
(* template of a model, by solving the normal equations with solve4.       *)
(*                                                                         *)
(* An estimate that throws is caught by quality() and by nobody else, so   *)
(* what quality() lets through must be alignable by both models.           *)
(*                                                                         *)
(* Numbers are exact: rationals <<n, d>> with d > 0, reduced.  The         *)
(* tolerances of the code (1e-10, 1e-12, 1e-18) stand for zero.            *)
(***************************************************************************)
EXTENDS Integers

CONSTANTS
    Points,           \* the places a landmark may be at, pairs of integers
                      \* in a unit as small as one likes
    ArcFaceDst,       \* kArcFaceDst112: five pairs
    LivenessDst,      \* kLivenessDst80
    MaxSquaredRmse    \* the square of max_alignment_rmse

VARIABLES
    landmarks,   \* the landmarks of the face
    stage,       \* who estimates: "quality", "liveness" or "arcface"
    pc,          \* "enter", "solve", "finish", "reject", "aligned", "dead"
    col, A, b,   \* solve4: the column, the matrix and the right-hand side
    fit          \* the transforms found: stage -> parameters, or none

vars == <<landmarks, stage, pc, col, A, b, fit>>

-----------------------------------------------------------------------------
Abs(n) == IF n < 0 THEN -n ELSE n
gcd[p \in Nat \X Nat] == IF p[2] = 0 THEN p[1] ELSE gcd[<<p[2], p[1] % p[2]>>]
Rat(n, d) == LET g == gcd[<<Abs(n), Abs(d)>>]
                 s == IF d < 0 THEN -1 ELSE 1
             IN  <<s * (n \div g), s * (d \div g)>>
Int2Rat(n) == <<n, 1>>
Zero == <<0, 1>>
Add(x, y) == Rat(x[1] * y[2] + y[1] * x[2], x[2] * y[2])
Sub(x, y) == Rat(x[1] * y[2] - y[1] * x[2], x[2] * y[2])
Mul(x, y) == Rat(x[1] * y[1], x[2] * y[2])
Div(x, y) == Rat(x[1] * y[2], x[2] * y[1])
Neg(x) == <<-x[1], x[2]>>
Larger(x, y) == Abs(x[1]) * y[2] > Abs(y[1]) * x[2]   \* in absolute value

Sum(f) == f[1] + f[2] + f[3] + f[4] + f[5]

\* The sum of the products of the coordinates about their means, times 5.
Centred(f, g) == 5 * Sum([k \in 1..5 |-> f[k] * g[k]]) - Sum(f) * Sum(g)

\* The templates have nearly one shape: the part of ArcFaceDst that a turned
\* and scaled LivenessDst explains is longer than the largest error quality()
\* accepts.  With the templates and the 8 pixels of the code it is: a squared
\* length of 2702 against 5 * 64.
TemplatesAlike ==
    LET s == [k \in 1..5 |-> ArcFaceDst[k][1]]  t == [k \in 1..5 |-> ArcFaceDst[k][2]]
        g == [k \in 1..5 |-> LivenessDst[k][1]] h == [k \in 1..5 |-> LivenessDst[k][2]]
        size == Centred(g, g) + Centred(h, h)
        cos  == Centred(s, g) + Centred(t, h)
        sin  == Centred(s, h) - Centred(t, g)
    IN  size > 0 /\ cos * cos + sin * sin > 25 * MaxSquaredRmse * size

AlignmentAssumption ==
    /\ Points \subseteq Int \X Int /\ MaxSquaredRmse \in Nat
    /\ ArcFaceDst \in [1..5 -> Int \X Int] /\ LivenessDst \in [1..5 -> Int \X Int]
    /\ TemplatesAlike

\* The template of a stage; quality() uses that of the recogniser.
Template(s) == IF s = "liveness" THEN LivenessDst ELSE ArcFaceDst

\* The rows accumulate_row adds for a landmark: <<x, -y, 1, 0>> with target
\* u and <<y, x, 0, 1>> with target v.
RowU(p) == <<p[1], -p[2], 1, 0>>
RowV(p) == <<p[2], p[1], 0, 1>>
Ata(lm) == [i \in 1..4 |-> [j \in 1..4 |->
              Int2Rat(Sum([k \in 1..5 |-> RowU(lm[k])[i] * RowU(lm[k])[j]
                                          + RowV(lm[k])[i] * RowV(lm[k])[j]]))]]
Atb(lm, dst) == [i \in 1..4 |->
              Int2Rat(Sum([k \in 1..5 |-> RowU(lm[k])[i] * dst[k][1]
                                          + RowV(lm[k])[i] * dst[k][2]]))]

-----------------------------------------------------------------------------
\* The first row, from the diagonal down, with the largest element.
Pivot(M, c) ==
    CHOOSE r \in c..4 : \A q \in c..4 :
      ~ Larger(M[q][c], M[r][c]) /\ (q < r => Larger(M[r][c], M[q][c]))

Swapped(f, r, c) == [q \in 1..4 |-> f[IF q = r THEN c ELSE IF q = c THEN r ELSE q]]

\* One column of the elimination, on the matrix M and the right-hand side h.
ScaledRow(M, c) == [j \in 1..4 |-> IF j < c THEN M[c][j] ELSE Div(M[c][j], M[c][c])]
Eliminated(M, c) ==
    LET row == ScaledRow(M, c)
    IN  [r \in 1..4 |-> IF r = c THEN row
           ELSE [j \in 1..4 |-> IF j < c THEN M[r][j]
                                ELSE Sub(M[r][j], Mul(M[r][c], row[j]))]]
\* Mutant: only the rows below are eliminated, as if to substitute back.
EliminatedSide_Below(M, h, c) ==
    LET hc == Div(h[c], M[c][c])
    IN  [r \in 1..4 |-> IF r = c THEN hc
           ELSE IF r < c THEN h[r] ELSE Sub(h[r], Mul(M[r][c], hc))]
EliminatedSide(M, h, c) ==
    LET hc == Div(h[c], M[c][c])
    IN  [r \in 1..4 |-> IF r = c THEN hc ELSE Sub(h[r], Mul(M[r][c], hc))]

\* An estimate that throws: quality() answers 0, the models do not catch.
Throws == pc' = IF stage = "quality" THEN "reject" ELSE "dead"

\* One turn of the loop of solve4.
Solve ==
    /\ pc = "solve"
    /\ LET r  == Pivot(A, col)
           M  == Swapped(A, r, col)
           h  == Swapped(b, r, col)
       IN  \/ /\ A[r][col][1] = 0
              /\ Throws /\ UNCHANGED <<A, b, col>>
           \/ /\ A[r][col][1] # 0
              /\ A' = Eliminated(M, col) /\ b' = EliminatedSide(M, h, col)
              /\ col' = col + 1
              /\ pc' = IF col = 4 THEN "finish" ELSE "solve"
    /\ UNCHANGED <<landmarks, stage, fit>>

\* dst_to_src: the inverse of u = a x - b y + tx, v = b x + a y + ty.
\* Mutant: the inverse is not translated.
DstToSrc_NotTranslated(p) ==
    LET denom == Add(Mul(p[1], p[1]), Mul(p[2], p[2]))
    IN  <<Div(p[1], denom), Div(p[2], denom), Neg(p[3]),
          Neg(Div(p[2], denom)), Div(p[1], denom), Neg(p[4])>>
DstToSrc(p) ==
    LET denom == Add(Mul(p[1], p[1]), Mul(p[2], p[2]))
        i00 == Div(p[1], denom)
        i01 == Div(p[2], denom)
    IN  <<i00, i01, Neg(Add(Mul(i00, p[3]), Mul(i01, p[4]))),
          Neg(i01), i00, Neg(Add(Mul(Neg(i01), p[3]), Mul(i00, p[4])))>>

\* rmse * rmse * 5
Square(x) == Mul(x, x)
U(p, q) == Add(Sub(Mul(p[1], Int2Rat(q[1])), Mul(p[2], Int2Rat(q[2]))), p[3])
V(p, q) == Add(Add(Mul(p[2], Int2Rat(q[1])), Mul(p[1], Int2Rat(q[2]))), p[4])
Residual(p, lm, dst, k) ==
    Add(Square(Sub(U(p, lm[k]), Int2Rat(dst[k][1]))),
        Square(Sub(V(p, lm[k]), Int2Rat(dst[k][2]))))
SquaredError(p, lm, dst) ==
    Add(Residual(p, lm, dst, 1), Add(Residual(p, lm, dst, 2),
    Add(Residual(p, lm, dst, 3), Add(Residual(p, lm, dst, 4),
        Residual(p, lm, dst, 5)))))

\* Mutant: the error of the fit is not looked at.
GoodFit_Any(p) == TRUE
GoodFit(p) == LET e == SquaredError(p, landmarks, Template(stage))
              IN  e[1] <= 5 * MaxSquaredRmse * e[2]

\* The rest of an estimate, and what its caller does next: quality() looks
\* at the error, then the liveness model and the recogniser align the face.
Finish ==
    /\ pc = "finish"
    /\ \/ /\ b[1][1] = 0 /\ b[2][1] = 0
          /\ Throws /\ UNCHANGED <<stage, fit>>
       \/ /\ b[1][1] # 0 \/ b[2][1] # 0
          /\ fit' = [fit EXCEPT ![stage] = [found |-> TRUE, p |-> b,
                                            inverse |-> DstToSrc(b)]]
          /\ IF stage = "quality" /\ ~ GoodFit(b)
             THEN pc' = "reject" /\ stage' = stage
             ELSE /\ pc' = IF stage = "arcface" THEN "aligned" ELSE "enter"
                  /\ stage' = IF stage = "quality" THEN "liveness" ELSE "arcface"
    /\ UNCHANGED <<landmarks, col, A, b>>

\* quality() first asks for eyes that are apart; then the normal equations
\* are set up.
Enter ==
    /\ pc = "enter"
    /\ pc' = IF stage = "quality" /\ landmarks[1] = landmarks[2]
             THEN "reject" ELSE "solve"
    /\ col' = 1 /\ A' = Ata(landmarks) /\ b' = Atb(landmarks, Template(stage))
    /\ UNCHANGED <<landmarks, stage, fit>>

NoFit == [found |-> FALSE, p |-> [i \in 1..4 |-> Zero], inverse |-> <<>>]

Init ==
    /\ landmarks \in [1..5 -> Points]
    /\ stage = "quality" /\ pc = "enter" /\ col = 1
    /\ A = [i \in 1..4 |-> [j \in 1..4 |-> Zero]] /\ b = [i \in 1..4 |-> Zero]
    /\ fit = [s \in {"quality", "liveness", "arcface"} |-> NoFit]

Ended == pc \in {"reject", "aligned", "dead"} /\ UNCHANGED vars

Next == Enter \/ Solve \/ Finish \/ Ended

Spec == Init /\ [][Next]_vars

-----------------------------------------------------------------------------
\* A face that quality() lets through is aligned by both models: neither
\* estimate throws, which would end the process.  It rests on the error
\* bound and on the two templates being the same shape, for the scale of a
\* fit vanishes when the landmarks and the template are not correlated.
QualityMeansAlignable == pc # "dead"

\* The reference: with sums of the centred coordinates, the least squares
\* solution in closed form, all multiplied by n = 5.
ClosedForm(lm, dst) ==
    LET x == [k \in 1..5 |-> lm[k][1]]  y == [k \in 1..5 |-> lm[k][2]]
        s == [k \in 1..5 |-> dst[k][1]] t == [k \in 1..5 |-> dst[k][2]]
        spread == Centred(x, x) + Centred(y, y)
        ca == Rat(Centred(x, s) + Centred(y, t), spread)
        cb == Rat(Centred(x, t) - Centred(y, s), spread)
        mean(f) == Rat(Sum(f), 5)
    IN  <<ca, cb, Sub(mean(s), Sub(Mul(ca, mean(x)), Mul(cb, mean(y)))),
          Sub(mean(t), Add(Mul(cb, mean(x)), Mul(ca, mean(y))))>>

\* What solve4 finds is the least squares fit.
LeastSquares ==
    \A s \in DOMAIN fit : fit[s].found =>
      LET c == ClosedForm(landmarks, Template(s))
      IN  \A i \in 1..4 : fit[s].p[i] = c[i]

\* dst_to_src takes the image of every landmark back to the landmark: the
\* shader samples the picture where the template says the face is.
InverseTakesBack ==
    \A s \in DOMAIN fit : fit[s].found =>
      LET p == fit[s].p
          q == fit[s].inverse
      IN  \A k \in 1..5 :
            LET u == U(p, landmarks[k])
                v == V(p, landmarks[k])
            IN  /\ Add(Add(Mul(q[1], u), Mul(q[2], v)), q[3]) = Int2Rat(landmarks[k][1])
                /\ Add(Add(Mul(q[4], u), Mul(q[5], v)), q[6]) = Int2Rat(landmarks[k][2])
==============================================================================
