------------------------------ MODULE Assignment ------------------------------
(***************************************************************************)
(* vision_runtime/bytetrack/assignment: linear_assignment, the Hungarian   *)
(* algorithm that associates tracks (rows) with detections (columns).      *)
(* Every row also has a dummy column, a little dearer than max_cost, so    *)
(* that it may stay unmatched.                                             *)
(*                                                                         *)
(* Costs are counted in units so small that max_cost + 1e-6 is the next    *)
(* one: a cost is an even number, the dummy cost odd.                      *)
(***************************************************************************)
EXTENDS Integers, FiniteSets

CONSTANTS
    Rows, Cols,    \* the shape of the matrix
    MaxCost,       \* max_cost
    Costs,         \* the costs that may occur
    Infinity       \* the infinity of the numbers, larger than every cost

Nan == -1          \* a cost that is not finite

AssignmentAssumption ==
    /\ Rows \in Nat /\ Cols \in Nat /\ MaxCost \in Nat
    /\ Costs \subseteq Nat \union {Nan} /\ Infinity \notin Int

R == 1..Rows
C == 1..Cols
AugCols == Cols + Rows

dummy_cost == 2 * MaxCost + 1
invalid_cost == dummy_cost + 1000

VARIABLES
    costs,              \* the input
    u, v, p, way,       \* as in the code; column 0 is the root
    minv, used,         \* as in the code, of the row being inserted
    i, j0,              \* the row being inserted, the current column
    pc                  \* "outer", "grow", "augment" or "done"

vars == <<costs, u, v, p, way, minv, used, i, j0, pc>>

TypeOK ==
    /\ costs \in [R -> [C -> Costs]]
    /\ u \in [0..Rows -> Int] /\ v \in [0..AugCols -> Int]
    /\ p \in [0..AugCols -> 0..Rows] /\ way \in [0..AugCols -> 0..AugCols]
    /\ minv \in [0..AugCols -> Int \union {Infinity}] /\ used \in [0..AugCols -> BOOLEAN]
    /\ i \in 1..(Rows + 1) /\ j0 \in 0..AugCols
    /\ pc \in {"outer", "grow", "augment", "done"}

\* The lambda a: the costs of real and dummy columns.
Valid(r, c) == costs[r][c] # Nan /\ costs[r][c] <= MaxCost
\* Mutant: a pair above max_cost costs as much as a dummy.
a_CheapInvalid(r, c) ==
    IF c > Cols THEN dummy_cost
    ELSE IF Valid(r, c) THEN 2 * costs[r][c] ELSE dummy_cost - 1
a(r, c) == IF c > Cols THEN dummy_cost
           ELSE IF Valid(r, c) THEN 2 * costs[r][c] ELSE invalid_cost

Init ==
    /\ costs \in [R -> [C -> Costs]]
    /\ u = [r \in 0..Rows |-> 0] /\ v = [c \in 0..AugCols |-> 0]
    /\ p = [c \in 0..AugCols |-> 0] /\ way = [c \in 0..AugCols |-> 0]
    /\ minv = [c \in 0..AugCols |-> Infinity]
    /\ used = [c \in 0..AugCols |-> FALSE]
    /\ i = 1 /\ j0 = 0
    /\ pc = IF Rows = 0 \/ Cols = 0 THEN "done" ELSE "outer"

\* Mutant: one row too many.
Outer_OneMore ==
    /\ pc = "outer" /\ i <= Rows + 1
    /\ p' = [p EXCEPT ![0] = i] /\ j0' = 0
    /\ minv' = [c \in 0..AugCols |-> Infinity]
    /\ used' = [c \in 0..AugCols |-> FALSE]
    /\ pc' = "grow" /\ UNCHANGED <<costs, u, v, way, i>>
\* The next row is inserted, starting from column 0.
Outer ==
    /\ pc = "outer" /\ i <= Rows
    /\ p' = [p EXCEPT ![0] = i] /\ j0' = 0
    /\ minv' = [c \in 0..AugCols |-> Infinity]
    /\ used' = [c \in 0..AugCols |-> FALSE]
    /\ pc' = "grow" /\ UNCHANGED <<costs, u, v, way, i>>

Finish == /\ pc = "outer" /\ i > Rows /\ pc' = "done"
          /\ UNCHANGED <<costs, u, v, p, way, minv, used, i, j0>>

\* The unused column with the smallest slack, the first of them.
Nearest(slack, S) ==
    CHOOSE c \in S : \A d \in S : slack[c] < slack[d] \/ (slack[c] = slack[d] /\ c <= d)

\* Comparison and subtraction of the code, where infinity stays what it is.
Below(x, m) == m = Infinity \/ x < m
Lowered(m, delta) == IF m = Infinity THEN Infinity ELSE m - delta

\* Mutant: the potentials of the columns are not adjusted.
Potentials_RowsOnly(seen, delta) ==
    /\ u' = [r \in 0..Rows |->
               IF \E c \in 0..AugCols : seen[c] /\ p[c] = r
               THEN u[r] + delta ELSE u[r]]
    /\ v' = v
\* Rows and columns of the tree are adjusted by delta.
Potentials(seen, delta) ==
    /\ u' = [r \in 0..Rows |->
               IF \E c \in 0..AugCols : seen[c] /\ p[c] = r
               THEN u[r] + delta ELSE u[r]]
    /\ v' = [c \in 0..AugCols |-> IF seen[c] THEN v[c] - delta ELSE v[c]]

\* Mutant: the column is not marked.
Seen_Forgotten == used
\* The current column joins the tree.
Seen == [used EXCEPT ![j0] = TRUE]

\* One turn of the first inner loop: the tree grows by the nearest column.
Grow ==
    LET seen  == Seen
        free  == {c \in 1..AugCols : ~ seen[c]}
        i0    == p[j0]
        cur   == [c \in free |-> a(i0, c) - u[i0] - v[c]]
        slack == [c \in free |-> IF Below(cur[c], minv[c]) THEN cur[c] ELSE minv[c]]
        j1    == Nearest(slack, free)
        delta == slack[j1]
    IN  /\ pc = "grow" /\ used' = seen
        /\ way' = [c \in 0..AugCols |->
                     IF c \in free /\ Below(cur[c], minv[c]) THEN j0 ELSE way[c]]
        /\ minv' = [c \in 0..AugCols |->
                      IF c \in free THEN slack[c] - delta
                      ELSE IF seen[c] THEN minv[c] ELSE Lowered(minv[c], delta)]
        /\ Potentials(seen, delta)
        /\ j0' = j1
        /\ pc' = IF p[j1] # 0 THEN "grow" ELSE "augment"
        /\ UNCHANGED <<costs, p, i>>

\* One turn of the second inner loop: the matching is moved along the path.
Augment ==
    /\ pc = "augment"
    /\ p' = [p EXCEPT ![j0] = p[way[j0]]]
    /\ j0' = way[j0]
    /\ IF j0' # 0 THEN pc' = pc /\ i' = i ELSE pc' = "outer" /\ i' = i + 1
    /\ UNCHANGED <<costs, u, v, way, minv, used>>

Done == pc = "done" /\ UNCHANGED vars

Next == Outer \/ Finish \/ Grow \/ Augment \/ Done

Spec == Init /\ [][Next]_vars
FairSpec == Spec /\ WF_vars(Next)

\* What is returned: the matches of real columns within max_cost, and the
\* rows and columns left over.
matches == {<<p[c], c>> : c \in {d \in C : p[d] # 0 /\ Valid(p[d], d)}}
unmatched_rows == {r \in R : \A m \in matches : m[1] # r}
unmatched_cols == {c \in C : \A m \in matches : m[2] # c}

-----------------------------------------------------------------------------
\* The reference: matchings of valid pairs, and what one costs when each
\* row left over costs a little more than max_cost.
Matchings == {f \in [R -> 0..Cols] :
                /\ \A r \in R : f[r] # 0 => Valid(r, f[r])
                /\ \A r, s \in R : f[r] = f[s] /\ f[r] # 0 => r = s}
RowCost(f, r) == IF f[r] = 0 THEN dummy_cost ELSE 2 * costs[r][f[r]]
Total(f) == LET sum[r \in 0..Rows] == IF r = 0 THEN 0
                                      ELSE sum[r - 1] + RowCost(f, r)
            IN  sum[Rows]
Pairs(f) == {<<r, f[r]>> : r \in {s \in R : f[s] # 0}}

\* linear_assignment returns a matching of pairs within max_cost, and no
\* other such matching is cheaper: a track gets the detection that suits all
\* tracks best.  A cost that is not finite never makes a pair.
Optimal ==
    pc = "done" =>
      \E f \in Matchings : /\ matches = Pairs(f)
                           /\ \A g \in Matchings : Total(f) <= Total(g)

\* Between two insertions the potentials are a certificate: no reduced cost
\* is negative, and the pairs of the current matching have reduced cost 0.
\* This is why one insertion never has to be undone by a later one.
DualFeasible ==
    pc = "outer" =>
      \A r \in 1..(i - 1), c \in 1..AugCols :
        /\ u[r] + v[c] <= a(r, c)
        /\ p[c] = r => u[r] + v[c] = a(r, c)

\* Both loops end.
Terminates == <>(pc = "done")
==============================================================================
