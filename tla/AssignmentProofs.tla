--------------------------- MODULE AssignmentProofs ---------------------------
(***************************************************************************)
(* linear_assignment pairs rows and columns at the least cost, for every   *)
(* matrix: the potentials stay a certificate of it, whatever the tree of   *)
(* one insertion looks like.                                               *)
(***************************************************************************)
EXTENDS Assignment, FiniteSetTheorems, WellFoundedInduction, TLAPS

-----------------------------------------------------------------------------
(* Sums of the numbers h[1], ..., h[n].                                    *)

\* A set with 0 and with every successor holds all natural numbers.
LEMMA Induction ==
  ASSUME NEW S, 0 \in S, \A n \in Nat : n \in S => n + 1 \in S
  PROVE  Nat \subseteq S
<1>1. IsWellFoundedOn(OpToRel(<, Nat), Nat)
  BY NatLessThanWellFounded
<1> SUFFICES ASSUME Nat \ S # {} PROVE FALSE
  OBVIOUS
<1>2. PICK n \in Nat \ S : \A m \in Nat \ S : ~ (<<m, n>> \in OpToRel(<, Nat))
  BY <1>1, WFMin
<1>3. n \in Nat /\ n # 0 /\ n - 1 \in Nat /\ n - 1 < n /\ n = (n - 1) + 1
  <2>1. n \in Nat /\ n # 0
    BY <1>2
  <2> QED
    BY <2>1
<1>4. <<n - 1, n>> \in OpToRel(<, Nat)
  BY <1>3 DEF OpToRel
<1>5. n - 1 \in S
  BY <1>2, <1>3, <1>4
<1> QED
  BY <1>2, <1>3, <1>5

IsSum(s, h, n) ==
  /\ s \in [0..n -> Int] /\ s[0] = 0
  /\ \A j \in 1..n : s[j] = s[j - 1] + h[j]

Numbers(h, n) == \A j \in 1..n : h[j] \in Int

\* Numbers have a sum.
LEMMA SumExists ==
  ASSUME NEW n \in Nat, NEW h, Numbers(h, n)
  PROVE  \E s : IsSum(s, h, n)
<1> DEFINE Good == {m \in Nat : m <= n => \E s : IsSum(s, h, m)}
<1>1. 0 \in Good
  <2>1. IsSum([j \in 0..0 |-> 0], h, 0)
    BY DEF IsSum
  <2> QED
    BY <2>1
<1>2. ASSUME NEW m \in Nat, m \in Good, m + 1 <= n PROVE \E s : IsSum(s, h, m + 1)
  <2>1. PICK s : IsSum(s, h, m)
    BY <1>2
  <2> DEFINE t == [j \in 0..(m + 1) |-> IF j = m + 1 THEN s[m] + h[m + 1] ELSE s[j]]
  <2>2. s \in [0..m -> Int] /\ h[m + 1] \in Int
    BY <1>2, <2>1 DEF IsSum, Numbers
  <2>3. \A j \in 0..(m + 1) : j = m + 1 \/ j \in 0..m
    OBVIOUS
  <2>4. t \in [0..(m + 1) -> Int] /\ t[0] = 0
    BY <2>1, <2>2, <2>3 DEF IsSum
  <2>5. ASSUME NEW j \in 1..(m + 1) PROVE t[j] = t[j - 1] + h[j]
    <3>1. j - 1 \in 0..m /\ j \in 0..(m + 1) /\ j - 1 \in 0..(m + 1) /\ j - 1 # m + 1
      OBVIOUS
    <3>2. t[j - 1] = s[j - 1]
      BY <3>1
    <3>3. CASE j = m + 1
      <4>1. t[j] = s[m] + h[m + 1] /\ j - 1 = m
        BY <3>1, <3>3
      <4> QED
        BY <3>2, <3>3, <4>1
    <3>4. CASE j # m + 1
      <4>1. t[j] = s[j] /\ j \in 1..m
        BY <3>1, <3>4
      <4> QED
        BY <2>1, <3>2, <4>1 DEF IsSum
    <3> QED
      BY <3>3, <3>4
  <2> HIDE DEF t
  <2>6. IsSum(t, h, m + 1)
    BY <2>4, <2>5 DEF IsSum
  <2> QED
    BY <2>6
<1>3. \A m \in Nat : m \in Good => m + 1 \in Good
  BY <1>2
<1>4. n \in Good
  <2> HIDE DEF Good
  <2> QED
    BY <1>1, <1>3, Induction
<1> QED
  BY <1>4

\* A part of a sum is a sum.
LEMMA SumPart ==
  ASSUME NEW n \in Nat, NEW s, NEW h, IsSum(s, h, n), NEW m \in Nat, m <= n
  PROVE  IsSum([j \in 0..m |-> s[j]], h, m)
<1> DEFINE t == [j \in 0..m |-> s[j]]
<1>1. \A j \in 0..m : j \in 0..n /\ s[j] \in Int
  BY DEF IsSum
<1>2. t \in [0..m -> Int] /\ t[0] = 0
  BY <1>1 DEF IsSum
<1>3. ASSUME NEW j \in 1..m PROVE t[j] = t[j - 1] + h[j]
  <2>1. j \in 1..n /\ j \in 0..m /\ j - 1 \in 0..m
    OBVIOUS
  <2> QED
    BY <2>1 DEF IsSum
<1> HIDE DEF t
<1> QED
  BY <1>2, <1>3 DEF IsSum

\* What is smaller term by term has a smaller sum.
LEMMA SumMono ==
  ASSUME NEW n \in Nat, NEW g, NEW h, NEW s, NEW t,
         IsSum(s, g, n), IsSum(t, h, n),
         \A j \in 1..n : g[j] \in Int /\ h[j] \in Int /\ g[j] <= h[j]
  PROVE  s[n] <= t[n]
<1> DEFINE Good == {m \in Nat : m <= n => s[m] <= t[m]}
<1>1. 0 \in Good
  BY DEF IsSum
<1>2. ASSUME NEW m \in Nat, m \in Good, m + 1 <= n PROVE s[m + 1] <= t[m + 1]
  <2>1. m + 1 \in 1..n /\ m \in 0..n /\ (m + 1) - 1 = m
    BY <1>2
  <2>2. s[m] \in Int /\ t[m] \in Int /\ s[m] <= t[m]
    BY <1>2, <2>1 DEF IsSum
  <2>3. s[m + 1] = s[m] + g[m + 1] /\ t[m + 1] = t[m] + h[m + 1]
    BY <2>1 DEF IsSum
  <2> QED
    BY <2>1, <2>2, <2>3
<1>3. \A m \in Nat : m \in Good => m + 1 \in Good
  BY <1>2
<1>4. n \in Good
  <2> HIDE DEF Good
  <2> QED
    BY <1>1, <1>3, Induction
<1> QED
  BY <1>4

\* The sum of the sums.
LEMMA SumPlus ==
  ASSUME NEW n \in Nat, NEW f, NEW g, NEW h, NEW r, NEW s, NEW t,
         IsSum(r, f, n), IsSum(s, g, n), IsSum(t, h, n),
         \A j \in 1..n : f[j] \in Int /\ g[j] \in Int /\ h[j] = f[j] + g[j]
  PROVE  t[n] = r[n] + s[n]
<1> DEFINE Good == {m \in Nat : m <= n => t[m] = r[m] + s[m]}
<1>1. 0 \in Good
  BY DEF IsSum
<1>2. ASSUME NEW m \in Nat, m \in Good, m + 1 <= n PROVE t[m + 1] = r[m + 1] + s[m + 1]
  <2>1. m + 1 \in 1..n /\ m \in 0..n /\ (m + 1) - 1 = m
    BY <1>2
  <2>2. r[m] \in Int /\ s[m] \in Int /\ t[m] = r[m] + s[m]
    BY <1>2, <2>1 DEF IsSum
  <2>3. /\ r[m + 1] = r[m] + f[m + 1] /\ s[m + 1] = s[m] + g[m + 1]
        /\ t[m + 1] = t[m] + h[m + 1]
    BY <2>1 DEF IsSum
  <2> QED
    BY <2>1, <2>2, <2>3
<1>3. \A m \in Nat : m \in Good => m + 1 \in Good
  BY <1>2
<1>4. n \in Good
  <2> HIDE DEF Good
  <2> QED
    BY <1>1, <1>3, Induction
<1> QED
  BY <1>4

Without(g, h, d, n) == \A c \in 1..n : g[c] = IF c = d THEN 0 ELSE h[c]
\* Without one of its terms a sum is smaller by that term.
LEMMA SumWithout ==
  ASSUME NEW n \in Nat, NEW h, Numbers(h, n), NEW d \in 1..n, NEW s, NEW t, NEW g,
         Without(g, h, d, n),
         IsSum(s, h, n), IsSum(t, g, n)
  PROVE  s[n] = t[n] + h[d]
<1> DEFINE Good == {m \in Nat : m <= n => s[m] = IF m < d THEN t[m] ELSE t[m] + h[d]}
<1>1. 0 \in Good
  BY DEF IsSum
<1>2. ASSUME NEW m \in Nat, m \in Good, m + 1 <= n PROVE m + 1 \in Good
  <2>1. m + 1 \in 1..n /\ m \in 0..n /\ (m + 1) - 1 = m
    BY <1>2
  <2>2. /\ s[m] \in Int /\ t[m] \in Int
        /\ s[m] = IF m < d THEN t[m] ELSE t[m] + h[d]
    BY <1>2, <2>1 DEF IsSum
  <2>3. s[m + 1] = s[m] + h[m + 1] /\ t[m + 1] = t[m] + g[m + 1]
    BY <2>1 DEF IsSum
  <2>4. h[m + 1] \in Int /\ h[d] \in Int
    BY <2>1 DEF Numbers
  <2>5. g[m + 1] = IF m + 1 = d THEN 0 ELSE h[m + 1]
    BY <2>1 DEF Without
  <2>6. s[m + 1] = IF m + 1 < d THEN t[m + 1] ELSE t[m + 1] + h[d]
    <3>1. CASE m + 1 < d
      BY <2>2, <2>3, <2>4, <2>5, <3>1
    <3>2. CASE m + 1 = d
      BY <2>2, <2>3, <2>4, <2>5, <3>2
    <3>3. CASE m + 1 > d
      BY <2>2, <2>3, <2>4, <2>5, <3>3
    <3> QED
      BY <3>1, <3>2, <3>3
  <2> QED
    BY <2>6
<1>3. \A m \in Nat : m \in Good => m + 1 \in Good
  <2> SUFFICES ASSUME NEW m \in Nat, m \in Good PROVE m + 1 \in Good
    OBVIOUS
  <2>1. CASE m + 1 <= n
    BY <1>2, <2>1
  <2>2. CASE ~ (m + 1 <= n)
    BY <2>2
  <2> QED
    BY <1>1, <2>1, <2>2
<1>4. n \in Good
  <2> HIDE DEF Good
  <2> QED
    BY <1>1, <1>3, Induction
<1> QED
  BY <1>4

\* The terms h[y[1]], ..., h[y[n]] for different y[j] are some of the terms
\* of h, and all of them when the others are 0.
Distinct(y, n) == \A j, k \in 1..n : y[j] = y[k] => j = k
Reached(h, y, n, m) == \A c \in 1..m : h[c] = 0 \/ \E j \in 1..n : y[j] = c
PartOf(s, t, h, y, n, m) ==
  /\ s[n] <= t[m]
  /\ Reached(h, y, n, m) => s[n] = t[m]
Chosen(h, y, n) == [j \in 1..n |-> h[y[j]]]
Terms(h, m) == \A c \in 1..m : h[c] \in Nat
Places(y, n, m) == \A j \in 1..n : y[j] \in 1..m
PartsBelow(n, m) ==
  \A h, y, s, t :
    /\ Terms(h, m) /\ Places(y, n, m) /\ Distinct(y, n)
    /\ IsSum(s, Chosen(h, y, n), n) /\ IsSum(t, h, m)
    => PartOf(s, t, h, y, n, m)

LEMMA NoPart ==
  ASSUME NEW m \in Nat
  PROVE  PartsBelow(0, m)
<1> SUFFICES ASSUME NEW h, NEW y, NEW s, NEW t, Terms(h, m),
                    IsSum(s, Chosen(h, y, 0), 0), IsSum(t, h, m)
             PROVE  PartOf(s, t, h, y, 0, m)
  BY DEF PartsBelow
<1> DEFINE zero == [j \in 1..m |-> 0]
           none == [j \in 0..m |-> 0]
<1>1. IsSum(none, zero, m)
  <2>1. none \in [0..m -> Int] /\ none[0] = 0
    OBVIOUS
  <2>2. ASSUME NEW j \in 1..m PROVE none[j] = none[j - 1] + zero[j]
    <3>1. j \in 0..m /\ j - 1 \in 0..m
      OBVIOUS
    <3> QED
      BY <3>1
  <2> HIDE DEF none, zero
  <2> QED
    BY <2>1, <2>2 DEF IsSum
<1>2. none[m] = 0 /\ \A j \in 1..m : zero[j] = 0 /\ h[j] \in Nat
  BY DEF Terms
<1> HIDE DEF none, zero
<1>3. \A j \in 1..m : zero[j] \in Int /\ h[j] \in Int /\ zero[j] <= h[j]
  BY <1>2
<1>4. none[m] <= t[m]
  BY <1>1, <1>3, SumMono
<1>5. s[0] = 0 /\ t[m] \in Int
  BY DEF IsSum
<1>6. ASSUME Reached(h, y, 0, m) PROVE s[0] = t[m]
  <2>1. \A j \in 1..m : h[j] = 0
    BY <1>6 DEF Reached
  <2>2. \A j \in 1..m : h[j] \in Int /\ zero[j] \in Int /\ h[j] <= zero[j]
    BY <1>2, <2>1
  <2>3. t[m] <= none[m]
    BY <1>1, <2>2, SumMono
  <2> QED
    BY <1>2, <1>4, <1>5, <2>3
<1> QED
  BY <1>2, <1>4, <1>5, <1>6 DEF PartOf

LEMMA OnePartMore ==
  ASSUME NEW m \in Nat, NEW n \in Nat, PartsBelow(n, m)
  PROVE  PartsBelow(n + 1, m)
<1> SUFFICES ASSUME NEW h, NEW y, NEW s, NEW t,
                    Terms(h, m), Places(y, n + 1, m), Distinct(y, n + 1),
                    IsSum(s, Chosen(h, y, n + 1), n + 1), IsSum(t, h, m)
             PROVE  PartOf(s, t, h, y, n + 1, m)
  BY DEF PartsBelow
<1> DEFINE z == [j \in 1..n |-> y[j]]
           q == [j \in 0..n |-> s[j]]
<1>a. PICK d \in 1..m : d = y[n + 1]
  BY DEF Places
<1>b. PICK g : g = [c \in 1..m |-> IF c = d THEN 0 ELSE h[c]]
  OBVIOUS
<1>1. d = y[n + 1] /\ n + 1 \in 1..(n + 1) /\ n \in 0..n /\ \A j \in 1..n : j \in 1..(n + 1)
  BY <1>a
<1>2. Terms(g, m) /\ Without(g, h, d, m)
  BY <1>b DEF Without, Terms
<1>3. Places(z, n, m) /\ \A j \in 1..n : z[j] = y[j]
  BY <1>1 DEF Places
<1>4. \A j \in 1..n : z[j] # d
  BY <1>1, <1>3 DEF Distinct
<1>5. q[n] = s[n]
  BY <1>1
<1>6. IsSum(q, Chosen(h, y, n + 1), n)
  BY SumPart
<1>7. \A j \in 1..n : Chosen(h, y, n + 1)[j] = Chosen(g, z, n)[j]
  <2> TAKE j \in 1..n
  <2>1. Chosen(h, y, n + 1)[j] = h[y[j]] /\ y[j] \in 1..m
    BY <1>1 DEF Chosen, Places
  <2>2. Chosen(g, z, n)[j] = g[y[j]]
    BY <1>3 DEF Chosen
  <2> HIDE DEF z
  <2> QED
    BY <1>2, <1>3, <1>4, <2>1, <2>2 DEF Without
<1> HIDE DEF q, z
<1>8. IsSum(q, Chosen(g, z, n), n)
  BY <1>6, <1>7 DEF IsSum
<1>9. Distinct(z, n)
  BY <1>1, <1>3 DEF Distinct
<1>10. PICK e : IsSum(e, g, m)
  <2>1. Numbers(g, m)
    BY <1>2 DEF Numbers, Terms
  <2> QED
    BY <2>1, SumExists
<1>11. t[m] = e[m] + h[d]
  <2>1. Numbers(h, m)
    BY DEF Numbers, Terms
  <2> QED
    BY <1>a, <1>2, <1>10, <2>1, SumWithout
<1>12. PartOf(q, e, g, z, n, m)
  <2> QED
    BY <1>2, <1>3, <1>8, <1>9, <1>10 DEF PartsBelow
<1>13. s[n + 1] = s[n] + h[d] /\ s[n] \in Int /\ e[m] \in Int /\ h[d] \in Int
  <2>1. s[n + 1] = s[(n + 1) - 1] + Chosen(h, y, n + 1)[n + 1] /\ s[n] \in Int
    BY <1>1 DEF IsSum
  <2>2. Chosen(h, y, n + 1)[n + 1] = h[d] /\ (n + 1) - 1 = n
    BY <1>1 DEF Chosen
  <2>3. e[m] \in Int
    BY <1>10 DEF IsSum
  <2>4. h[d] \in Int
    BY <1>a DEF Terms
  <2> QED
    BY <2>1, <2>2, <2>3, <2>4
<1>14. Reached(h, y, n + 1, m) => Reached(g, z, n, m)
  <2> SUFFICES ASSUME Reached(h, y, n + 1, m), NEW c \in 1..m, g[c] # 0
               PROVE  \E j \in 1..n : z[j] = c
    BY DEF Reached
  <2>1. c # d /\ h[c] # 0
    BY <1>2 DEF Without
  <2>2. PICK j \in 1..(n + 1) : y[j] = c
    BY <2>1 DEF Reached
  <2>3. j # n + 1
    BY <1>1, <2>1, <2>2
  <2>4. j \in 1..n
    BY <2>3
  <2> QED
    BY <1>3, <2>2, <2>4
<1>15. s[n] <= e[m] /\ (Reached(g, z, n, m) => s[n] = e[m])
  BY <1>5, <1>12 DEF PartOf
<1>16. s[n + 1] <= t[m] /\ (Reached(g, z, n, m) => s[n + 1] = t[m])
  BY <1>11, <1>13, <1>15
<1> QED
  BY <1>14, <1>16 DEF PartOf

LEMMA PartsOfSums ==
  ASSUME NEW m \in Nat, NEW n \in Nat
  PROVE  PartsBelow(n, m)
<1> DEFINE Good == {j \in Nat : PartsBelow(j, m)}
<1>1. 0 \in Good
  BY NoPart
<1>2. \A j \in Nat : j \in Good => j + 1 \in Good
  BY OnePartMore
<1> HIDE DEF Good
<1>3. n \in Good
  BY <1>1, <1>2, Induction
<1> QED
  BY <1>3 DEF Good

-----------------------------------------------------------------------------
(* The inductive invariant.                                                *)

Columns == 1..AugCols
Reduced(r, c) == a(r, c) - u[r] - v[c]
Inserting == pc \in {"grow", "augment"}

\* Where the loops are.
Stages ==
    /\ pc # "done" => Cols > 0
    /\ ~ Inserting => j0 = 0
    /\ Inserting => i <= Rows
    /\ pc = "augment" => j0 # 0
    /\ pc = "done" => i = Rows + 1 \/ Cols = 0

\* The potentials are a certificate all the time.  The prices of the columns
\* are never positive, and a column that no row has is free of charge; rows
\* that were not inserted yet have no potential.
Feasible == \A r \in R, c \in Columns : Reduced(r, c) >= 0
Tight == \A c \in Columns : p[c] # 0 => Reduced(p[c], c) = 0
Prices ==
    /\ \A c \in Columns : v[c] <= 0 /\ (p[c] = 0 /\ c # j0 => v[c] = 0)
    /\ \A r \in R : r > i \/ (r = i /\ ~ Inserting) => u[r] = 0

\* Every row inserted so far has one column, where the root stands for the
\* row being inserted and the end of the path has none of its own.
Held == IF Inserting THEN 0..AugCols \ (IF pc = "augment" THEN {j0} ELSE {})
        ELSE Columns
Inserted == IF Inserting THEN 1..i ELSE 1..(i - 1)
Placed ==
    /\ \A c, d \in Held : p[c] = p[d] /\ p[c] # 0 => c = d
    /\ \A r \in Inserted : \E c \in Held : p[c] = r
    /\ \A c \in Columns : p[c] # 0 => p[c] \in Inserted
    /\ Inserting => p[0] = i

\* The tree: a column was reached from another one of it, over a pair of
\* reduced cost 0; the rank tells the order in which they joined.
InTree(c) == used[c] \/ c = j0
Ranked(rank) ==
    /\ \A c \in Columns :
         InTree(c) /\ (pc = "augment" => rank[c] <= rank[j0]) =>
           /\ used[way[c]] /\ rank[way[c]] < rank[c]
           /\ p[way[c]] # 0 /\ Reduced(p[way[c]], c) = 0
    /\ pc = "grow" => \A c \in 0..AugCols : used[c] => rank[c] < rank[j0]
TreeSoFar == Inserting => \E rank \in [0..AugCols -> Nat] : Ranked(rank)

\* What is known of the columns outside it: the least slack and where from.
LeastSlack(c) ==
    IF j0 = 0 THEN minv[c] = Infinity
    ELSE /\ used[way[c]] /\ minv[c] = Reduced(p[way[c]], c)
         /\ \A d \in 0..AugCols : used[d] => minv[c] <= Reduced(p[d], c)
SlackSoFar ==
    pc = "grow" =>
      /\ ~ used[j0] /\ (j0 # 0 => used[0])
      /\ \A c \in 0..AugCols : InTree(c) => p[c] # 0
      /\ \A c \in Columns : ~ used[c] => LeastSlack(c)
      /\ j0 = 0 => \A c \in 0..AugCols : ~ used[c]

AssignmentInvariant ==
    /\ TypeOK /\ Stages /\ Feasible /\ Tight /\ Prices /\ Placed
    /\ TreeSoFar /\ SlackSoFar

\* What a pair costs is a natural number.
LEMMA CostsTyped ==
  ASSUME AssignmentAssumption, TypeOK, NEW r \in R, NEW c \in Columns
  PROVE  a(r, c) \in Nat
<1>1. dummy_cost \in Nat /\ invalid_cost \in Nat
  BY DEF AssignmentAssumption, dummy_cost, invalid_cost
<1>2. CASE c > Cols
  BY <1>1, <1>2 DEF a
<1>3. CASE ~ (c > Cols)
  <2>1. c \in C
    BY <1>3 DEF AssignmentAssumption, Columns, AugCols, C
  <2>2. costs[r][c] \in Costs
    BY <2>1 DEF TypeOK
  <2>3. Valid(r, c) => costs[r][c] \in Nat
    BY <2>2 DEF AssignmentAssumption, Valid
  <2> QED
    BY <1>1, <1>3, <2>3 DEF a
<1> QED
  BY <1>2, <1>3

LEMMA ReducedTyped ==
  ASSUME AssignmentAssumption, TypeOK, NEW r \in R, NEW c \in Columns
  PROVE  Reduced(r, c) \in Int
<1>1. a(r, c) \in Nat
  BY CostsTyped
<1>2. r \in 0..Rows /\ c \in 0..AugCols
  BY DEF AssignmentAssumption, R, Columns, AugCols
<1>3. u[r] \in Int /\ v[c] \in Int
  BY <1>2 DEF TypeOK
<1> QED
  BY <1>1, <1>3 DEF Reduced

LEMMA SameCosts ==
  ASSUME costs' = costs, NEW r, NEW c
  PROVE  a(r, c)' = a(r, c)
BY DEF a, Valid

\* Shapes.
LEMMA Shapes ==
  ASSUME AssignmentAssumption
  PROVE
  /\ Rows \in Nat /\ Cols \in Nat /\ AugCols \in Nat /\ Rows <= AugCols
  /\ \A c \in Columns : c \in 0..AugCols /\ c # 0
  /\ \A c \in 0..AugCols : c = 0 \/ c \in Columns
  /\ \A r \in R : r \in 0..Rows /\ r # 0
  /\ \A r \in 0..Rows : r = 0 \/ r \in R
BY DEF AssignmentAssumption, Columns, AugCols, R

LEMMA InitInvariant ==
  ASSUME AssignmentAssumption, Init
  PROVE  AssignmentInvariant
<1>1. TypeOK
  BY Shapes DEF Init, TypeOK
<1>2. Stages
  BY Shapes DEF Init, Stages, Inserting
<1>3. Feasible
  <2> SUFFICES ASSUME NEW r \in R, NEW c \in Columns PROVE Reduced(r, c) >= 0
    BY DEF Feasible
  <2>1. a(r, c) \in Nat
    BY <1>1, CostsTyped
  <2>2. u[r] = 0 /\ v[c] = 0
    BY Shapes DEF Init
  <2> QED
    BY <2>1, <2>2 DEF Reduced
<1>4. Tight
  BY Shapes DEF Init, Tight
<1>5. Prices
  BY Shapes DEF Init, Prices
<1>6. Placed
  BY Shapes DEF Init, Placed, Inserting, Inserted, Held
<1>7. TreeSoFar /\ SlackSoFar
  BY DEF Init, TreeSoFar, SlackSoFar, Inserting
<1> QED
  BY <1>1, <1>2, <1>3, <1>4, <1>5, <1>6, <1>7 DEF AssignmentInvariant

-----------------------------------------------------------------------------
(* A row is taken, the path is turned over, or the rows are exhausted.     *)

LEMMA OuterKeeps ==
  ASSUME AssignmentAssumption, AssignmentInvariant, Outer
  PROVE  AssignmentInvariant'
<1>1. /\ pc = "outer" /\ pc' = "grow" /\ i \in 1..Rows /\ i' = i /\ j0' = 0 /\ j0 = 0
      /\ costs' = costs /\ u' = u /\ v' = v /\ way' = way
      /\ Inserting' /\ ~ Inserting
  BY DEF Outer, AssignmentInvariant, Stages, Inserting, TypeOK
<1>2. /\ p' = [p EXCEPT ![0] = i] /\ minv' = [c \in 0..AugCols |-> Infinity]
      /\ used' = [c \in 0..AugCols |-> FALSE]
  BY DEF Outer
<1>3. TypeOK
  BY DEF AssignmentInvariant
<1>4. p'[0] = i /\ \A c \in Columns : p'[c] = p[c]
  BY <1>2, <1>3, Shapes DEF TypeOK
<1>5. \A r, c : Reduced(r, c)' = Reduced(r, c)
  BY <1>1, SameCosts DEF Reduced
<1>6. TypeOK'
  BY <1>1, <1>2, <1>3, Shapes DEF TypeOK
<1>7. Stages'
  BY <1>1 DEF AssignmentInvariant, Stages
<1>8. Feasible'
  BY <1>5 DEF Feasible, AssignmentInvariant
<1>9. Tight'
  BY <1>4, <1>5 DEF Tight, AssignmentInvariant
<1>10. Prices'
  BY <1>1, <1>4 DEF Prices, AssignmentInvariant
<1>11. Placed'
  <2>1. /\ Held = Columns /\ Held' = 0..AugCols
        /\ Inserted = 1..(i - 1) /\ Inserted' = 1..i
    BY <1>1 DEF Held, Inserted
  <2>2. /\ \A c, d \in Columns : p[c] = p[d] /\ p[c] # 0 => c = d
        /\ \A r \in 1..(i - 1) : \E c \in Columns : p[c] = r
        /\ \A c \in Columns : p[c] # 0 => p[c] \in 1..(i - 1)
    BY <2>1 DEF AssignmentInvariant, Placed
  <2>3. \A c \in Columns : p'[c] # i
    BY <1>1, <1>4, <2>2
  <2>4. \A c, d \in 0..AugCols : p'[c] = p'[d] /\ p'[c] # 0 => c = d
    BY <1>1, <1>4, <2>2, <2>3, Shapes
  <2>5. ASSUME NEW r \in 1..i PROVE \E c \in 0..AugCols : p'[c] = r
    <3>1. CASE r = i
      BY <1>4, <3>1, Shapes
    <3>2. CASE r # i
      <4>1. r \in 1..(i - 1)
        BY <1>1, <3>2
      <4>2. PICK c \in Columns : p[c] = r
        BY <2>2, <4>1
      <4> QED
        BY <1>4, <4>2, Shapes
    <3> QED
      BY <3>1, <3>2
  <2>6. \A c \in Columns : p'[c] # 0 => p'[c] \in 1..i
    BY <1>1, <1>4, <2>2
  <2> QED
    BY <1>1, <1>4, <2>1, <2>4, <2>5, <2>6 DEF Placed
<1>12. TreeSoFar'
  <2>1. \A c \in Columns : ~ InTree(c)'
    BY <1>1, <1>2, Shapes DEF InTree
  <2>2. \A c \in 0..AugCols : ~ used'[c]
    BY <1>2
  <2> DEFINE rank == [c \in 0..AugCols |-> 0]
  <2>3. rank \in [0..AugCols -> Nat]
    OBVIOUS
  <2> HIDE DEF rank
  <2>4. Ranked(rank)'
    BY <2>1, <2>2 DEF Ranked
  <2> QED
    BY <2>3, <2>4 DEF TreeSoFar
<1>13. SlackSoFar'
  <2>1. \A c \in 0..AugCols : ~ used'[c] /\ minv'[c] = Infinity
    BY <1>2
  <2>2. 0 \in 0..AugCols
    BY Shapes
  <2>3. \A c \in Columns : LeastSlack(c)'
    BY <1>1, <2>1, Shapes DEF LeastSlack
  <2>4. \A c \in 0..AugCols : InTree(c)' => p'[c] # 0
    BY <1>1, <1>4, <2>1 DEF InTree
  <2> QED
    BY <1>1, <2>1, <2>2, <2>3, <2>4 DEF SlackSoFar
<1> QED
  BY <1>6, <1>7, <1>8, <1>9, <1>10, <1>11, <1>12, <1>13 DEF AssignmentInvariant

LEMMA FinishKeeps ==
  ASSUME AssignmentAssumption, AssignmentInvariant, Finish
  PROVE  AssignmentInvariant'
<1>1. /\ pc = "outer" /\ pc' = "done" /\ i > Rows
      /\ UNCHANGED <<costs, u, v, p, way, minv, used, i, j0>>
      /\ ~ Inserting /\ ~ Inserting'
  BY DEF Finish, Inserting
<1>2. TypeOK /\ TypeOK'
  BY <1>1 DEF AssignmentInvariant, TypeOK
<1>3. \A r, c : Reduced(r, c)' = Reduced(r, c)
  BY <1>1, SameCosts DEF Reduced
<1>4. i = Rows + 1
  BY <1>1, <1>2, Shapes DEF TypeOK
<1>5. Stages'
  BY <1>1, <1>4 DEF AssignmentInvariant, Stages
<1>6. Feasible'
  BY <1>3 DEF Feasible, AssignmentInvariant
<1>7. Tight'
  BY <1>1, <1>3 DEF Tight, AssignmentInvariant
<1>8. Prices'
  BY <1>1 DEF Prices, AssignmentInvariant
<1>9. Placed'
  BY <1>1 DEF Placed, AssignmentInvariant, Held, Inserted
<1>10. TreeSoFar' /\ SlackSoFar'
  BY <1>1 DEF TreeSoFar, SlackSoFar
<1> QED
  BY <1>2, <1>5, <1>6, <1>7, <1>8, <1>9, <1>10 DEF AssignmentInvariant

\* A step of the path: the column gets the row of the one before it.
LEMMA AugmentStep ==
  ASSUME AssignmentAssumption, AssignmentInvariant, Augment
  PROVE  /\ pc = "augment" /\ Inserting /\ j0 \in Columns /\ i \in 1..Rows
         /\ way[j0] \in 0..AugCols /\ way[j0] # j0 /\ j0' = way[j0]
         /\ p[way[j0]] # 0 /\ Reduced(p[way[j0]], j0) = 0
         /\ p'[j0] = p[way[j0]] /\ \A c \in 0..AugCols : c # j0 => p'[c] = p[c]
         /\ p' \in [0..AugCols -> 0..Rows]
         /\ UNCHANGED <<costs, u, v, way, minv, used>>
<1>1. /\ pc = "augment" /\ p' = [p EXCEPT ![j0] = p[way[j0]]] /\ j0' = way[j0]
      /\ UNCHANGED <<costs, u, v, way, minv, used>>
  BY DEF Augment
<1>2. TypeOK /\ Stages /\ TreeSoFar
  BY DEF AssignmentInvariant
<1>3. Inserting /\ j0 \in Columns /\ i \in 1..Rows
  BY <1>1, <1>2, Shapes DEF Inserting, Stages, TypeOK
<1>4. way[j0] \in 0..AugCols
  BY <1>2 DEF TypeOK
<1>5. PICK rank \in [0..AugCols -> Nat] : Ranked(rank)
  BY <1>2, <1>3 DEF TreeSoFar
<1>6. rank[j0] \in Nat
  BY <1>2 DEF TypeOK
<1>7. /\ used[way[j0]] /\ rank[way[j0]] < rank[j0]
      /\ p[way[j0]] # 0 /\ Reduced(p[way[j0]], j0) = 0
  BY <1>3, <1>5, <1>6 DEF Ranked, InTree
<1>8. way[j0] # j0
  BY <1>6, <1>7
<1>9. /\ p'[j0] = p[way[j0]] /\ \A c \in 0..AugCols : c # j0 => p'[c] = p[c]
      /\ p' \in [0..AugCols -> 0..Rows]
  BY <1>1, <1>2, <1>4 DEF TypeOK
<1> QED
  BY <1>1, <1>3, <1>4, <1>7, <1>8, <1>9

LEMMA AugmentKeeps ==
  ASSUME AssignmentAssumption, AssignmentInvariant, Augment
  PROVE  AssignmentInvariant'
<1> DEFINE w == way[j0]
<1>1. /\ pc = "augment" /\ Inserting /\ j0 \in Columns /\ i \in 1..Rows
      /\ w \in 0..AugCols /\ w # j0 /\ j0' = w
      /\ p[w] # 0 /\ Reduced(p[w], j0) = 0
      /\ p'[j0] = p[w] /\ \A c \in 0..AugCols : c # j0 => p'[c] = p[c]
      /\ p' \in [0..AugCols -> 0..Rows]
      /\ UNCHANGED <<costs, u, v, way, minv, used>>
  BY AugmentStep
<1> HIDE DEF w
<1>2. IF w # 0 THEN pc' = pc /\ i' = i ELSE pc' = "outer" /\ i' = i + 1
  BY <1>1 DEF Augment
<1>3. TypeOK /\ Stages /\ Feasible /\ Tight /\ Prices /\ Placed /\ TreeSoFar
  BY DEF AssignmentInvariant
<1>4. \A r, c : Reduced(r, c)' = Reduced(r, c)
  BY <1>1, SameCosts DEF Reduced
<1>5. IF w # 0 THEN Inserting' /\ pc' = "augment" ELSE ~ Inserting' /\ pc' = "outer"
  BY <1>1, <1>2 DEF Inserting
<1>6. TypeOK'
  BY <1>1, <1>2, <1>3, Shapes DEF TypeOK
<1>7. Stages'
  BY <1>1, <1>2, <1>3, <1>5 DEF Stages
<1>8. Feasible'
  BY <1>3, <1>4 DEF Feasible
<1>9. Tight'
  <2> SUFFICES ASSUME NEW c \in Columns, p'[c] # 0 PROVE Reduced(p'[c], c) = 0
    BY <1>1, <1>4, SameCosts DEF Tight, Reduced
  <2>1. CASE c = j0
    BY <1>1, <2>1
  <2>2. CASE c # j0
    BY <1>1, <1>3, <2>2, Shapes DEF Tight
  <2> QED
    BY <2>1, <2>2
<1>10. Prices'
  <2>1. \A c \in Columns : v'[c] <= 0 /\ (p'[c] = 0 => v'[c] = 0)
    <3> TAKE c \in Columns
    <3>1. c = j0 => p'[c] # 0
      BY <1>1
    <3>2. c # j0 => p'[c] = p[c]
      BY <1>1, Shapes
    <3> QED
      BY <1>1, <1>3, <3>1, <3>2 DEF Prices
  <2>2. \A r \in R : r > i \/ (r = i /\ ~ Inserting) => u[r] = 0
    BY <1>3 DEF Prices
  <2>3. \A r \in R : r > i' \/ (r = i' /\ ~ Inserting') => u'[r] = 0
    <3> TAKE r \in R
    <3> HAVE r > i' \/ (r = i' /\ ~ Inserting')
    <3>1. r > i
      <4>1. r \in Int /\ i \in Int
        BY <1>1, Shapes DEF R
      <4> QED
        BY <1>2, <1>5, <4>1
    <3> QED
      BY <1>1, <2>2, <3>1
  <2> QED
    BY <2>1, <2>3 DEF Prices
<1>11. Placed'
  <2>1. Held = (0..AugCols) \ {j0} /\ Inserted = 1..i
    BY <1>1 DEF Held, Inserted
  <2>2. /\ \A c, d \in Held : p[c] = p[d] /\ p[c] # 0 => c = d
        /\ \A r \in 1..i : \E c \in Held : p[c] = r
        /\ \A c \in Columns : p[c] # 0 => p[c] \in 1..i
        /\ p[0] = i
    BY <1>1, <1>3, <2>1 DEF Placed
  <2>3. Held' = (0..AugCols) \ {w} /\ Inserted' = 1..i
    <3>1. CASE w # 0
      BY <1>1, <1>2, <1>5, <3>1 DEF Held, Inserted
    <3>2. CASE w = 0
      <4>1. Held' = Columns /\ Inserted' = 1..((i + 1) - 1)
        BY <1>1, <1>2, <1>5, <3>2 DEF Held, Inserted
      <4>2. Columns = (0..AugCols) \ {0}
        BY Shapes
      <4> QED
        BY <1>1, <3>2, <4>1, <4>2
    <3> QED
      BY <3>1, <3>2
  <2>4. w \in Held
    BY <1>1, <2>1
  <2>5. ASSUME NEW c \in Held', NEW d \in Held', p'[c] = p'[d], p'[c] # 0
        PROVE  c = d
    <3>1. CASE c = j0 /\ d # j0
      <4>1. d \in Held /\ d # w /\ p'[d] = p[d] /\ p'[c] = p[w]
        BY <1>1, <2>1, <2>3, <3>1
      <4> QED
        BY <1>1, <2>2, <2>4, <2>5, <4>1
    <3>2. CASE c # j0 /\ d = j0
      <4>1. c \in Held /\ c # w /\ p'[c] = p[c] /\ p'[d] = p[w]
        BY <1>1, <2>1, <2>3, <3>2
      <4> QED
        BY <1>1, <2>2, <2>4, <2>5, <4>1
    <3>3. CASE c # j0 /\ d # j0
      <4>1. c \in Held /\ d \in Held /\ p'[c] = p[c] /\ p'[d] = p[d]
        BY <1>1, <2>1, <2>3, <3>3
      <4> QED
        BY <2>2, <2>5, <4>1
    <3> QED
      BY <3>1, <3>2, <3>3
  <2>6. ASSUME NEW r \in 1..i PROVE \E c \in Held' : p'[c] = r
    <3>1. PICK c \in Held : p[c] = r
      BY <2>2
    <3>2. CASE c = w
      <4>1. j0 \in Held'
        BY <1>1, <2>3, Shapes
      <4> QED
        BY <1>1, <3>1, <3>2, <4>1
    <3>3. CASE c # w
      <4>1. c \in Held' /\ c \in 0..AugCols /\ c # j0
        BY <2>1, <2>3, <3>3
      <4> QED
        BY <1>1, <3>1, <4>1
    <3> QED
      BY <3>2, <3>3
  <2>7. \A c \in Columns : p'[c] # 0 => p'[c] \in 1..i
    <3> TAKE c \in Columns
    <3> HAVE p'[c] # 0
    <3>1. CASE c = j0
      <4>1. w = 0 \/ w \in Columns
        BY <1>1, Shapes
      <4>2. i \in 1..i
        BY <1>1
      <4> QED
        BY <1>1, <2>2, <3>1, <4>1, <4>2
    <3>2. CASE c # j0
      BY <1>1, <2>2, <3>2, Shapes
    <3> QED
      BY <3>1, <3>2
  <2>8. Inserting' => p'[0] = i'
    BY <1>1, <1>2, <1>5, <2>2, Shapes
  <2> QED
    BY <2>3, <2>5, <2>6, <2>7, <2>8 DEF Placed
<1>12. TreeSoFar'
  <2> SUFFICES ASSUME Inserting' PROVE \E rank \in [0..AugCols -> Nat] : Ranked(rank)'
    BY DEF TreeSoFar
  <2>1. w # 0 /\ pc' = "augment"
    BY <1>5
  <2>2. PICK rank \in [0..AugCols -> Nat] : Ranked(rank)
    BY <1>1, <1>3 DEF TreeSoFar
  <2>3. rank[j0] \in Nat /\ rank[w] \in Nat
    BY <1>1, <1>3 DEF TypeOK
  <2>4. used[w] /\ rank[w] < rank[j0]
    BY <1>1, <2>2, <2>3 DEF Ranked, InTree, w
  <2>5. ASSUME NEW c \in Columns, InTree(c)', rank[c] <= rank[w]
        PROVE  /\ used'[way'[c]] /\ rank[way'[c]] < rank[c]
               /\ p'[way'[c]] # 0 /\ Reduced(p'[way'[c]], c) = 0
    <3>1. InTree(c) /\ rank[c] \in Nat /\ way[c] \in 0..AugCols
      BY <1>1, <1>3, <2>4, <2>5, Shapes DEF InTree, TypeOK
    <3>2. rank[c] <= rank[j0]
      BY <2>3, <2>4, <2>5, <3>1
    <3>3. /\ used[way[c]] /\ rank[way[c]] < rank[c]
          /\ p[way[c]] # 0 /\ Reduced(p[way[c]], c) = 0
      BY <2>2, <3>1, <3>2 DEF Ranked
    <3>4. rank[way[c]] \in Nat
      BY <3>1
    <3>5. way[c] # j0
      BY <2>3, <3>1, <3>2, <3>3, <3>4
    <3> QED
      BY <1>1, <3>1, <3>3, <3>5
  <2>6. Ranked(rank)'
    <3>1. ASSUME NEW c \in Columns, InTree(c)', rank[c] <= rank[w]
          PROVE  /\ used'[way'[c]] /\ rank[way'[c]] < rank[c]
                 /\ p'[way'[c]] # 0 /\ (Reduced(p[way[c]], c) = 0)'
      <4>1. Reduced(p'[way'[c]], c) = (Reduced(p[way[c]], c))'
        BY <1>1, SameCosts DEF Reduced
      <4> QED
        BY <2>5, <3>1, <4>1
    <3> QED
      BY <1>1, <2>1, <3>1 DEF Ranked
  <2> QED
    BY <2>6
<1>13. SlackSoFar'
  BY <1>5 DEF SlackSoFar
<1> QED
  BY <1>6, <1>7, <1>8, <1>9, <1>10, <1>11, <1>12, <1>13 DEF AssignmentInvariant

-----------------------------------------------------------------------------
(* The tree grows.                                                         *)

\* The columns of the tree once the current one joined it, the others, and
\* the rows of the tree.
Tree == {c \in 0..AugCols : InTree(c)}
Free == {c \in Columns : ~ InTree(c)}
TreeRow(r) == \E c \in Tree : p[c] = r

\* A turn of the loop in these terms.
Grown(delta, j1) ==
  /\ delta \in Nat /\ j1 \in Free /\ j0' = j1 /\ j1 # 0
  /\ pc' = (IF p[j1] # 0 THEN "grow" ELSE "augment")
  /\ \A c \in 0..AugCols : used'[c] <=> c \in Tree
  /\ \A c \in Tree : way'[c] = way[c]
  /\ \A c \in Free :
       /\ way'[c] \in Tree /\ delta <= Reduced(p[way'[c]], c)
       /\ minv'[c] = Reduced(p[way'[c]], c) - delta
       /\ \A d \in Tree : Reduced(p[way'[c]], c) <= Reduced(p[d], c)
  /\ minv'[j1] = 0
  /\ \A r \in 0..Rows : u'[r] = IF TreeRow(r) THEN u[r] + delta ELSE u[r]
  /\ \A c \in 0..AugCols : v'[c] = IF c \in Tree THEN v[c] - delta ELSE v[c]
  /\ u' \in [0..Rows -> Int] /\ v' \in [0..AugCols -> Int]
  /\ way' \in [0..AugCols -> 0..AugCols] /\ used' \in [0..AugCols -> BOOLEAN]
  /\ minv' \in [0..AugCols -> Int \union {Infinity}]
  /\ UNCHANGED <<costs, p, i>>

\* A set of natural numbers has a least one.
LEMMA LeastOf ==
  ASSUME NEW S, S \subseteq Nat, S # {}
  PROVE  \E n \in S : \A m \in S : n <= m
<1>1. IsWellFoundedOn(OpToRel(<, Nat), Nat)
  BY NatLessThanWellFounded
<1>2. PICK n \in S : \A m \in S : ~ (<<m, n>> \in OpToRel(<, Nat))
  BY <1>1, WFMin
<1>3. ASSUME NEW m \in S PROVE n <= m
  <2>1. <<m, n>> \in OpToRel(<, Nat) <=> m < n
    BY DEF OpToRel
  <2>2. ~ (m < n)
    BY <1>2, <2>1
  <2>3. m \in Nat /\ n \in Nat
    OBVIOUS
  <2> QED
    BY <2>2, <2>3
<1> QED
  BY <1>3

\* There is a nearest column.
LEMMA NearestIs ==
  ASSUME NEW S, S \subseteq Nat, S # {}, NEW slack, \A c \in S : slack[c] \in Nat
  PROVE  /\ Nearest(slack, S) \in S
         /\ \A c \in S : slack[Nearest(slack, S)] <= slack[c]
<1> DEFINE Slacks == {slack[c] : c \in S}
<1>1. Slacks \subseteq Nat /\ Slacks # {}
  OBVIOUS
<1>2. PICK n \in Slacks : \A m \in Slacks : n <= m
  <2> HIDE DEF Slacks
  <2> QED
    BY <1>1, LeastOf
<1>3. n \in Nat /\ \A c \in S : n <= slack[c]
  BY <1>1, <1>2
<1> DEFINE First == {c \in S : slack[c] = n}
<1>4. First \subseteq Nat /\ First # {}
  BY <1>2
<1>5. PICK d \in First : \A c \in First : d <= c
  <2> HIDE DEF First
  <2> QED
    BY <1>4, LeastOf
<1>6. d \in S /\ slack[d] = n /\ d \in Nat
  BY <1>5
<1>7. \A c \in S : slack[d] < slack[c] \/ (slack[d] = slack[c] /\ d <= c)
  <2> TAKE c \in S
  <2>1. CASE slack[c] = n
    BY <1>5, <1>6, <2>1
  <2>2. CASE slack[c] # n
    <3>1. slack[c] \in Nat /\ n <= slack[c] /\ n \in Nat
      BY <1>3
    <3>2. n < slack[c]
      BY <2>2, <3>1
    <3> QED
      BY <1>6, <3>2
  <2> QED
    BY <2>1, <2>2
<1> DEFINE P(e) == \A c \in S : slack[e] < slack[c] \/ (slack[e] = slack[c] /\ e <= c)
<1>8. \E e \in S : P(e)
  BY <1>6, <1>7
<1>9. Nearest(slack, S) \in S /\ P(Nearest(slack, S))
  <2>1. Nearest(slack, S) = CHOOSE e \in S : P(e)
    BY DEF Nearest
  <2> HIDE DEF P
  <2> QED
    BY <1>8, <2>1
<1>10. \A c \in S : slack[Nearest(slack, S)] <= slack[c]
  <2> TAKE c \in S
  <2>1. slack[c] \in Nat /\ slack[Nearest(slack, S)] \in Nat
    BY <1>9
  <2>2. slack[Nearest(slack, S)] < slack[c] \/ slack[Nearest(slack, S)] = slack[c]
    BY <1>9
  <2> QED
    BY <2>1, <2>2
<1> QED
  BY <1>9, <1>10

\* There are more columns than rows, so one is outside the tree.
LEMMA SomeFree ==
  ASSUME AssignmentAssumption, AssignmentInvariant, pc = "grow"
  PROVE  Free # {}
<1> SUFFICES ASSUME Free = {} PROVE FALSE
  OBVIOUS
<1>1. /\ \A c \in 0..AugCols : InTree(c) => p[c] # 0
      /\ j0 # 0 => used[0]
  BY DEF AssignmentInvariant, SlackSoFar
<1>2. \A c \in 0..AugCols : InTree(c)
  BY <1>1, Shapes DEF Free, InTree
<1>3. \A c, d \in 0..AugCols : p[c] = p[d] /\ p[c] # 0 => c = d
  BY DEF AssignmentInvariant, Placed, Held, Inserting
<1>4. p \in [0..AugCols -> 0..Rows] /\ \A c \in 0..AugCols : p[c] # 0
  BY <1>1, <1>2 DEF AssignmentInvariant, TypeOK
<1>5. p \in [0..AugCols -> R]
  BY <1>4, Shapes
<1>6. IsFiniteSet(0..AugCols) /\ Cardinality(0..AugCols) = AugCols + 1
  <2>1. AugCols \in Nat
    BY Shapes
  <2>2. 0 \in Int /\ AugCols \in Int /\ ~ (0 > AugCols) /\ AugCols - 0 + 1 = AugCols + 1
    BY <2>1
  <2> HIDE DEF AugCols
  <2> QED
    BY <2>2, FS_Interval
<1>7. IsFiniteSet(R) /\ Cardinality(R) <= Rows
  <2>1. Rows \in Nat
    BY Shapes
  <2>2. IsFiniteSet(1..Rows) /\ Cardinality(1..Rows) = IF 1 > Rows THEN 0 ELSE Rows - 1 + 1
    BY <2>1, FS_Interval
  <2> QED
    BY <2>1, <2>2 DEF R
<1>8. Cardinality(R) < Cardinality(0..AugCols)
  <2>1. Cardinality(R) \in Nat
    BY <1>7, FS_CardinalityType
  <2> QED
    BY <1>6, <1>7, <2>1, Shapes
<1>9. \E c, d \in 0..AugCols : c # d /\ p[c] = p[d]
  BY <1>5, <1>6, <1>7, <1>8, FS_PigeonHole
<1> QED
  BY <1>3, <1>4, <1>9

\* What is known of the tree when it grows.
LEMMA GrowStart ==
  ASSUME AssignmentAssumption, AssignmentInvariant, pc = "grow"
  PROVE  /\ Inserting /\ i \in 1..Rows /\ 0 \in Tree /\ j0 \in Tree /\ j0 \in 0..AugCols
         /\ \A c \in Tree : c \in 0..AugCols /\ p[c] \in R /\ p[c] <= i
         /\ \A c, d \in 0..AugCols : p[c] = p[d] /\ p[c] # 0 => c = d
         /\ \A c \in Free : c \in Columns /\ c \notin Tree /\ ~ used[c] /\ c # j0
         /\ \A c \in Columns : c \in Free \/ c \in Tree
         /\ \A c \in 0..AugCols : (c \in Tree) <=> (used[c] \/ c = j0)
<1>1. Inserting /\ TypeOK /\ Stages /\ SlackSoFar /\ Placed
  BY DEF Inserting, AssignmentInvariant
<1>2. i \in 1..Rows /\ j0 \in 0..AugCols
  BY <1>1, Shapes DEF Stages, TypeOK
<1>3. 0 \in Tree /\ j0 \in Tree
  BY <1>1, <1>2, Shapes DEF Tree, InTree, SlackSoFar
<1>4. \A c \in Tree : c \in 0..AugCols /\ p[c] # 0 /\ p[c] \in R
  BY <1>1, Shapes DEF Tree, SlackSoFar, TypeOK
<1>5. /\ \A c, d \in 0..AugCols : p[c] = p[d] /\ p[c] # 0 => c = d
      /\ \A c \in Columns : p[c] # 0 => p[c] \in 1..i
      /\ p[0] = i
  BY <1>1 DEF Placed, Held, Inserting, Inserted
<1>6. \A c \in Tree : p[c] <= i
  BY <1>2, <1>4, <1>5, Shapes
<1>7. /\ \A c \in Free : c \in Columns /\ c \notin Tree /\ ~ used[c] /\ c # j0
      /\ \A c \in Columns : c \in Free \/ c \in Tree
      /\ \A c \in 0..AugCols : (c \in Tree) <=> (used[c] \/ c = j0)
  BY Shapes DEF Free, Tree, InTree
<1> QED
  BY <1>1, <1>2, <1>3, <1>4, <1>5, <1>6, <1>7

\* A column outside the tree: its slack is the least reduced cost to it.
NewSlack(c) == IF Below(Reduced(p[j0], c), minv[c]) THEN Reduced(p[j0], c) ELSE minv[c]
NewWay(c) == IF Below(Reduced(p[j0], c), minv[c]) THEN j0 ELSE way[c]

LEMMA SlackOf ==
  ASSUME AssignmentAssumption, AssignmentInvariant, pc = "grow", NEW c \in Free
  PROVE  /\ NewWay(c) \in Tree /\ NewSlack(c) = Reduced(p[NewWay(c)], c)
         /\ NewSlack(c) \in Nat
         /\ \A d \in Tree : NewSlack(c) <= Reduced(p[d], c)
<1>1. /\ j0 \in Tree /\ c \in Columns /\ ~ used[c] /\ j0 \in 0..AugCols
      /\ \A d \in Tree : d \in 0..AugCols /\ p[d] \in R
      /\ \A d \in 0..AugCols : (d \in Tree) <=> (used[d] \/ d = j0)
  BY GrowStart
<1>2. TypeOK /\ Feasible
  BY DEF AssignmentInvariant
<1>3. \A d \in Tree : Reduced(p[d], c) \in Nat
  <2> TAKE d \in Tree
  <2>1. p[d] \in R
    BY <1>1
  <2>2. Reduced(p[d], c) \in Int
    BY <1>1, <1>2, <2>1, ReducedTyped
  <2>3. Reduced(p[d], c) >= 0
    BY <1>1, <1>2, <2>1 DEF Feasible
  <2> QED
    BY <2>2, <2>3
<1>4. LeastSlack(c) /\ (j0 = 0 => \A d \in 0..AugCols : ~ used[d])
  BY <1>1 DEF AssignmentInvariant, SlackSoFar
<1>5. CASE j0 = 0
  <2>1. minv[c] = Infinity
    BY <1>4, <1>5 DEF LeastSlack
  <2>2. NewSlack(c) = Reduced(p[j0], c) /\ NewWay(c) = j0
    BY <2>1 DEF NewSlack, NewWay, Below
  <2>3. \A d \in Tree : d = j0
    BY <1>1, <1>4, <1>5
  <2>4. Reduced(p[j0], c) \in Nat
    BY <1>1, <1>3
  <2>5. Reduced(p[j0], c) <= Reduced(p[j0], c)
    BY <2>4
  <2>6. \A d \in Tree : NewSlack(c) <= Reduced(p[d], c)
    BY <2>2, <2>3, <2>5
  <2> QED
    BY <1>1, <2>2, <2>4, <2>6
<1>6. CASE j0 # 0
  <2>1. /\ used[way[c]] /\ minv[c] = Reduced(p[way[c]], c)
        /\ \A d \in 0..AugCols : used[d] => minv[c] <= Reduced(p[d], c)
    BY <1>4, <1>6 DEF LeastSlack
  <2>2. way[c] \in Tree
    <3>1. way[c] \in 0..AugCols
      BY <1>1, <1>2, Shapes DEF TypeOK
    <3> QED
      BY <1>1, <2>1, <3>1
  <2>3. minv[c] \in Nat /\ Reduced(p[j0], c) \in Nat
    BY <1>1, <1>3, <2>1, <2>2
  <2>4. minv[c] # Infinity
    BY <2>3 DEF AssignmentAssumption
  <2>5. Below(Reduced(p[j0], c), minv[c]) <=> Reduced(p[j0], c) < minv[c]
    BY <2>4 DEF Below
  <2>6. \A d \in Tree : d = j0 \/ minv[c] <= Reduced(p[d], c)
    BY <1>1, <2>1
  <2>7. CASE Reduced(p[j0], c) < minv[c]
    <3>1. NewSlack(c) = Reduced(p[j0], c) /\ NewWay(c) = j0
      BY <2>5, <2>7 DEF NewSlack, NewWay
    <3>2. \A d \in Tree : Reduced(p[j0], c) <= Reduced(p[d], c)
      <4> TAKE d \in Tree
      <4>1. Reduced(p[d], c) \in Nat
        BY <1>3
      <4>2. CASE d = j0
        BY <2>3, <4>2
      <4>3. CASE minv[c] <= Reduced(p[d], c)
        BY <2>3, <2>7, <4>1, <4>3
      <4> QED
        BY <2>6, <4>2, <4>3
    <3> QED
      BY <1>1, <2>3, <3>1, <3>2
  <2>8. CASE ~ (Reduced(p[j0], c) < minv[c])
    <3>1. NewSlack(c) = minv[c] /\ NewWay(c) = way[c]
      BY <2>5, <2>8 DEF NewSlack, NewWay
    <3>2. \A d \in Tree : minv[c] <= Reduced(p[d], c)
      <4> TAKE d \in Tree
      <4>1. CASE d = j0
        BY <2>3, <2>8, <4>1
      <4> QED
        BY <2>6, <4>1
    <3> QED
      BY <2>1, <2>2, <2>3, <3>1, <3>2
  <2> QED
    BY <2>7, <2>8
<1> QED
  BY <1>5, <1>6

LEMMA GrowIsGrown ==
  ASSUME AssignmentAssumption, AssignmentInvariant, Grow
  PROVE  \E delta, j1 : Grown(delta, j1)
<1> DEFINE free  == {c \in 1..AugCols : ~ Seen[c]}
           i0    == p[j0]
           cur   == [c \in free |-> a(i0, c) - u[i0] - v[c]]
           slack == [c \in free |-> IF Below(cur[c], minv[c]) THEN cur[c] ELSE minv[c]]
           j1    == Nearest(slack, free)
           delta == slack[j1]
<1>1. /\ pc = "grow" /\ used' = Seen /\ j0' = j1
      /\ way' = [c \in 0..AugCols |->
                   IF c \in free /\ Below(cur[c], minv[c]) THEN j0 ELSE way[c]]
      /\ minv' = [c \in 0..AugCols |->
                    IF c \in free THEN slack[c] - delta
                    ELSE IF Seen[c] THEN minv[c] ELSE Lowered(minv[c], delta)]
      /\ Potentials(Seen, delta)
      /\ pc' = IF p[j1] # 0 THEN "grow" ELSE "augment"
      /\ UNCHANGED <<costs, p, i>>
  BY Zenon DEF Grow
<1>2. TypeOK
  BY DEF AssignmentInvariant
<1>3. /\ Seen \in [0..AugCols -> BOOLEAN]
      /\ \A c \in 0..AugCols : Seen[c] <=> c \in Tree
  <2>1. \A c \in 0..AugCols : (c \in Tree) <=> (used[c] \/ c = j0)
    BY <1>1, GrowStart
  <2>2. used \in [0..AugCols -> BOOLEAN] /\ j0 \in 0..AugCols
    BY <1>2 DEF TypeOK
  <2>3. Seen \in [0..AugCols -> BOOLEAN]
    BY <2>2 DEF Seen
  <2>4. Seen[j0] /\ \A c \in 0..AugCols : c # j0 => Seen[c] = used[c]
    BY <2>2 DEF Seen
  <2>5. ASSUME NEW c \in 0..AugCols PROVE Seen[c] <=> c \in Tree
    <3>1. CASE c = j0
      BY <2>1, <2>4, <3>1
    <3>2. CASE c # j0
      BY Zenon, <2>1, <2>4, <3>2
    <3> QED
      BY <3>1, <3>2
  <2> QED
    BY <2>3, <2>5
<1>4. \A c : c \in free <=> c \in Free
  BY <1>1, <1>3, GrowStart, Shapes DEF Columns, Free, Tree
<1>5. \A c \in Free : cur[c] = Reduced(p[j0], c)
  BY <1>4 DEF Reduced
<1> HIDE DEF cur
<1>6. \A c \in Free : slack[c] = NewSlack(c)
  BY <1>4, <1>5 DEF NewSlack
<1>7. \A c \in Free : way'[c] = NewWay(c) /\ minv'[c] = NewSlack(c) - delta
  <2>1. \A c \in Free : c \in 0..AugCols
    BY Shapes DEF Free
  <2> HIDE DEF delta, slack, free
  <2> QED
    BY <1>1, <1>4, <1>5, <1>6, <2>1 DEF NewWay
<1>8. j1 \in Free /\ delta \in Nat /\ \A c \in Free : delta <= NewSlack(c)
  <2>1. free \subseteq Nat /\ free # {} /\ \A c \in free : slack[c] \in Nat
    <3>1. free # {}
      BY <1>1, <1>4, SomeFree
    <3>2. \A c \in Free : NewSlack(c) \in Nat
      BY <1>1, SlackOf
    <3>3. \A c \in free : slack[c] \in Nat
      <4> HIDE DEF slack, free
      <4> QED
        BY <1>4, <1>6, <3>2
    <3>4. free \subseteq Nat
      BY Shapes
    <3> QED
      BY <3>1, <3>3, <3>4
  <2> HIDE DEF slack, free
  <2>2. j1 \in free /\ \A c \in free : slack[j1] <= slack[c]
    BY <2>1, NearestIs
  <2> QED
    BY <1>4, <1>6, <2>1, <2>2
<1>9. delta = NewSlack(j1)
  BY <1>6, <1>8
<1> HIDE DEF delta, j1, slack, free
<1>10. \A c \in Free :
         /\ way'[c] \in Tree /\ delta <= Reduced(p[way'[c]], c)
         /\ minv'[c] = Reduced(p[way'[c]], c) - delta
         /\ \A d \in Tree : Reduced(p[way'[c]], c) <= Reduced(p[d], c)
  <2> TAKE c \in Free
  <2>1. /\ NewWay(c) \in Tree /\ NewSlack(c) = Reduced(p[NewWay(c)], c)
        /\ \A d \in Tree : NewSlack(c) <= Reduced(p[d], c)
    BY <1>1, SlackOf
  <2> QED
    BY <1>7, <1>8, <2>1
<1>11. minv'[j1] = 0
  BY <1>7, <1>8, <1>9
<1>12. \A c \in Tree : way'[c] = way[c]
  <2>1. \A c \in Tree : c \in 0..AugCols /\ c \notin free
    BY <1>1, <1>4, GrowStart
  <2> QED
    BY <1>1, <2>1
<1>13. /\ \A r \in 0..Rows : u'[r] = IF TreeRow(r) THEN u[r] + delta ELSE u[r]
       /\ \A c \in 0..AugCols : v'[c] = IF c \in Tree THEN v[c] - delta ELSE v[c]
       /\ u' \in [0..Rows -> Int] /\ v' \in [0..AugCols -> Int]
  <2>1. \A r : (\E c \in 0..AugCols : Seen[c] /\ p[c] = r) <=> TreeRow(r)
    BY <1>1, <1>3, GrowStart DEF TreeRow
  <2>2. /\ u' = [r \in 0..Rows |->
                   IF \E c \in 0..AugCols : Seen[c] /\ p[c] = r
                   THEN u[r] + delta ELSE u[r]]
        /\ v' = [c \in 0..AugCols |-> IF Seen[c] THEN v[c] - delta ELSE v[c]]
    BY <1>1 DEF Potentials
  <2>3. \A r \in 0..Rows : u'[r] = IF TreeRow(r) THEN u[r] + delta ELSE u[r]
    BY <2>1, <2>2
  <2>4. \A c \in 0..AugCols : v'[c] = IF c \in Tree THEN v[c] - delta ELSE v[c]
    BY <1>3, <2>2
  <2>5. u' \in [0..Rows -> Int]
    BY <1>2, <1>8, <2>2 DEF TypeOK
  <2>6. v' \in [0..AugCols -> Int]
    BY <1>2, <1>8, <2>2 DEF TypeOK
  <2> QED
    BY <2>3, <2>4, <2>5, <2>6
<1>14. /\ way' \in [0..AugCols -> 0..AugCols]
       /\ minv' \in [0..AugCols -> Int \union {Infinity}]
  <2>1. way' \in [0..AugCols -> 0..AugCols]
    BY <1>1, <1>2 DEF TypeOK
  <2>2. \A c \in free : slack[c] - delta \in Int
    <3>1. \A c \in Free : NewSlack(c) \in Nat
      BY <1>1, SlackOf
    <3> QED
      BY <1>4, <1>6, <1>8, <3>1
  <2>3. \A c \in 0..AugCols : minv[c] \in Int \union {Infinity}
    BY <1>2 DEF TypeOK
  <2>4. \A c \in 0..AugCols : Lowered(minv[c], delta) \in Int \union {Infinity}
    BY <1>8, <2>3 DEF Lowered
  <2>5. minv' \in [0..AugCols -> Int \union {Infinity}]
    BY <1>1, <2>2, <2>3, <2>4
  <2> QED
    BY <2>1, <2>5
<1>15. j1 # 0
  BY <1>8, Shapes DEF Free
<1>16. Grown(delta, j1)
  BY <1>1, <1>3, <1>8, <1>10, <1>11, <1>12, <1>13, <1>14, <1>15 DEF Grown
<1> QED
  BY <1>16

\* The pairs between the tree and the outside get cheaper or dearer, the
\* others stay as they are.
LEMMA ReducedAfter ==
  ASSUME AssignmentAssumption, AssignmentInvariant, pc = "grow",
         NEW delta, NEW j1, Grown(delta, j1), NEW r \in R, NEW c \in Columns
  PROVE  /\ Reduced(r, c)' =
              Reduced(r, c) - (IF TreeRow(r) THEN delta ELSE 0)
                            + (IF c \in Tree THEN delta ELSE 0)
         /\ Reduced(r, c) \in Int /\ delta \in Nat
<1>1. TypeOK
  BY DEF AssignmentInvariant
<1>2. a(r, c) \in Nat /\ a(r, c)' = a(r, c)
  <2>1. costs' = costs
    BY DEF Grown
  <2> QED
    BY <1>1, <2>1, CostsTyped, SameCosts
<1>3. r \in 0..Rows /\ c \in 0..AugCols
  BY Shapes
<1>4. u[r] \in Int /\ v[c] \in Int
  BY <1>1, <1>3 DEF TypeOK
<1>5. /\ u'[r] = IF TreeRow(r) THEN u[r] + delta ELSE u[r]
      /\ v'[c] = IF c \in Tree THEN v[c] - delta ELSE v[c]
      /\ delta \in Nat
  BY <1>3 DEF Grown
<1>6. /\ Reduced(r, c)' = a(r, c) - u'[r] - v'[c]
      /\ Reduced(r, c) = a(r, c) - u[r] - v[c]
  BY <1>2 DEF Reduced
<1> QED
  BY <1>2, <1>4, <1>5, <1>6

\* Between two columns of the tree, and from the tree to the outside.
LEMMA ReducedInTree ==
  ASSUME AssignmentAssumption, AssignmentInvariant, pc = "grow",
         NEW delta, NEW j1, Grown(delta, j1), NEW d \in Tree
  PROVE  /\ \A c \in Tree : c # 0 => Reduced(p[d], c)' = Reduced(p[d], c)
         /\ \A c \in Free : Reduced(p[d], c)' = Reduced(p[d], c) - delta
<1>1. p' = p /\ \E e \in R : e = p[d] /\ TreeRow(e)
  BY GrowStart DEF TreeRow, Grown
<1>2. PICK e \in R : e = p[d] /\ TreeRow(e)
  BY <1>1
<1>3. ASSUME NEW c \in Tree, c # 0 PROVE Reduced(p[d], c)' = Reduced(p[d], c)
  <2>1. c \in Columns
    BY <1>3, GrowStart, Shapes
  <2>2. /\ Reduced(e, c)' = Reduced(e, c) - (IF TreeRow(e) THEN delta ELSE 0)
                              + (IF c \in Tree THEN delta ELSE 0)
        /\ Reduced(e, c) \in Int /\ delta \in Nat
    BY <1>2, <2>1, ReducedAfter
  <2>3. Reduced(e, c)' = Reduced(e, c)
    BY <1>2, <2>2
  <2> QED
    BY <1>1, <1>2, <2>3
<1>4. ASSUME NEW c \in Free PROVE Reduced(p[d], c)' = Reduced(p[d], c) - delta
  <2>1. c \in Columns /\ c \notin Tree
    BY GrowStart
  <2>2. /\ Reduced(e, c)' = Reduced(e, c) - (IF TreeRow(e) THEN delta ELSE 0)
                              + (IF c \in Tree THEN delta ELSE 0)
        /\ Reduced(e, c) \in Int /\ delta \in Nat
    BY <1>2, <2>1, ReducedAfter
  <2>3. Reduced(e, c)' = Reduced(e, c) - delta
    BY <1>2, <2>1, <2>2
  <2> QED
    BY <1>1, <1>2, <2>3
<1> QED
  BY <1>3, <1>4

LEMMA GrownKeepsDual ==
  ASSUME AssignmentAssumption, AssignmentInvariant, pc = "grow",
         NEW delta, NEW j1, Grown(delta, j1)
  PROVE  TypeOK' /\ Stages' /\ Feasible' /\ Tight' /\ Prices'
<1>1. /\ TypeOK /\ Stages /\ Feasible /\ Tight /\ Prices /\ Placed
      /\ Inserting /\ Inserting' /\ p' = p /\ i' = i /\ j0' = j1 /\ j1 \in Columns /\ j1 # 0
  BY GrowStart DEF AssignmentInvariant, Grown, Inserting
<1>2. TypeOK'
  <2>1. j1 \in 0..AugCols
    BY <1>1, Shapes
  <2>2. pc' \in {"grow", "augment"} /\ costs' = costs
    BY DEF Grown
  <2>3. /\ u' \in [0..Rows -> Int] /\ v' \in [0..AugCols -> Int]
        /\ way' \in [0..AugCols -> 0..AugCols] /\ used' \in [0..AugCols -> BOOLEAN]
        /\ minv' \in [0..AugCols -> Int \union {Infinity}]
    BY DEF Grown
  <2>4. /\ costs' \in [R -> [C -> Costs]] /\ p' \in [0..AugCols -> 0..Rows]
        /\ i' \in 1..(Rows + 1)
    BY <1>1, <2>2 DEF TypeOK
  <2> QED
    BY <1>1, <2>1, <2>2, <2>3, <2>4 DEF TypeOK
<1>3. Stages'
  BY <1>1 DEF Stages, Inserting
<1>4. Feasible'
  <2> SUFFICES ASSUME NEW r \in R, NEW c \in Columns PROVE Reduced(r, c)' >= 0
    BY DEF Feasible
  <2>1. /\ Reduced(r, c)' = Reduced(r, c) - (IF TreeRow(r) THEN delta ELSE 0)
                              + (IF c \in Tree THEN delta ELSE 0)
        /\ Reduced(r, c) \in Int /\ delta \in Nat
    BY ReducedAfter
  <2>2. Reduced(r, c) >= 0
    BY <1>1 DEF Feasible
  <2>3. CASE TreeRow(r) /\ c \notin Tree
    <3>1. PICK d \in Tree : p[d] = r
      BY <2>3 DEF TreeRow
    <3>2. c \in Free
      BY <2>3, GrowStart
    <3>3. /\ delta <= Reduced(p[way'[c]], c) /\ Reduced(p[way'[c]], c) <= Reduced(p[d], c)
          /\ way'[c] \in Tree
      BY <3>2 DEF Grown
    <3>4. Reduced(p[way'[c]], c) \in Int
      BY <1>1, <3>3, GrowStart, ReducedTyped
    <3>5. delta <= Reduced(r, c)
      BY <2>1, <3>1, <3>3, <3>4
    <3> QED
      BY <2>1, <2>3, <3>5
  <2> QED
    BY <2>1, <2>2, <2>3
<1>5. Tight'
  <2> SUFFICES ASSUME NEW c \in Columns, p[c] # 0 PROVE Reduced(p[c], c)' = 0
    BY <1>1 DEF Tight
  <2>1. PICK e \in R : e = p[c]
    BY <1>1, Shapes DEF TypeOK
  <2>2. /\ Reduced(e, c)' = Reduced(e, c) - (IF TreeRow(e) THEN delta ELSE 0)
                              + (IF c \in Tree THEN delta ELSE 0)
        /\ Reduced(e, c) \in Int /\ delta \in Nat
    BY ReducedAfter
  <2>3. TreeRow(e) <=> c \in Tree
    <3>1. ASSUME NEW d \in Tree, p[d] = e PROVE c \in Tree
      <4>1. d = c
        BY <2>1, <3>1, GrowStart, Shapes
      <4> QED
        BY <4>1
    <3> QED
      BY <2>1, <3>1 DEF TreeRow
  <2>4. Reduced(e, c) = 0
    BY <1>1, <2>1 DEF Tight
  <2>5. Reduced(e, c)' = 0
    BY <2>2, <2>3, <2>4
  <2> QED
    BY <1>1, <2>1, <2>5
<1>6. Prices'
  <2>1. \A c \in Columns : v'[c] <= 0 /\ (p'[c] = 0 /\ c # j0' => v'[c] = 0)
    <3> TAKE c \in Columns
    <3>1. c \in 0..AugCols /\ v[c] \in Int /\ delta \in Nat
      BY <1>1, Shapes DEF TypeOK, Grown
    <3>2. v'[c] = IF c \in Tree THEN v[c] - delta ELSE v[c]
      BY <3>1 DEF Grown
    <3>3. v[c] <= 0 /\ (p[c] = 0 /\ c # j0 => v[c] = 0)
      BY <1>1 DEF Prices
    <3>4. c \in Tree => p[c] # 0
      BY GrowStart, Shapes
    <3>5. j0 \in Tree
      BY GrowStart
    <3> QED
      BY <1>1, <3>1, <3>2, <3>3, <3>4, <3>5
  <2>2. \A r \in R : r > i' \/ (r = i' /\ ~ Inserting') => u'[r] = 0
    <3> TAKE r \in R
    <3> HAVE r > i' \/ (r = i' /\ ~ Inserting')
    <3>1. r > i
      BY <1>1
    <3>2. u[r] = 0
      BY <1>1, <3>1 DEF Prices
    <3>3. \A c \in Tree : p[c] \in R /\ p[c] <= i /\ i \in Int
      BY GrowStart
    <3>4. ~ TreeRow(r)
      BY <3>1, <3>3 DEF TreeRow, R
    <3> QED
      BY <3>2, <3>4, Shapes DEF Grown
  <2> QED
    BY <2>1, <2>2 DEF Prices
<1> QED
  BY <1>2, <1>3, <1>4, <1>5, <1>6

LEMMA GrownKeepsPlaced ==
  ASSUME AssignmentAssumption, AssignmentInvariant, pc = "grow",
         NEW delta, NEW j1, Grown(delta, j1)
  PROVE  Placed'
<1>1. Placed /\ Inserting /\ p' = p /\ i' = i /\ j0' = j1
  BY GrowStart DEF AssignmentInvariant, Grown
<1>2. Held = 0..AugCols /\ Inserted = 1..i /\ Inserted' = 1..i /\ Inserting'
  BY <1>1 DEF Held, Inserted, Grown, Inserting
<1>3. /\ \A c, d \in 0..AugCols : p[c] = p[d] /\ p[c] # 0 => c = d
      /\ \A r \in 1..i : \E c \in 0..AugCols : p[c] = r
      /\ \A c \in Columns : p[c] # 0 => p[c] \in 1..i
      /\ p[0] = i
  BY <1>1, <1>2 DEF Placed
<1>4. CASE pc' = "grow"
  <2>1. Held' = 0..AugCols
    BY <1>2, <1>4 DEF Held
  <2> QED
    BY <1>1, <1>2, <1>3, <2>1 DEF Placed
<1>5. CASE pc' # "grow"
  <2>1. pc' = "augment" /\ p[j1] = 0
    BY <1>5 DEF Grown
  <2>2. Held' = (0..AugCols) \ {j1}
    BY <1>1, <1>2, <2>1 DEF Held
  <2>3. \A r \in 1..i : \E c \in (0..AugCols) \ {j1} : p[c] = r
    <3> TAKE r \in 1..i
    <3>1. PICK c \in 0..AugCols : p[c] = r
      BY <1>3
    <3>2. r # 0
      BY GrowStart
    <3> QED
      BY <2>1, <3>1, <3>2
  <2> QED
    BY <1>1, <1>2, <1>3, <2>2, <2>3 DEF Placed
<1> QED
  BY <1>4, <1>5

LEMMA GrownKeepsTree ==
  ASSUME AssignmentAssumption, AssignmentInvariant, pc = "grow",
         NEW delta, NEW j1, Grown(delta, j1)
  PROVE  TreeSoFar'
<1>1. /\ TypeOK /\ TreeSoFar /\ Inserting /\ p' = p /\ j0' = j1 /\ j1 \in Free /\ j1 # 0
      /\ \A c \in 0..AugCols : used'[c] <=> c \in Tree
      /\ \A c \in Tree : way'[c] = way[c]
  BY GrowStart DEF AssignmentInvariant, Grown
<1>2. PICK rank \in [0..AugCols -> Nat] : Ranked(rank)
  BY <1>1 DEF TreeSoFar
<1>3. \A c \in Tree : c # j1 /\ c \in 0..AugCols /\ p[c] # 0 /\ p[c] \in R
  BY <1>1, GrowStart, Shapes
<1>4. j0 \in Tree /\ \A c \in Tree : used[c] \/ c = j0
  BY GrowStart
<1>5. \A c \in Tree : rank[c] \in Nat /\ rank[c] <= rank[j0]
  <2> TAKE c \in Tree
  <2>1. rank[c] \in Nat /\ rank[j0] \in Nat
    BY <1>3, <1>4
  <2>2. used[c] => rank[c] < rank[j0]
    BY <1>2, <1>3 DEF Ranked
  <2> QED
    BY <1>4, <2>1, <2>2
<1>6. PICK rank2 \in [0..AugCols -> Nat] :
        rank2[j1] = rank[j0] + 1 /\ \A c \in Tree : rank2[c] = rank[c]
  <2> DEFINE rk == [rank EXCEPT ![j1] = rank[j0] + 1]
  <2>1. j1 \in 0..AugCols
    BY <1>1, GrowStart, Shapes
  <2>2. rank[j0] + 1 \in Nat
    BY <1>4, <1>5
  <2>3. rk \in [0..AugCols -> Nat] /\ rk[j1] = rank[j0] + 1
    BY <2>1, <2>2
  <2>4. \A c \in Tree : rk[c] = rank[c]
    BY <1>3
  <2> HIDE DEF rk
  <2> QED
    BY <2>3, <2>4
<1>7. ASSUME NEW c \in Columns, InTree(c)'
      PROVE  /\ way'[c] \in Tree /\ rank2[way'[c]] < rank2[c]
             /\ Reduced(p[way[c]], c)' = 0
  <2>1. c \in 0..AugCols
    BY Shapes
  <2>2. CASE c = j1
    <3>1. way'[j1] \in Tree
      BY <1>1 DEF Grown
    <3>2. rank2[way'[j1]] <= rank[j0] /\ rank2[way'[j1]] \in Nat
      BY <1>5, <1>6, <3>1
    <3>3. rank2[way'[j1]] < rank2[j1]
      <4>1. rank[j0] \in Nat
        BY <1>4, <1>5
      <4> QED
        BY <1>6, <3>2, <4>1
    <3>4. Reduced(p[way'[j1]], j1) = delta
      <4>1. /\ minv'[j1] = 0 /\ minv'[j1] = Reduced(p[way'[j1]], j1) - delta
            /\ delta \in Nat
        BY <1>1 DEF Grown
      <4>2. Reduced(p[way'[j1]], j1) \in Int
        BY <1>1, <1>3, <2>2, <3>1, ReducedTyped
      <4> QED
        BY <4>1, <4>2
    <3>5. PICK d \in Tree : d = way'[j1]
      BY <3>1
    <3>6. Reduced(p[d], j1)' = Reduced(p[d], j1) - delta
      BY <1>1, ReducedInTree
    <3>7. Reduced(p[d], j1)' = 0
      BY <3>4, <3>5, <3>6 DEF Grown
    <3> QED
      BY <2>2, <3>1, <3>3, <3>5, <3>7
  <2>3. CASE c # j1
    <3>1. c \in Tree
      BY <1>1, <1>7, <2>1, <2>3 DEF InTree
    <3>2. InTree(c)
      BY <3>1 DEF Tree
    <3>3. /\ used[way[c]] /\ rank[way[c]] < rank[c] /\ Reduced(p[way[c]], c) = 0
      BY <1>2, <3>2 DEF Ranked
    <3>4. way[c] \in 0..AugCols
      BY <1>1, <2>1 DEF TypeOK
    <3>5. PICK d \in Tree : d = way[c]
      BY <3>3, <3>4, GrowStart
    <3>6. Reduced(p[d], c)' = Reduced(p[d], c)
      BY <3>1, ReducedInTree, Shapes
    <3>7. way'[c] = way[c]
      BY <1>1, <3>1
    <3> QED
      BY <1>6, <3>1, <3>3, <3>5, <3>6, <3>7
  <2> QED
    BY <2>2, <2>3
<1>8. pc' = "grow" => \A c \in 0..AugCols : used'[c] => rank2[c] < rank2[j1]
  <2> SUFFICES ASSUME NEW c \in Tree PROVE rank2[c] < rank2[j1]
    BY <1>1
  <2>1. rank[c] \in Nat /\ rank[j0] \in Nat /\ rank[c] <= rank[j0]
    BY <1>4, <1>5
  <2> QED
    BY <1>6, <2>1
<1>9. Ranked(rank2)'
  <2>1. ASSUME NEW c \in Columns, InTree(c)'
        PROVE  /\ used'[way'[c]] /\ rank2[way'[c]] < rank2[c]
               /\ p'[way'[c]] # 0 /\ Reduced(p[way[c]], c)' = 0
    BY <1>1, <1>3, <1>7, <2>1
  <2> QED
    BY <1>1, <1>8, <2>1 DEF Ranked
<1> QED
  BY <1>9 DEF TreeSoFar

LEMMA GrownKeepsSlack ==
  ASSUME AssignmentAssumption, AssignmentInvariant, pc = "grow",
         NEW delta, NEW j1, Grown(delta, j1)
  PROVE  SlackSoFar'
<1> SUFFICES ASSUME pc' = "grow"
             PROVE  /\ ~ used'[j1] /\ used'[0]
                    /\ \A c \in 0..AugCols : InTree(c)' => p[c] # 0
                    /\ \A c \in Columns : ~ used'[c] => LeastSlack(c)'
  BY DEF SlackSoFar, Grown
<1>1. /\ p' = p /\ j0' = j1 /\ j1 \in Free /\ j1 # 0 /\ p[j1] # 0
      /\ \A c \in 0..AugCols : used'[c] <=> c \in Tree
  BY DEF Grown
<1>2. ~ used'[j1] /\ used'[0]
  BY <1>1, GrowStart, Shapes
<1>3. \A c \in 0..AugCols : InTree(c)' => p[c] # 0
  BY <1>1, GrowStart, Shapes DEF InTree
<1>4. ASSUME NEW c \in Columns, ~ used'[c] PROVE LeastSlack(c)'
  <2>1. c \in Free
    BY <1>1, <1>4, GrowStart, Shapes
  <2>2. /\ way'[c] \in Tree /\ minv'[c] = Reduced(p[way'[c]], c) - delta
        /\ delta \in Nat
        /\ \A d \in Tree : Reduced(p[way'[c]], c) <= Reduced(p[d], c)
    BY <2>1 DEF Grown
  <2>3. PICK e \in Tree : e = way'[c]
    BY <2>2
  <2>4. \A d \in Tree : Reduced(p[d], c)' = Reduced(p[d], c) - delta
    BY <2>1, ReducedInTree
  <2>5. \A d \in Tree : Reduced(p[d], c) \in Int
    BY GrowStart, ReducedTyped DEF AssignmentInvariant
  <2>6. used'[e]
    BY <1>1, GrowStart
  <2>7. minv'[c] = Reduced(p[e], c)'
    BY <2>2, <2>3, <2>4
  <2>8. \A d \in Tree : minv'[c] <= Reduced(p[d], c)'
    <3> TAKE d \in Tree
    <3>1. Reduced(p[e], c) \in Int /\ Reduced(p[d], c) \in Int
      BY <2>5
    <3>2. Reduced(p[e], c) <= Reduced(p[d], c)
      BY <2>2, <2>3
    <3>3. Reduced(p[d], c)' = Reduced(p[d], c) - delta
      BY <2>4
    <3> QED
      BY <2>2, <2>3, <3>1, <3>2, <3>3
  <2> QED
    BY <1>1, <2>3, <2>6, <2>7, <2>8 DEF LeastSlack
<1> QED
  BY <1>2, <1>3, <1>4

LEMMA GrowKeeps ==
  ASSUME AssignmentAssumption, AssignmentInvariant, Grow
  PROVE  AssignmentInvariant'
<1>1. pc = "grow"
  BY DEF Grow
<1>2. PICK delta, j1 : Grown(delta, j1)
  BY GrowIsGrown
<1>3. TypeOK' /\ Stages' /\ Feasible' /\ Tight' /\ Prices'
  BY <1>1, <1>2, GrownKeepsDual
<1>4. Placed'
  BY <1>1, <1>2, GrownKeepsPlaced
<1>5. TreeSoFar'
  BY <1>1, <1>2, GrownKeepsTree
<1>6. SlackSoFar'
  BY <1>1, <1>2, GrownKeepsSlack
<1> QED
  BY <1>3, <1>4, <1>5, <1>6 DEF AssignmentInvariant

LEMMA InvariantStep ==
  ASSUME AssignmentAssumption, AssignmentInvariant, [Next]_vars
  PROVE  AssignmentInvariant'
<1>1. CASE Outer
  BY <1>1, OuterKeeps
<1>2. CASE Finish
  BY <1>2, FinishKeeps
<1>3. CASE Grow
  BY <1>3, GrowKeeps
<1>4. CASE Augment
  BY <1>4, AugmentKeeps
<1>5. CASE Done \/ UNCHANGED vars
  <2>1. UNCHANGED <<costs, u, v, p, way, minv, used, i, j0, pc>>
    BY <1>5 DEF Done, vars
  <2>2. \A r, c : Reduced(r, c)' = Reduced(r, c)
    BY <2>1, SameCosts DEF Reduced
  <2>3. Inserting' <=> Inserting
    BY <2>1 DEF Inserting
  <2>4. TypeOK' /\ Stages'
    BY <2>1, <2>3 DEF AssignmentInvariant, TypeOK, Stages
  <2>5. Feasible' /\ Tight'
    BY <2>1, <2>2 DEF AssignmentInvariant, Feasible, Tight
  <2>6. Prices'
    BY <2>1, <2>3 DEF AssignmentInvariant, Prices
  <2>7. Held' = Held /\ Inserted' = Inserted
    BY <2>1, <2>3 DEF Held, Inserted
  <2>8. Placed'
    BY <2>1, <2>3, <2>7 DEF AssignmentInvariant, Placed
  <2>9. \A c : InTree(c)' <=> InTree(c)
    BY <2>1 DEF InTree
  <2>10. \A rank : Ranked(rank)' <=> Ranked(rank)
    BY <2>1, <2>2, <2>9 DEF Ranked
  <2>11. TreeSoFar'
    BY <2>3, <2>10 DEF AssignmentInvariant, TreeSoFar
  <2>12. \A c : LeastSlack(c)' <=> LeastSlack(c)
    BY <2>1, <2>2 DEF LeastSlack
  <2>13. SlackSoFar'
    BY <2>1, <2>9, <2>12 DEF AssignmentInvariant, SlackSoFar
  <2> QED
    BY <2>4, <2>5, <2>6, <2>8, <2>11, <2>13 DEF AssignmentInvariant
<1> QED
  BY <1>1, <1>2, <1>3, <1>4, <1>5 DEF Next

-----------------------------------------------------------------------------
(* What the matching costs in the end.                                     *)

\* The sum of the code's loop is a sum.
LEMMA TotalIsSum ==
  ASSUME AssignmentAssumption, NEW f, NEW h, NEW s, IsSum(s, h, Rows),
         \A r \in R : h[r] = RowCost(f, r)
  PROVE  Total(f) = s[Rows]
<1> DEFINE Sums(g) == g = [r \in 0..Rows |-> IF r = 0 THEN 0 ELSE g[r - 1] + RowCost(f, r)]
           g == CHOOSE g : Sums(g)
<1>1. Sums(s)
  <2>1. s \in [0..Rows -> Int] /\ s[0] = 0
    BY DEF IsSum
  <2>2. \A r \in 0..Rows : r # 0 => s[r] = s[r - 1] + RowCost(f, r)
    BY Shapes DEF IsSum, R
  <2> QED
    BY <2>1, <2>2
<1>2. Sums(g)
  <2> HIDE DEF Sums
  <2> QED
    BY <1>1
<1>3. Total(f) = g[Rows]
  BY Zenon DEF Total
<1> HIDE DEF g
<1>4. /\ g[0] = 0
      /\ \A r \in 0..Rows : r # 0 => g[r] = g[r - 1] + RowCost(f, r)
  BY <1>2, Shapes
<1> HIDE DEF Sums
<1> DEFINE Good == {m \in Nat : m <= Rows => g[m] = s[m]}
<1>5. 0 \in Good
  BY <1>4 DEF IsSum
<1>6. ASSUME NEW m \in Nat, m \in Good PROVE m + 1 \in Good
  <2> SUFFICES ASSUME m + 1 <= Rows PROVE g[m + 1] = s[m + 1]
    OBVIOUS
  <2>1. m + 1 \in R /\ m + 1 \in 0..Rows /\ m + 1 # 0 /\ (m + 1) - 1 = m /\ m <= Rows
    BY Shapes DEF R
  <2>2. g[m + 1] = g[m] + RowCost(f, m + 1)
    BY <1>4, <2>1
  <2>3. s[m + 1] = s[m] + h[m + 1] /\ h[m + 1] = RowCost(f, m + 1)
    BY <2>1 DEF IsSum, R
  <2>4. g[m] = s[m]
    BY <1>6, <2>1
  <2> QED
    BY <2>2, <2>3, <2>4
<1>7. Rows \in Good
  <2> HIDE DEF Good
  <2> QED
    BY <1>5, <1>6, Shapes, Induction
<1> QED
  BY <1>3, <1>7, Shapes

\* A pair that may be matched costs as much as a real column, and a row left
\* over as much as a dummy column.
LEMMA RowCostTyped ==
  ASSUME AssignmentAssumption, TypeOK, NEW f \in Matchings, NEW r \in R
  PROVE  RowCost(f, r) \in Nat
<1>1. f[r] \in 0..Cols /\ (f[r] # 0 => Valid(r, f[r]))
  BY DEF Matchings
<1>2. CASE f[r] = 0
  BY <1>2 DEF RowCost, dummy_cost, AssignmentAssumption
<1>3. CASE f[r] # 0
  <2>1. f[r] \in C /\ Valid(r, f[r])
    BY <1>1, <1>3 DEF C, AssignmentAssumption
  <2>2. costs[r][f[r]] \in Costs /\ costs[r][f[r]] # Nan
    BY <2>1 DEF TypeOK, Valid
  <2>3. costs[r][f[r]] \in Nat
    BY <2>2 DEF AssignmentAssumption
  <2> QED
    BY <1>3, <2>3 DEF RowCost
<1> QED
  BY <1>2, <1>3

\* Every total is a number.
LEMMA TotalTyped ==
  ASSUME AssignmentAssumption, TypeOK, NEW f \in Matchings
  PROVE  Total(f) \in Int
<1> DEFINE h == [r \in R |-> RowCost(f, r)]
<1>1. \A r \in R : h[r] = RowCost(f, r) /\ h[r] \in Nat
  BY RowCostTyped
<1> HIDE DEF h
<1>2. Numbers(h, Rows)
  BY <1>1 DEF Numbers, R
<1>3. PICK s : IsSum(s, h, Rows)
  BY <1>2, Shapes, SumExists
<1>4. Total(f) = s[Rows]
  BY <1>1, <1>3, TotalIsSum
<1> QED
  BY <1>3, <1>4, Shapes DEF IsSum

\* A matching that costs no more than the columns the rows have in the end is
\* no dearer than any other: the potentials bound the cost of the other from
\* below, whatever columns it uses.
LEMMA NoneCheaper ==
  ASSUME AssignmentAssumption, TypeOK, Feasible, Tight, Prices, j0 = 0,
         NEW x, \A r \in R : x[r] \in Columns /\ p[x[r]] = r,
         \A c \in Columns : p[c] # 0 => x[p[c]] = c,
         NEW f \in Matchings, \A r \in R : RowCost(f, r) <= a(r, x[r]),
         NEW g \in Matchings
  PROVE  Total(f) <= Total(g)
<1> DEFINE y == [r \in R |-> IF g[r] = 0 THEN Cols + r ELSE g[r]]
           h == [c \in Columns |-> - v[c]]
           F == [r \in R |-> RowCost(f, r)]
           G == [r \in R |-> RowCost(g, r)]
           A == [r \in R |-> F[r] + h[x[r]]]
           B == [r \in R |-> G[r] + h[y[r]]]
           X == Chosen(h, x, Rows)
           Y == Chosen(h, y, Rows)
<1>1. Rows \in Nat /\ AugCols \in Nat /\ R = 1..Rows /\ Columns = 1..AugCols
  BY Shapes DEF R, Columns
<1>2. \A c \in Columns : h[c] \in Nat /\ v[c] = - h[c] /\ (p[c] = 0 => h[c] = 0)
  <2> TAKE c \in Columns
  <2>1. v[c] \in Int
    BY Shapes DEF TypeOK
  <2>2. v[c] <= 0 /\ (p[c] = 0 => v[c] = 0)
    BY Shapes DEF Prices
  <2> QED
    BY <2>1, <2>2
<1>3. \A r \in R : y[r] \in Columns /\ a(r, y[r]) = RowCost(g, r)
  <2> TAKE r \in R
  <2>1. g[r] \in 0..Cols /\ (g[r] # 0 => Valid(r, g[r]))
    BY DEF Matchings
  <2>2. CASE g[r] = 0
    <3>1. y[r] = Cols + r /\ Cols + r \in Columns /\ Cols + r > Cols
      BY <2>2, Shapes DEF Columns, AugCols, R
    <3> QED
      BY <2>2, <3>1 DEF a, RowCost
  <2>3. CASE g[r] # 0
    <3>1. y[r] = g[r] /\ g[r] \in Columns /\ ~ (g[r] > Cols)
      BY <2>1, <2>3, Shapes DEF Columns, AugCols
    <3> QED
      BY <2>1, <2>3, <3>1 DEF a, RowCost
  <2> QED
    BY <2>2, <2>3
<1>4. Distinct(y, Rows)
  <2> SUFFICES ASSUME NEW q \in R, NEW r \in R, y[q] = y[r] PROVE q = r
    BY <1>1 DEF Distinct
  <2>1. g[q] \in 0..Cols /\ g[r] \in 0..Cols /\ (g[q] = g[r] /\ g[q] # 0 => q = r)
    BY DEF Matchings
  <2>2. /\ y[q] = (IF g[q] = 0 THEN Cols + q ELSE g[q])
        /\ y[r] = (IF g[r] = 0 THEN Cols + r ELSE g[r])
    OBVIOUS
  <2>3. q \in Nat /\ r \in Nat /\ q # 0 /\ r # 0 /\ Cols \in Nat
    BY Shapes DEF R
  <2> HIDE DEF y
  <2>4. CASE g[q] = 0 /\ g[r] = 0
    <3>1. Cols + q = Cols + r
      BY <2>2, <2>4
    <3> QED
      BY <2>3, <3>1
  <2>5. CASE g[q] = 0 /\ g[r] # 0
    <3>1. Cols + q = g[r]
      BY <2>2, <2>5
    <3>2. g[r] <= Cols
      BY <2>1, <2>3
    <3> QED
      BY <2>3, <3>1, <3>2
  <2>6. CASE g[q] # 0 /\ g[r] = 0
    <3>1. Cols + r = g[q]
      BY <2>2, <2>6
    <3>2. g[q] <= Cols
      BY <2>1, <2>3
    <3> QED
      BY <2>3, <3>1, <3>2
  <2>7. CASE g[q] # 0 /\ g[r] # 0
    BY <2>1, <2>2, <2>7
  <2> QED
    BY <2>4, <2>5, <2>6, <2>7
<1>5. \A r \in R : F[r] = RowCost(f, r) /\ F[r] \in Nat /\ G[r] = RowCost(g, r) /\ G[r] \in Nat
  BY RowCostTyped
<1>6. \A r \in R : X[r] = h[x[r]] /\ X[r] \in Nat /\ Y[r] = h[y[r]] /\ Y[r] \in Nat
  <2> TAKE r \in R
  <2>1. X[r] = h[x[r]] /\ Y[r] = h[y[r]]
    BY <1>1 DEF Chosen
  <2>2. x[r] \in Columns /\ y[r] \in Columns
    BY <1>3
  <2> HIDE DEF h, y, X, Y
  <2> QED
    BY <1>2, <2>1, <2>2
<1>7. \A r \in R : A[r] = F[r] + X[r] /\ B[r] = G[r] + Y[r]
  BY <1>6
<1> HIDE DEF y, h, F, G, A, B, X, Y
<1>8. \A r \in R : u[r] \in Int /\ A[r] <= u[r] /\ u[r] <= B[r] /\ A[r] \in Int /\ B[r] \in Int
  <2> TAKE r \in R
  <2>1. u[r] \in Int /\ F[r] \in Nat /\ G[r] \in Nat /\ X[r] \in Nat /\ Y[r] \in Nat
    BY <1>5, <1>6, Shapes DEF TypeOK
  <2>2. x[r] \in Columns /\ y[r] \in Columns /\ r # 0
    BY <1>3, Shapes
  <2>3. a(r, x[r]) \in Nat /\ a(r, y[r]) \in Nat
    BY <2>2, CostsTyped
  <2>4. v[x[r]] = - X[r] /\ v[y[r]] = - Y[r]
    BY <1>2, <1>6, <2>2
  <2>5. a(r, x[r]) - u[r] - v[x[r]] = 0
    BY <2>2 DEF Tight, Reduced
  <2>6. a(r, y[r]) - u[r] - v[y[r]] >= 0
    BY <2>2 DEF Feasible, Reduced
  <2>7. F[r] <= a(r, x[r]) /\ G[r] = a(r, y[r])
    BY <1>3, <1>5
  <2>8. A[r] = F[r] + X[r] /\ B[r] = G[r] + Y[r]
    BY <1>7
  <2> QED
    BY <2>1, <2>3, <2>4, <2>5, <2>6, <2>7, <2>8
<1>9. /\ Numbers(F, Rows) /\ Numbers(G, Rows) /\ Numbers(X, Rows) /\ Numbers(Y, Rows)
      /\ Numbers(A, Rows) /\ Numbers(B, Rows) /\ Numbers(u, Rows) /\ Numbers(h, AugCols)
  BY <1>1, <1>2, <1>5, <1>6, <1>8 DEF Numbers
<1>10. PICK sF : IsSum(sF, F, Rows)
  BY <1>1, <1>9, SumExists
<1>11. PICK sG : IsSum(sG, G, Rows)
  BY <1>1, <1>9, SumExists
<1>12. PICK sX : IsSum(sX, X, Rows)
  BY <1>1, <1>9, SumExists
<1>13. PICK sY : IsSum(sY, Y, Rows)
  BY <1>1, <1>9, SumExists
<1>14. PICK sA : IsSum(sA, A, Rows)
  BY <1>1, <1>9, SumExists
<1>15. PICK sB : IsSum(sB, B, Rows)
  BY <1>1, <1>9, SumExists
<1>16. PICK sU : IsSum(sU, u, Rows)
  BY <1>1, <1>9, SumExists
<1>17. PICK sH : IsSum(sH, h, AugCols)
  BY <1>1, <1>9, SumExists
<1>18. /\ sF[Rows] \in Int /\ sG[Rows] \in Int /\ sX[Rows] \in Int /\ sY[Rows] \in Int
       /\ sA[Rows] \in Int /\ sB[Rows] \in Int /\ sU[Rows] \in Int /\ sH[AugCols] \in Int
  BY <1>1, <1>10, <1>11, <1>12, <1>13, <1>14, <1>15, <1>16, <1>17 DEF IsSum
<1>19. Total(f) = sF[Rows]
  BY <1>5, <1>10, TotalIsSum
<1>20. Total(g) = sG[Rows]
  BY <1>5, <1>11, TotalIsSum
<1>21. sA[Rows] = sF[Rows] + sX[Rows]
  <2>1. \A j \in 1..Rows : F[j] \in Int /\ X[j] \in Int /\ A[j] = F[j] + X[j]
    BY <1>1, <1>5, <1>6, <1>7
  <2> QED
    BY <1>1, <1>10, <1>12, <1>14, <2>1, SumPlus
<1>22. sB[Rows] = sG[Rows] + sY[Rows]
  <2>1. \A j \in 1..Rows : G[j] \in Int /\ Y[j] \in Int /\ B[j] = G[j] + Y[j]
    BY <1>1, <1>5, <1>6, <1>7
  <2> QED
    BY <1>1, <1>11, <1>13, <1>15, <2>1, SumPlus
<1>23. sA[Rows] <= sU[Rows]
  <2>1. \A j \in 1..Rows : A[j] \in Int /\ u[j] \in Int /\ A[j] <= u[j]
    BY <1>1, <1>8
  <2> QED
    BY <1>1, <1>14, <1>16, <2>1, SumMono
<1>24. sU[Rows] <= sB[Rows]
  <2>1. \A j \in 1..Rows : u[j] \in Int /\ B[j] \in Int /\ u[j] <= B[j]
    BY <1>1, <1>8
  <2> QED
    BY <1>1, <1>15, <1>16, <2>1, SumMono
<1>25. PartsBelow(Rows, AugCols) /\ Terms(h, AugCols)
  BY <1>1, <1>2, PartsOfSums DEF Terms
<1>26. sX[Rows] = sH[AugCols]
  <2>1. Places(x, Rows, AugCols)
    BY <1>1 DEF Places
  <2>2. Distinct(x, Rows)
    BY <1>1 DEF Distinct
  <2>3. Reached(h, x, Rows, AugCols)
    <3> SUFFICES ASSUME NEW c \in Columns, h[c] # 0 PROVE \E r \in R : x[r] = c
      BY <1>1 DEF Reached
    <3>1. p[c] # 0 /\ p[c] \in R
      BY <1>2, Shapes DEF TypeOK
    <3> QED
      BY <3>1
  <2>4. IsSum(sX, Chosen(h, x, Rows), Rows)
    BY <1>12 DEF X
  <2>5. PartOf(sX, sH, h, x, Rows, AugCols)
    BY <1>17, <1>25, <2>1, <2>2, <2>4 DEF PartsBelow
  <2> QED
    BY <2>3, <2>5 DEF PartOf
<1>27. sY[Rows] <= sH[AugCols]
  <2>1. Places(y, Rows, AugCols)
    BY <1>1, <1>3 DEF Places
  <2>2. IsSum(sY, Chosen(h, y, Rows), Rows)
    BY <1>13 DEF Y
  <2>3. PartOf(sY, sH, h, y, Rows, AugCols)
    BY <1>4, <1>17, <1>25, <2>1, <2>2 DEF PartsBelow
  <2> QED
    BY <2>3 DEF PartOf
<1> QED
  BY <1>18, <1>19, <1>20, <1>21, <1>22, <1>23, <1>24, <1>26, <1>27

LEMMA OptimalInTheEnd ==
  ASSUME AssignmentAssumption, AssignmentInvariant
  PROVE  Optimal
<1> SUFFICES ASSUME pc = "done"
             PROVE  \E f \in Matchings : /\ matches = Pairs(f)
                                         /\ \A g \in Matchings : Total(f) <= Total(g)
  BY DEF Optimal
<1>1. /\ TypeOK /\ Stages /\ Feasible /\ Tight /\ Prices /\ Placed
      /\ ~ Inserting /\ j0 = 0 /\ (i = Rows + 1 \/ Cols = 0)
  BY DEF AssignmentInvariant, Stages, Inserting
<1>2. CASE Cols = 0
  <2> DEFINE f == [r \in R |-> 0]
  <2>1. f \in Matchings /\ \A g \in Matchings : g = f
    BY <1>2 DEF Matchings
  <2>2. matches = {} /\ Pairs(f) = {}
    BY <1>2 DEF matches, Pairs, C
  <2> HIDE DEF f
  <2>3. Total(f) \in Int
    BY <1>1, <2>1, TotalTyped
  <2>4. \A g \in Matchings : Total(f) <= Total(g)
    BY <2>1, <2>3
  <2> QED
    BY <2>1, <2>2, <2>4
<1>3. CASE i = Rows + 1
  <2>1. Held = Columns /\ Inserted = R
    BY <1>1, <1>3, Shapes DEF Held, Inserted, R
  <2>2. /\ \A c, d \in Columns : p[c] = p[d] /\ p[c] # 0 => c = d
        /\ \A r \in R : \E c \in Columns : p[c] = r
        /\ \A c \in Columns : p[c] # 0 => p[c] \in R
    BY <1>1, <2>1 DEF Placed
  <2> DEFINE x == [r \in R |-> CHOOSE c \in Columns : p[c] = r]
             f == [r \in R |-> IF x[r] \in C /\ Valid(r, x[r]) THEN x[r] ELSE 0]
  <2>3. \A r \in R : x[r] \in Columns /\ p[x[r]] = r
    BY <2>2
  <2> HIDE DEF x
  <2>4. \A c \in Columns : p[c] # 0 => x[p[c]] = c
    BY <2>2, <2>3
  <2>5. \A r \in R : f[r] \in 0..Cols /\ (f[r] # 0 => f[r] = x[r] /\ x[r] \in C /\ Valid(r, f[r]))
    BY Shapes DEF C
  <2>6. f \in Matchings
    <3>1. f \in [R -> 0..Cols]
      BY <2>5
    <3>2. \A q, r \in R : f[q] = f[r] /\ f[q] # 0 => q = r
      BY <2>3, <2>5
    <3> HIDE DEF f
    <3> QED
      BY <2>5, <3>1, <3>2 DEF Matchings
  <2>7. \A r \in R : RowCost(f, r) <= a(r, x[r])
    <3> TAKE r \in R
    <3>1. dummy_cost \in Nat /\ invalid_cost \in Nat /\ dummy_cost <= invalid_cost
      BY DEF AssignmentAssumption, dummy_cost, invalid_cost
    <3>2. a(r, x[r]) \in Nat
      BY <1>1, <2>3, CostsTyped
    <3>3. CASE f[r] # 0
      <4>1. RowCost(f, r) = a(r, x[r])
        BY <2>5, <3>3, Shapes DEF RowCost, a, C
      <4> QED
        BY <3>2, <4>1
    <3>4. CASE f[r] = 0
      <4>1. RowCost(f, r) = dummy_cost
        BY <3>4 DEF RowCost
      <4>2. ~ (x[r] \in C /\ Valid(r, x[r]))
        BY <3>4, Shapes DEF C
      <4>3. x[r] > Cols \/ x[r] \in C
        BY <2>3, Shapes DEF Columns, C
      <4>4. a(r, x[r]) = dummy_cost \/ a(r, x[r]) = invalid_cost
        BY <4>2, <4>3, Shapes DEF a, C
      <4> QED
        BY <3>1, <4>1, <4>4
    <3> QED
      BY <3>3, <3>4
  <2>8. matches = Pairs(f)
    <3>1. ASSUME NEW m \in matches PROVE m \in Pairs(f)
      <4>1. PICK c \in C : p[c] # 0 /\ Valid(p[c], c) /\ m = <<p[c], c>>
        BY DEF matches
      <4>2. c \in Columns
        BY Shapes DEF C, Columns, AugCols
      <4>3. p[c] \in R /\ x[p[c]] = c
        BY <2>2, <2>4, <4>1, <4>2
      <4>4. f[p[c]] = c /\ c # 0
        BY <4>1, <4>3 DEF C
      <4> HIDE DEF f
      <4> QED
        BY <4>1, <4>3, <4>4 DEF Pairs
    <3>2. ASSUME NEW m \in Pairs(f) PROVE m \in matches
      <4>1. PICK r \in R : f[r] # 0 /\ m = <<r, f[r]>>
        BY DEF Pairs
      <4>2. f[r] = x[r] /\ x[r] \in C /\ Valid(r, x[r]) /\ p[x[r]] = r /\ r # 0
        BY <2>3, <2>5, <4>1, Shapes
      <4> HIDE DEF f
      <4> QED
        BY <4>1, <4>2 DEF matches
    <3> QED
      BY <3>1, <3>2
  <2> HIDE DEF f
  <2>9. \A g \in Matchings : Total(f) <= Total(g)
    BY <1>1, <2>3, <2>4, <2>6, <2>7, NoneCheaper
  <2> QED
    BY <2>6, <2>8, <2>9
<1> QED
  BY <1>1, <1>2, <1>3

LEMMA CertificateBetweenInsertions ==
  ASSUME AssignmentAssumption, AssignmentInvariant
  PROVE  DualFeasible
<1> SUFFICES ASSUME pc = "outer", NEW r \in 1..(i - 1), NEW c \in 1..AugCols
             PROVE  /\ u[r] + v[c] <= a(r, c)
                    /\ p[c] = r => u[r] + v[c] = a(r, c)
  BY DEF DualFeasible
<1>1. TypeOK /\ Feasible /\ Tight
  BY DEF AssignmentInvariant
<1>2. r \in R /\ c \in Columns /\ r # 0
  BY <1>1, Shapes DEF TypeOK, R, Columns
<1>3. a(r, c) \in Nat /\ u[r] \in Int /\ v[c] \in Int
  BY <1>1, <1>2, CostsTyped, Shapes DEF TypeOK
<1>4. a(r, c) - u[r] - v[c] >= 0
  BY <1>1, <1>2 DEF Feasible, Reduced
<1>5. p[c] = r => a(r, c) - u[r] - v[c] = 0
  BY <1>1, <1>2 DEF Tight, Reduced
<1> QED
  BY <1>3, <1>4, <1>5

\* The matching returned is the cheapest, for every matrix (Optimal,
\* DualFeasible; assignment.cpp linear_assignment).
THEOREM AssignmentIsOptimal ==
  AssignmentAssumption => (Spec => [](Optimal /\ DualFeasible /\ TypeOK))
<1>1. AssignmentAssumption /\ Init => AssignmentInvariant
  BY InitInvariant
<1>2. AssignmentAssumption /\ AssignmentInvariant /\ [Next]_vars => AssignmentInvariant'
  BY InvariantStep
<1>3. AssignmentAssumption /\ AssignmentInvariant => Optimal /\ DualFeasible /\ TypeOK
  BY OptimalInTheEnd, CertificateBetweenInsertions DEF AssignmentInvariant
<1> SUFFICES ASSUME AssignmentAssumption
             PROVE  Spec => [](Optimal /\ DualFeasible /\ TypeOK)
  OBVIOUS
<1> QED
  BY <1>1, <1>2, <1>3, PTL DEF Spec
=============================================================================
