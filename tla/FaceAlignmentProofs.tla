-------------------------- MODULE FaceAlignmentProofs --------------------------
(***************************************************************************)
(* Theorem about FaceAlignment: for every landmark, every size of error    *)
(* quality() accepts and every pair of templates that are alike, a face    *)
(* that quality() lets through is aligned by both models without a throw,  *)
(* solve4 returns the least squares fit, and dst_to_src inverts it.        *)
(*                                                                         *)
(* The numbers of the model are reduced fractions.  A number is described  *)
(* here by Is(x, n, d): x is the reduced form of n over d.  The argument:  *)
(*   - a reduced fraction is unique (Euclid), so each operation is known   *)
(*     by what it does to numerators over a common denominator;            *)
(*   - the five states of solve4, before and after each column, have a     *)
(*     closed form in the sums over the landmarks (State1 .. State5);      *)
(*   - the largest element of each column is on the diagonal and is not    *)
(*     zero once the eyes are apart, so solve4 does not throw;             *)
(*   - a fit whose error is small is correlated with the template it was   *)
(*     fitted to, and with every template alike (Cauchy and Schwarz), so   *)
(*     the scale that dst_to_src divides by is not zero.                   *)
(***************************************************************************)
EXTENDS FaceAlignment, WellFoundedInduction, TLAPS
-----------------------------------------------------------------------------
(* Euclid's algorithm.                                                     *)

\* A set with every number whose smaller ones it has holds all numbers.
LEMMA StrongInduction ==
  ASSUME NEW S, \A n \in Nat : (\A m \in Nat : m < n => m \in S) => n \in S
  PROVE  Nat \subseteq S
<1>1. IsWellFoundedOn(OpToRel(<, Nat), Nat)
  BY NatLessThanWellFounded
<1> SUFFICES ASSUME Nat \ S # {} PROVE FALSE
  OBVIOUS
<1>2. PICK n \in Nat \ S : \A m \in Nat \ S : ~ (<<m, n>> \in OpToRel(<, Nat))
  BY <1>1, WFMin
<1>3. \A m \in Nat : m < n => m \in S
  <2> SUFFICES ASSUME NEW m \in Nat, m < n, m \notin S PROVE FALSE
    OBVIOUS
  <2>1. <<m, n>> \in OpToRel(<, Nat)
    BY <1>2 DEF OpToRel
  <2> QED
    BY <1>2, <2>1
<1> QED
  BY <1>2, <1>3

\* A common divisor that is a combination of the two numbers.
IsGcd(g, m, n) ==
  /\ g \in Nat
  /\ \E x, y \in Nat : m = g * x /\ n = g * y
  /\ \E s, t \in Int : g = s * m + t * n

\* The first number is one of itself and 0.
LEMMA GcdOfZero == ASSUME NEW m \in Nat PROVE IsGcd(m, m, 0)
<1>1. m = m * 1 /\ 0 = m * 0 /\ m = 1 * m + 0 * 0
  OBVIOUS
<1> QED
  BY <1>1 DEF IsGcd

\* One of the second number and the remainder is one of both numbers.
LEMMA GcdStep ==
  ASSUME NEW m \in Nat, NEW n \in Nat \ {0}, NEW g, IsGcd(g, n, m % n)
  PROVE  IsGcd(g, m, n)
<1> DEFINE q == m \div n
           r == m % n
<1>1. q \in Nat /\ r \in Nat /\ m = n * q + r
  OBVIOUS
<1>2. g \in Nat
  BY DEF IsGcd
<1>3. PICK x \in Nat, y \in Nat : n = g * x /\ r = g * y
  BY DEF IsGcd
<1>4. PICK s \in Int, t \in Int : g = s * n + t * r
  BY DEF IsGcd
<1> HIDE DEF q, r
<1>5. m = g * (x * q + y) /\ x * q + y \in Nat
  BY <1>1, <1>2, <1>3
<1>6. g = t * m + (s - t * q) * n /\ s - t * q \in Int
  BY <1>1, <1>4
<1> QED
  BY <1>2, <1>3, <1>5, <1>6 DEF IsGcd

\* There is at most one.
LEMMA GcdUnique ==
  ASSUME NEW m \in Nat, NEW n \in Nat, NEW g, NEW h, IsGcd(g, m, n), IsGcd(h, m, n)
  PROVE  g = h
<1>1. ASSUME NEW e, NEW f, IsGcd(e, m, n), IsGcd(f, m, n)
      PROVE  \E k \in Int : e = f * k
  <2>1. PICK x \in Nat, y \in Nat : m = f * x /\ n = f * y
    BY <1>1 DEF IsGcd
  <2>2. PICK s \in Int, t \in Int : e = s * m + t * n
    BY <1>1 DEF IsGcd
  <2>3. f \in Nat
    BY <1>1 DEF IsGcd
  <2>4. e = f * (s * x + t * y) /\ s * x + t * y \in Int
    BY <2>1, <2>2, <2>3
  <2> QED
    BY <2>4
<1>2. PICK k \in Int : g = h * k
  BY <1>1
<1>3. PICK l \in Int : h = g * l
  BY <1>1
<1>4. g \in Nat /\ h \in Nat
  BY DEF IsGcd
<1>5. CASE g = 0 \/ h = 0
  BY <1>2, <1>3, <1>4, <1>5
<1>6. CASE g # 0 /\ h # 0
  <2>1. k > 0 /\ l > 0
    BY <1>2, <1>3, <1>4, <1>6
  <2>2. g >= h /\ h >= g
    BY <1>2, <1>3, <1>4, <2>1
  <2> QED
    BY <1>4, <2>2
<1> QED
  BY <1>5, <1>6

\* There is one, because the remainders decrease.
LEMMA GcdExists == \A n \in Nat : \A m \in Nat : \E g : IsGcd(g, m, n)
<1> DEFINE Good == {n \in Nat : \A m \in Nat : \E g : IsGcd(g, m, n)}
<1>1. ASSUME NEW n \in Nat, \A m \in Nat : m < n => m \in Good
      PROVE  n \in Good
  <2> SUFFICES ASSUME NEW m \in Nat PROVE \E g : IsGcd(g, m, n)
    OBVIOUS
  <2>1. CASE n = 0
    BY <2>1, GcdOfZero
  <2>2. CASE n # 0
    <3>1. m % n \in Nat /\ m % n < n
      BY <2>2
    <3>2. PICK g : IsGcd(g, n, m % n)
      BY <1>1, <3>1
    <3> QED
      BY <2>2, <3>2, GcdStep
  <2> QED
    BY <2>1, <2>2
<1>2. Nat \subseteq Good
  <2> HIDE DEF Good
  <2> QED
    BY <1>1, StrongInduction
<1> QED
  BY <1>2

\* What the recursive function of the model is to satisfy.
Euclid(f) == f = [q \in Nat \X Nat |->
                    IF q[2] = 0 THEN q[1] ELSE f[<<q[2], q[1] % q[2]>>]]

\* There is such a function.
LEMMA EuclidExists == \E f : Euclid(f)
<1> DEFINE D(m, n) == CHOOSE g : IsGcd(g, m, n)
           f == [q \in Nat \X Nat |-> D(q[1], q[2])]
<1>1. \A m, n \in Nat : IsGcd(D(m, n), m, n)
  BY GcdExists
<1> HIDE DEF D
<1>2. ASSUME NEW q \in Nat \X Nat
      PROVE  f[q] = IF q[2] = 0 THEN q[1] ELSE f[<<q[2], q[1] % q[2]>>]
  <2>1. PICK m \in Nat, n \in Nat : q = <<m, n>>
    OBVIOUS
  <2>2. q[1] = m /\ q[2] = n
    BY <2>1
  <2>3. f[q] = D(m, n)
    BY <2>2
  <2>4. CASE n = 0
    <3>1. D(m, 0) = m
      BY <1>1, GcdOfZero, GcdUnique
    <3> QED
      BY <2>2, <2>3, <2>4, <3>1
  <2>5. CASE n # 0
    <3>1. m % n \in Nat
      BY <2>5
    <3>2. f[<<n, m % n>>] = D(n, m % n)
      BY <3>1
    <3>3. IsGcd(D(n, m % n), m, n)
      BY <1>1, <2>5, <3>1, GcdStep
    <3>4. D(m, n) = D(n, m % n)
      BY <1>1, <3>3, GcdUnique
    <3> HIDE DEF f
    <3> QED
      BY <2>2, <2>3, <2>5, <3>2, <3>4
  <2> QED
    BY <2>4, <2>5
<1>3. Euclid(f)
  <2> DEFINE g == [q \in Nat \X Nat |->
                     IF q[2] = 0 THEN q[1] ELSE f[<<q[2], q[1] % q[2]>>]]
  <2>1. \A q \in Nat \X Nat : f[q] = g[q]
    <3> HIDE DEF f
    <3> QED
      BY <1>2
  <2>2. f = g
    <3>1. f = [q \in Nat \X Nat |-> f[q]]
      OBVIOUS
    <3>2. g = [q \in Nat \X Nat |-> g[q]]
      OBVIOUS
    <3> HIDE DEF f, g
    <3> QED
      BY <2>1, <3>1, <3>2
  <2> HIDE DEF f
  <2> QED
    BY <2>2 DEF Euclid
<1> QED
  BY <1>3

\* So the function is one, and computes what it is to compute.
LEMMA GcdIs == \A m, n \in Nat : IsGcd(gcd[<<m, n>>], m, n)
<1>1. Euclid(gcd)
  <2>1. gcd = CHOOSE f : Euclid(f)
    BY Zenon DEF gcd, Euclid
  <2> QED
    BY <2>1, EuclidExists
<1>2. ASSUME NEW m \in Nat, NEW n \in Nat
      PROVE  gcd[<<m, n>>] = IF n = 0 THEN m ELSE gcd[<<n, m % n>>]
  <2>1. <<m, n>> \in Nat \X Nat
    OBVIOUS
  <2> QED
    BY <1>1, <2>1 DEF Euclid
<1> DEFINE Good == {n \in Nat : \A m \in Nat : IsGcd(gcd[<<m, n>>], m, n)}
<1>3. ASSUME NEW n \in Nat, \A m \in Nat : m < n => m \in Good
      PROVE  n \in Good
  <2> SUFFICES ASSUME NEW m \in Nat PROVE IsGcd(gcd[<<m, n>>], m, n)
    OBVIOUS
  <2>1. CASE n = 0
    BY <1>2, <2>1, GcdOfZero
  <2>2. CASE n # 0
    <3>1. m % n \in Nat /\ m % n < n
      BY <2>2
    <3>2. IsGcd(gcd[<<n, m % n>>], n, m % n)
      BY <1>3, <3>1
    <3>3. gcd[<<m, n>>] = gcd[<<n, m % n>>]
      BY <1>2, <2>2
    <3> QED
      BY <2>2, <3>2, <3>3, GcdStep
  <2> QED
    BY <2>1, <2>2
<1>4. Nat \subseteq Good
  <2> HIDE DEF Good
  <2> QED
    BY <1>3, StrongInduction
<1> QED
  BY <1>4

-----------------------------------------------------------------------------
(* Fractions: what the operations of the model come to.                    *)

\* A reduced fraction.
Fraction(x) ==
  /\ x = <<x[1], x[2]>> /\ x[1] \in Int /\ x[2] \in Nat \ {0}
  /\ \E s, t \in Int : s * x[1] + t * x[2] = 1

\* The fraction x is n / d.
Is(x, n, d) == Fraction(x) /\ n \in Int /\ d \in Nat \ {0} /\ x[1] * d = n * x[2]

\* Rat reduces.
LEMMA RatIs ==
  ASSUME NEW n \in Int, NEW d \in Nat \ {0}
  PROVE  Is(Rat(n, d), n, d)
<1> DEFINE m == Abs(n)
           g == gcd[<<m, d>>]
<1>1. m \in Nat /\ (n = m \/ n = -m)
  BY DEF Abs
<1>2. Abs(d) = d /\ ~ (d < 0)
  BY DEF Abs
<1>3. IsGcd(g, m, d)
  BY <1>1, GcdIs
<1>4. Rat(n, d) = <<1 * (n \div g), 1 * (d \div g)>>
  BY <1>2 DEF Rat
<1> HIDE DEF g, m
<1>5. PICK x \in Nat, y \in Nat : m = g * x /\ d = g * y
  BY <1>3 DEF IsGcd
<1>6. PICK s \in Int, t \in Int : g = s * m + t * d
  BY <1>3 DEF IsGcd
<1>7. g \in Nat /\ g # 0
  <2>1. g \in Nat
    BY <1>3 DEF IsGcd
  <2> QED
    BY <2>1, <1>5
<1>8. PICK z \in Int : n = g * z /\ (z = x \/ z = -x)
  BY <1>1, <1>5, <1>7
<1>9. n \div g = z /\ d \div g = y
  BY <1>5, <1>7, <1>8
<1>10. Rat(n, d) = <<z, y>>
  BY <1>4, <1>5, <1>8, <1>9
<1>11. y # 0
  BY <1>5, <1>7
<1>12. s * x + t * y = 1
  <2>1. g * (s * x + t * y) = g * 1
    BY <1>5, <1>6, <1>7
  <2> DEFINE e == s * x + t * y
  <2>2. e \in Int
    BY <1>5, <1>6
  <2> HIDE DEF e
  <2>3. e = 1
    BY <2>1, <2>2, <1>7 DEF e
  <2> QED
    BY <2>3 DEF e
<1>13. \E r, q \in Int : r * z + q * y = 1
  <2>1. CASE z = x
    BY <1>12, <2>1, <1>5, <1>6
  <2>2. CASE z = -x
    <3>1. (0 - s) * z + t * y = 1
      BY <1>12, <2>2, <1>5, <1>6, <1>8
    <3>2. 0 - s \in Int /\ t \in Int
      BY <1>6
    <3> QED
      BY <3>1, <3>2
  <2> QED
    BY <1>8, <2>1, <2>2
<1>14. z * d = n * y
  BY <1>5, <1>7, <1>8
<1> QED
  BY <1>5, <1>8, <1>10, <1>11, <1>13, <1>14 DEF Is, Fraction

\* A common denominator or another one.
LEMMA Rescale ==
  ASSUME NEW x, NEW n, NEW d, Is(x, n, d),
         NEW m \in Int, NEW e \in Nat \ {0}, n * e = m * d
  PROVE  Is(x, m, e)
<1>1. n \in Int /\ d \in Nat \ {0} /\ x[1] \in Int /\ x[2] \in Nat \ {0}
      /\ x[1] * d = n * x[2]
  BY DEF Is, Fraction
<1>2. ASSUME NEW a \in Int, NEW c \in Nat \ {0}, a * d = n * c
      PROVE  a * e = m * c
  <2>1. d * (a * e) = d * (m * c)
    BY <1>1, <1>2
  <2> DEFINE l == a * e
             r == m * c
  <2>2. l \in Int /\ r \in Int
    OBVIOUS
  <2> HIDE DEF l, r
  <2>3. d * l = d * r
    BY <2>1 DEF l, r
  <2>4. l = r
    BY <2>2, <2>3, <1>1
  <2> QED
    BY <2>4 DEF l, r
<1> QED
  BY <1>1, <1>2 DEF Is

\* A number is one fraction.
LEMMA IsOne ==
  ASSUME NEW x, NEW y, NEW n, NEW d, Is(x, n, d), Is(y, n, d)
  PROVE  x = y
<1>1. x[1] \in Int /\ x[2] \in Nat \ {0} /\ y[1] \in Int /\ y[2] \in Nat \ {0}
  BY DEF Is, Fraction
<1>2. x[1] * y[2] = y[1] * x[2]
  <2>1. Is(y, x[1], x[2])
    <3>1. n * x[2] = x[1] * d
      BY DEF Is
    <3> QED
      BY <1>1, <3>1, Rescale
  <2> QED
    BY <1>1, <2>1 DEF Is
<1>3. ASSUME NEW a \in Int, NEW c \in Nat \ {0}, NEW e \in Int, NEW f \in Nat \ {0},
             a * f = e * c, \E s, t \in Int : s * a + t * c = 1
      PROVE  \E k \in Int : f = c * k
  <2>1. PICK s \in Int, t \in Int : s * a + t * c = 1
    BY <1>3
  <2>2. f = c * (s * e + t * f)
    <3>1. f = f * (s * a + t * c)
      BY <2>1
    <3>2. f * (s * a + t * c) = s * (a * f) + t * c * f
      BY <2>1
    <3>3. s * (a * f) + t * c * f = s * (e * c) + t * c * f
      BY <1>3
    <3>4. s * (e * c) + t * c * f = c * (s * e + t * f)
      BY <2>1
    <3> QED
      BY <3>1, <3>2, <3>3, <3>4
  <2>3. s * e + t * f \in Int
    BY <2>1
  <2> QED
    BY <2>2, <2>3
<1>4. \E k \in Int : y[2] = x[2] * k
  <2>1. \E s, t \in Int : s * x[1] + t * x[2] = 1
    BY DEF Is, Fraction
  <2> QED
    BY ONLY <1>1, <1>2, <2>1, <1>3
<1>5. \E k \in Int : x[2] = y[2] * k
  <2>1. \E s, t \in Int : s * y[1] + t * y[2] = 1
    BY DEF Is, Fraction
  <2>2. y[1] * x[2] = x[1] * y[2]
    BY <1>2
  <2> QED
    BY ONLY <1>1, <2>2, <2>1, <1>3
<1>6. ASSUME NEW c \in Nat \ {0}, NEW f \in Nat \ {0}, NEW k \in Int, f = c * k
      PROVE  c <= f
  <2>1. k > 0
    BY <1>6
  <2> QED
    BY <1>6, <2>1
<1>7. x[2] = y[2]
  <2>1. x[2] <= y[2]
    BY <1>1, <1>4, <1>6
  <2>2. y[2] <= x[2]
    BY <1>1, <1>5, <1>6
  <2> QED
    BY <1>1, <2>1, <2>2
<1>8. x[1] = y[1]
  <2>1. ASSUME NEW a \in Int, NEW e \in Int, NEW c \in Nat \ {0}, a * c = e * c
        PROVE  a = e
    BY <2>1
  <2> QED
    BY <1>1, <1>2, <1>7, <2>1
<1> QED
  BY <1>7, <1>8 DEF Is, Fraction

\* What a fraction is made of.
LEMMA Parts ==
  ASSUME NEW x, NEW n, NEW d, Is(x, n, d)
  PROVE  n \in Int /\ d \in Nat \ {0} /\ x[1] \in Int /\ x[2] \in Nat \ {0}
         /\ x[1] * d = n * x[2]
BY DEF Is, Fraction

\* A whole number.
LEMMA WholeIs == ASSUME NEW n \in Int PROVE Is(Int2Rat(n), n, 1)
<1>1. 0 * n + 1 * 1 = 1 /\ n * 1 = n * 1
  OBVIOUS
<1>2. Int2Rat(n) = <<n, 1>>
  BY DEF Int2Rat
<1>3. Fraction(<<n, 1>>)
  BY <1>1 DEF Fraction
<1> QED
  BY <1>1, <1>2, <1>3 DEF Is

\* The sum of fractions with one denominator.
LEMMA AddIs ==
  ASSUME NEW x, NEW y, NEW n, NEW m, NEW d, Is(x, n, d), Is(y, m, d)
  PROVE  Is(Add(x, y), n + m, d)
<1> DEFINE x1 == x[1]  x2 == x[2]
           y1 == y[1]  y2 == y[2]
<1>1. n \in Int /\ d \in Nat \ {0} /\ x1 \in Int /\ x2 \in Nat \ {0}
      /\ x1 * d = n * x2
  BY Parts DEF x1, x2
<1>2. m \in Int /\ d \in Nat \ {0} /\ y1 \in Int /\ y2 \in Nat \ {0}
      /\ y1 * d = m * y2
  BY Parts DEF y1, y2
<1> HIDE DEF x1, x2, y1, y2
<1>3. /\ x1 * y2 + y1 * x2 \in Int
      /\ x2 * y2 \in Nat \ {0}
      /\ n + m \in Int /\ d \in Nat \ {0}
      /\ (x1 * y2 + y1 * x2) * d = (n + m) * (x2 * y2)
  BY ONLY <1>1, <1>2
<1>4. Is(Rat(x1 * y2 + y1 * x2, x2 * y2), x1 * y2 + y1 * x2, x2 * y2)
  BY ONLY <1>3, RatIs
<1>5. Is(Rat(x1 * y2 + y1 * x2, x2 * y2), n + m, d)
  BY ONLY <1>3, <1>4, Rescale
<1>6. Add(x, y) = Rat(x1 * y2 + y1 * x2, x2 * y2)
  BY DEF Add, x1, x2, y1, y2
<1> QED
  BY ONLY <1>5, <1>6

\* Their difference.
LEMMA SubIs ==
  ASSUME NEW x, NEW y, NEW n, NEW m, NEW d, Is(x, n, d), Is(y, m, d)
  PROVE  Is(Sub(x, y), n - m, d)
<1> DEFINE x1 == x[1]  x2 == x[2]
           y1 == y[1]  y2 == y[2]
<1>1. n \in Int /\ d \in Nat \ {0} /\ x1 \in Int /\ x2 \in Nat \ {0}
      /\ x1 * d = n * x2
  BY Parts DEF x1, x2
<1>2. m \in Int /\ d \in Nat \ {0} /\ y1 \in Int /\ y2 \in Nat \ {0}
      /\ y1 * d = m * y2
  BY Parts DEF y1, y2
<1> HIDE DEF x1, x2, y1, y2
<1>3. /\ x1 * y2 - y1 * x2 \in Int
      /\ x2 * y2 \in Nat \ {0}
      /\ n - m \in Int /\ d \in Nat \ {0}
      /\ (x1 * y2 - y1 * x2) * d = (n - m) * (x2 * y2)
  BY ONLY <1>1, <1>2
<1>4. Is(Rat(x1 * y2 - y1 * x2, x2 * y2), x1 * y2 - y1 * x2, x2 * y2)
  BY ONLY <1>3, RatIs
<1>5. Is(Rat(x1 * y2 - y1 * x2, x2 * y2), n - m, d)
  BY ONLY <1>3, <1>4, Rescale
<1>6. Sub(x, y) = Rat(x1 * y2 - y1 * x2, x2 * y2)
  BY DEF Sub, x1, x2, y1, y2
<1> QED
  BY ONLY <1>5, <1>6

\* The product.
LEMMA MulIs ==
  ASSUME NEW x, NEW y, NEW n, NEW m, NEW d, NEW e, Is(x, n, d), Is(y, m, e)
  PROVE  Is(Mul(x, y), n * m, d * e)
<1> DEFINE x1 == x[1]  x2 == x[2]
           y1 == y[1]  y2 == y[2]
<1>1. n \in Int /\ d \in Nat \ {0} /\ x1 \in Int /\ x2 \in Nat \ {0}
      /\ x1 * d = n * x2
  BY Parts DEF x1, x2
<1>2. m \in Int /\ e \in Nat \ {0} /\ y1 \in Int /\ y2 \in Nat \ {0}
      /\ y1 * e = m * y2
  BY Parts DEF y1, y2
<1> HIDE DEF x1, x2, y1, y2
<1>3. /\ x1 * y1 \in Int
      /\ x2 * y2 \in Nat \ {0}
      /\ n * m \in Int /\ d * e \in Nat \ {0}
      /\ (x1 * y1) * (d * e) = (n * m) * (x2 * y2)
  BY ONLY <1>1, <1>2
<1>4. Is(Rat(x1 * y1, x2 * y2), x1 * y1, x2 * y2)
  BY ONLY <1>3, RatIs
<1>5. Is(Rat(x1 * y1, x2 * y2), n * m, d * e)
  BY ONLY <1>3, <1>4, Rescale
<1>6. Mul(x, y) = Rat(x1 * y1, x2 * y2)
  BY DEF Mul, x1, x2, y1, y2
<1> QED
  BY ONLY <1>5, <1>6

\* The quotient by a positive number.
LEMMA DivIs ==
  ASSUME NEW x, NEW y, NEW n, NEW m, NEW d, NEW e, Is(x, n, d), Is(y, m, e), m > 0
  PROVE  Is(Div(x, y), n * e, d * m)
<1> DEFINE x1 == x[1]  x2 == x[2]
           y1 == y[1]  y2 == y[2]
<1>1. n \in Int /\ d \in Nat \ {0} /\ x1 \in Int /\ x2 \in Nat \ {0}
      /\ x1 * d = n * x2
  BY Parts DEF x1, x2
<1>2. m \in Int /\ e \in Nat \ {0} /\ y1 \in Int /\ y2 \in Nat \ {0}
      /\ y1 * e = m * y2
  BY Parts DEF y1, y2
<1> HIDE DEF x1, x2, y1, y2
<1>3. /\ x1 * y2 \in Int
      /\ x2 * y1 \in Nat \ {0}
      /\ n * e \in Int /\ d * m \in Nat \ {0}
      /\ (x1 * y2) * (d * m) = (n * e) * (x2 * y1)
  BY ONLY <1>1, <1>2, m > 0
<1>4. Is(Rat(x1 * y2, x2 * y1), x1 * y2, x2 * y1)
  BY ONLY <1>3, RatIs
<1>5. Is(Rat(x1 * y2, x2 * y1), n * e, d * m)
  BY ONLY <1>3, <1>4, Rescale
<1>6. Div(x, y) = Rat(x1 * y2, x2 * y1)
  BY DEF Div, x1, x2, y1, y2
<1> QED
  BY ONLY <1>5, <1>6

\* The opposite.
LEMMA NegIs ==
  ASSUME NEW x, NEW n, NEW d, Is(x, n, d)
  PROVE  Is(Neg(x), 0 - n, d)
<1>1. n \in Int /\ d \in Nat \ {0} /\ x[1] \in Int /\ x[2] \in Nat \ {0}
      /\ x[1] * d = n * x[2]
  BY Parts
<1>2. PICK s \in Int, t \in Int : s * x[1] + t * x[2] = 1
  BY DEF Is, Fraction
<1>3. ASSUME NEW p1 \in Int, NEW p2 \in Nat \ {0}, p1 * d = n * p2, s * p1 + t * p2 = 1
      PROVE  /\ -p1 \in Int /\ 0 - n \in Int /\ (-p1) * d = (0 - n) * p2
             /\ (0 - s) * (-p1) + t * p2 = 1
  BY ONLY <1>1, <1>2, <1>3
<1>4. /\ -x[1] \in Int /\ 0 - n \in Int /\ (-x[1]) * d = (0 - n) * x[2]
      /\ (0 - s) * (-x[1]) + t * x[2] = 1
  BY <1>1, <1>2, <1>3
<1>5. Neg(x) = <<-x[1], x[2]>> /\ Neg(x)[1] = -x[1] /\ Neg(x)[2] = x[2]
  BY DEF Neg
<1>6. \E r, q \in Int : r * (-x[1]) + q * x[2] = 1
  <2>1. 0 - s \in Int /\ t \in Int
    BY <1>2
  <2> QED
    BY <1>4, <2>1
<1> QED
  BY ONLY <1>1, <1>4, <1>5, <1>6 DEF Is, Fraction

-----------------------------------------------------------------------------
(* Elimination, row by row.  The right-hand side is the fifth column.      *)

\* Row r is n / d.
IsRow(M, h, r, n, d) ==
  /\ \A j \in 1..4 : Is(M[r][j], n[j], d)
  /\ Is(h[r], n[5], d)

\* An entry of the pivot row, over the pivot.
LEMMA Scaled ==
  ASSUME NEW z, NEW l, NEW f, NEW w, NEW k, Is(z, l, f), Is(w, k, f), k > 0,
         NEW t \in Int, NEW e \in Nat \ {0}, l * e = t * k
  PROVE  Is(Div(z, w), t, e)
<1>1. l \in Int /\ f \in Nat \ {0} /\ k \in Nat \ {0}
  <2>1. l \in Int /\ f \in Nat \ {0} /\ k \in Int
    BY Parts
  <2> QED
    BY <2>1
<1>2. Is(Div(z, w), l * f, f * k)
  BY DivIs
<1>3. (l * f) * e = t * (f * k)
  <2>1. (l * f) * e = f * (l * e) /\ f * (t * k) = t * (f * k)
    BY ONLY <1>1, t \in Int, e \in Nat \ {0}
  <2> QED
    BY ONLY <2>1, l * e = t * k
<1> QED
  BY ONLY <1>2, <1>3, t \in Int, e \in Nat \ {0}, Rescale

\* An entry of another row.
LEMMA Reduced ==
  ASSUME NEW x, NEW y, NEW n, NEW m, NEW d, Is(x, n, d), Is(y, m, d),
         NEW z, NEW l, NEW f, NEW w, NEW k, Is(z, l, f), Is(w, k, f), k > 0,
         NEW t \in Int, NEW e \in Nat \ {0}, (n * k - m * l) * e = t * (d * k)
  PROVE  Is(Sub(x, Mul(y, Div(z, w))), t, e)
<1>1. l \in Int /\ f \in Nat \ {0} /\ k \in Nat \ {0} /\ n \in Int /\ m \in Int
      /\ d \in Nat \ {0}
  <2>1. l \in Int /\ f \in Nat \ {0} /\ k \in Int
    BY Parts
  <2>2. n \in Int /\ m \in Int /\ d \in Nat \ {0}
    BY Parts
  <2> QED
    BY <2>1, <2>2
<1>2. Is(Div(z, w), l, k)
  BY <1>1, Scaled
<1>3. Is(Mul(y, Div(z, w)), m * l, d * k)
  BY <1>2, MulIs
<1>4. Is(x, n * k, d * k)
  <2>1. n * k \in Int /\ d * k \in Nat \ {0} /\ n * (d * k) = (n * k) * d
    BY ONLY <1>1
  <2> QED
    BY ONLY <2>1, Is(x, n, d), Rescale
<1>5. Is(Sub(x, Mul(y, Div(z, w))), n * k - m * l, d * k)
  BY <1>3, <1>4, SubIs
<1> QED
  BY ONLY <1>5, (n * k - m * l) * e = t * (d * k), t \in Int, e \in Nat \ {0}, Rescale

\* What Eliminated and EliminatedSide put in the pivot row.
LEMMA RowScaled ==
  ASSUME NEW M, NEW h, NEW c \in 1..4, NEW l, NEW f,
         IsRow(M, h, c, l, f), l[c] > 0, \A j \in 1..4 : j < c => l[j] = 0,
         NEW t, NEW e \in Nat \ {0}, \A j \in 1..5 : t[j] \in Int /\ l[j] * e = t[j] * l[c]
  PROVE  IsRow(Eliminated(M, c), EliminatedSide(M, h, c), c, t, e)
<1>1. Is(M[c][c], l[c], f)
  BY DEF IsRow
<1>2. ASSUME NEW j \in 1..4 PROVE Is(Eliminated(M, c)[c][j], t[j], e)
  <2>1. Is(M[c][j], l[j], f)
    BY DEF IsRow
  <2>2. t[j] \in Int /\ l[j] * e = t[j] * l[c]
    OBVIOUS
  <2>3. Eliminated(M, c)[c][j] = IF j < c THEN M[c][j] ELSE Div(M[c][j], M[c][c])
    BY DEF Eliminated, ScaledRow
  <2>4. CASE j < c
    <3>1. l[j] = 0 /\ l[c] \in Int /\ f \in Nat \ {0}
      BY <1>1, <2>4, Parts
    <3>2. t[j] = 0
      BY ONLY <2>2, <3>1, l[c] > 0, e \in Nat \ {0}
    <3>3. Is(M[c][j], 0, e)
      <4>1. Is(M[c][j], 0, f)
        BY <2>1, <3>1
      <4>2. 0 * e = 0 * f
        BY <3>1
      <4> QED
        BY ONLY <4>1, <4>2, e \in Nat \ {0}, Rescale
    <3> QED
      BY <2>3, <2>4, <3>2, <3>3
  <2>5. CASE ~ (j < c)
    <3>1. Is(Div(M[c][j], M[c][c]), t[j], e)
      BY ONLY <1>1, <2>1, <2>2, l[c] > 0, e \in Nat \ {0}, Scaled
    <3> QED
      BY <2>3, <2>5, <3>1
  <2> QED
    BY <2>4, <2>5
<1>3. Is(EliminatedSide(M, h, c)[c], t[5], e)
  <2>1. Is(h[c], l[5], f)
    BY DEF IsRow
  <2>2. t[5] \in Int /\ l[5] * e = t[5] * l[c]
    OBVIOUS
  <2>3. EliminatedSide(M, h, c)[c] = Div(h[c], M[c][c])
    BY DEF EliminatedSide
  <2>4. Is(Div(h[c], M[c][c]), t[5], e)
    BY ONLY <1>1, <2>1, <2>2, l[c] > 0, e \in Nat \ {0}, Scaled
  <2> QED
    BY <2>3, <2>4
<1> QED
  BY <1>2, <1>3 DEF IsRow

\* What they put in another row.
LEMMA RowEliminated ==
  ASSUME NEW M, NEW h, NEW c \in 1..4, NEW r \in 1..4, r # c, NEW n, NEW d, NEW l, NEW f,
         IsRow(M, h, r, n, d), IsRow(M, h, c, l, f),
         l[c] > 0, \A j \in 1..4 : j < c => l[j] = 0,
         NEW t, NEW e \in Nat \ {0},
         \A j \in 1..5 : t[j] \in Int /\ (n[j] * l[c] - n[c] * l[j]) * e = t[j] * (d * l[c])
  PROVE  IsRow(Eliminated(M, c), EliminatedSide(M, h, c), r, t, e)
<1>1. Is(M[c][c], l[c], f) /\ Is(M[r][c], n[c], d)
  BY DEF IsRow
<1>2. ASSUME NEW j \in 1..4 PROVE Is(Eliminated(M, c)[r][j], t[j], e)
  <2>1. Is(M[c][j], l[j], f) /\ Is(M[r][j], n[j], d)
    BY DEF IsRow
  <2>2. t[j] \in Int /\ (n[j] * l[c] - n[c] * l[j]) * e = t[j] * (d * l[c])
    OBVIOUS
  <2>3. Eliminated(M, c)[r][j] = IF j < c THEN M[r][j]
                                 ELSE Sub(M[r][j], Mul(M[r][c], Div(M[c][j], M[c][c])))
    BY DEF Eliminated, ScaledRow
  <2>4. CASE j < c
    <3> DEFINE k == l[c]
               s == n[j]
               g == t[j]
    <3>1. k \in Nat \ {0} /\ s \in Int /\ g \in Int /\ d \in Nat \ {0}
      <4>1. l[c] \in Int
        BY <1>1, Parts
      <4>2. n[j] \in Int /\ d \in Nat \ {0}
        BY <2>1, Parts
      <4> QED
        BY <2>2, <4>1, <4>2
    <3>2. (s * k) * e = g * (d * k)
      <4>1. l[j] = 0 /\ n[c] \in Int
        BY <1>1, <2>4, Parts
      <4>2. n[c] * l[j] = 0
        BY <4>1
      <4>3. s * k \in Int /\ s * k - 0 = s * k
        BY ONLY <3>1
      <4> QED
        BY <2>2, <4>2, <4>3
    <3> HIDE DEF k, s, g
    <3>3. s * e = g * d
      <4>1. k * (s * e) = k * (g * d)
        BY <3>1, <3>2
      <4> DEFINE lhs == s * e
                 rhs == g * d
      <4>2. lhs \in Int /\ rhs \in Int
        BY <3>1
      <4> HIDE DEF lhs, rhs
      <4>3. k * lhs = k * rhs
        BY <4>1 DEF lhs, rhs
      <4>4. lhs = rhs
        BY ONLY <4>2, <4>3, <3>1
      <4> QED
        BY <4>4 DEF lhs, rhs
    <3> USE DEF k, s, g
    <3>4. Is(M[r][j], t[j], e)
      BY ONLY <2>1, <2>2, <3>3, e \in Nat \ {0}, Rescale
    <3> QED
      BY <2>3, <2>4, <3>4
  <2>5. CASE ~ (j < c)
    <3>1. Is(Sub(M[r][j], Mul(M[r][c], Div(M[c][j], M[c][c]))), t[j], e)
      BY ONLY <1>1, <2>1, <2>2, l[c] > 0, e \in Nat \ {0}, Reduced
    <3> QED
      BY <2>3, <2>5, <3>1
  <2> QED
    BY <2>4, <2>5
<1>3. Is(EliminatedSide(M, h, c)[r], t[5], e)
  <2>1. Is(h[c], l[5], f) /\ Is(h[r], n[5], d)
    BY DEF IsRow
  <2>2. t[5] \in Int /\ (n[5] * l[c] - n[c] * l[5]) * e = t[5] * (d * l[c])
    OBVIOUS
  <2>3. EliminatedSide(M, h, c)[r] = Sub(h[r], Mul(M[r][c], Div(h[c], M[c][c])))
    BY DEF EliminatedSide
  <2>4. Is(Sub(h[r], Mul(M[r][c], Div(h[c], M[c][c]))), t[5], e)
    BY ONLY <1>1, <2>1, <2>2, l[c] > 0, e \in Nat \ {0}, Reduced
  <2> QED
    BY <2>3, <2>4
<1> QED
  BY <1>2, <1>3 DEF IsRow

-----------------------------------------------------------------------------
(* The five states of the elimination.  Q is the sum of the squares of the *)
(* coordinates of the landmarks, X and Y are the sums of the coordinates,  *)
(* g1 to g4 the right-hand side; all the rest comes down to these.         *)

Spread(Q, X, Y) == 5 * Q - X * X - Y * Y
Scale(X, Y, g1, g3, g4) == 5 * g1 - X * g3 - Y * g4
Turned(X, Y, g2, g3, g4) == 5 * g2 + Y * g3 - X * g4
MoveX(Q, X, Y, g1, g2, g3) == g3 * Q - X * g1 + Y * g2
MoveY(Q, X, Y, g1, g2, g4) == g4 * Q - Y * g1 - X * g2

State1(M, h, Q, X, Y, g1, g2, g3, g4) ==
  /\ IsRow(M, h, 1, <<Q, 0, X, Y, g1>>, 1)
  /\ IsRow(M, h, 2, <<0, Q, -Y, X, g2>>, 1)
  /\ IsRow(M, h, 3, <<X, -Y, 5, 0, g3>>, 1)
  /\ IsRow(M, h, 4, <<Y, X, 0, 5, g4>>, 1)

State2(M, h, Q, X, Y, g1, g2, g3, g4) ==
  /\ IsRow(M, h, 1, <<Q, 0, X, Y, g1>>, Q)
  /\ IsRow(M, h, 2, <<0, Q, -Y, X, g2>>, 1)
  /\ IsRow(M, h, 3, <<0, -Y * Q, 5 * Q - X * X, -X * Y, g3 * Q - X * g1>>, Q)
  /\ IsRow(M, h, 4, <<0, X * Q, -X * Y, 5 * Q - Y * Y, g4 * Q - Y * g1>>, Q)

State3(M, h, Q, X, Y, g1, g2, g3, g4) ==
  LET d  == Spread(Q, X, Y)
      n3 == MoveX(Q, X, Y, g1, g2, g3)
      n4 == MoveY(Q, X, Y, g1, g2, g4)
  IN  /\ IsRow(M, h, 1, <<Q, 0, X, Y, g1>>, Q)
      /\ IsRow(M, h, 2, <<0, Q, -Y, X, g2>>, Q)
      /\ IsRow(M, h, 3, <<0, 0, d, 0, n3>>, Q)
      /\ IsRow(M, h, 4, <<0, 0, 0, d, n4>>, Q)

State4(M, h, Q, X, Y, g1, g2, g3, g4) ==
  LET d  == Spread(Q, X, Y)
      n3 == MoveX(Q, X, Y, g1, g2, g3)
      n4 == MoveY(Q, X, Y, g1, g2, g4)
  IN  /\ IsRow(M, h, 1, <<Q * d, 0, 0, Y * d, g1 * d - X * n3>>, Q * d)
      /\ IsRow(M, h, 2, <<0, Q * d, 0, X * d, g2 * d + Y * n3>>, Q * d)
      /\ IsRow(M, h, 3, <<0, 0, d, 0, n3>>, d)
      /\ IsRow(M, h, 4, <<0, 0, 0, d, n4>>, Q)

State5(M, h, Q, X, Y, g1, g2, g3, g4) ==
  LET d  == Spread(Q, X, Y)
      n3 == MoveX(Q, X, Y, g1, g2, g3)
      n4 == MoveY(Q, X, Y, g1, g2, g4)
      h1 == Scale(X, Y, g1, g3, g4)
      h2 == Turned(X, Y, g2, g3, g4)
  IN  /\ IsRow(M, h, 1, <<d, 0, 0, 0, h1>>, d)
      /\ IsRow(M, h, 2, <<0, d, 0, 0, h2>>, d)
      /\ IsRow(M, h, 3, <<0, 0, d, 0, n3>>, d)
      /\ IsRow(M, h, 4, <<0, 0, 0, d, n4>>, d)

LEMMA Turn1 ==
  ASSUME NEW M, NEW h, NEW Q \in Nat \ {0}, NEW X \in Int, NEW Y \in Int,
         NEW g1 \in Int, NEW g2 \in Int, NEW g3 \in Int, NEW g4 \in Int,
         Spread(Q, X, Y) > 0, State1(M, h, Q, X, Y, g1, g2, g3, g4)
  PROVE  State2(Eliminated(M, 1), EliminatedSide(M, h, 1), Q, X, Y, g1, g2, g3, g4)
<1> DEFINE d  == Spread(Q, X, Y)
           n3 == MoveX(Q, X, Y, g1, g2, g3)
           n4 == MoveY(Q, X, Y, g1, g2, g4)
           h1 == Scale(X, Y, g1, g3, g4)
           h2 == Turned(X, Y, g2, g3, g4)
           N  == Eliminated(M, 1)
           q  == EliminatedSide(M, h, 1)
<1>1. d = 5 * Q - X * X - Y * Y /\ n3 = g3 * Q - X * g1 + Y * g2
      /\ n4 = g4 * Q - Y * g1 - X * g2 /\ h1 = 5 * g1 - X * g3 - Y * g4
      /\ h2 = 5 * g2 + Y * g3 - X * g4
  BY DEF Spread, MoveX, MoveY, Scale, Turned
<1>2. d \in Nat \ {0} /\ n3 \in Int /\ n4 \in Int /\ h1 \in Int /\ h2 \in Int
  BY <1>1
<1>3. /\ IsRow(M, h, 1, <<Q, 0, X, Y, g1>>, 1)
      /\ IsRow(M, h, 2, <<0, Q, -Y, X, g2>>, 1)
      /\ IsRow(M, h, 3, <<X, -Y, 5, 0, g3>>, 1)
      /\ IsRow(M, h, 4, <<Y, X, 0, 5, g4>>, 1)
  BY DEF State1
<1> HIDE DEF d, n3, n4, h1, h2, N, q
<1>4. IsRow(N, q, 1, <<Q, 0, X, Y, g1>>, Q)
  <2> DEFINE l == <<Q, 0, X, Y, g1>>
             t == <<Q, 0, X, Y, g1>>
  <2>1. /\ Q * Q = Q * Q
        /\ 0 * Q = 0 * Q
        /\ X * Q = X * Q
        /\ Y * Q = Y * Q
        /\ g1 * Q = g1 * Q
    BY <1>1, <1>2
  <2>2. Q \in Int /\ 0 \in Int /\ X \in Int /\ Y \in Int /\ g1 \in Int /\ Q \in Nat \ {0}
    BY <1>1, <1>2
  <2>3. \A j \in 1..5 : t[j] \in Int /\ l[j] * Q = t[j] * l[1]
    BY <2>1, <2>2
  <2>4. l[1] > 0 /\ \A j \in 1..4 : j < 1 => l[j] = 0
    BY <1>2
  <2>5. IsRow(M, h, 1, l, 1)
    BY <1>3
  <2> HIDE DEF l, t
  <2>6. IsRow(N, q, 1, t, Q)
    BY <2>2, <2>3, <2>4, <2>5, RowScaled DEF N, q
  <2> QED
    BY <2>6 DEF t
<1>5. IsRow(N, q, 2, <<0, Q, -Y, X, g2>>, 1)
  <2> DEFINE l == <<Q, 0, X, Y, g1>>
             t == <<0, Q, -Y, X, g2>>
             n == <<0, Q, -Y, X, g2>>
  <2>1. /\ (0 * Q - 0 * Q) * 1 = 0 * (1 * Q)
        /\ (Q * Q - 0 * 0) * 1 = Q * (1 * Q)
        /\ ((-Y) * Q - 0 * X) * 1 = (-Y) * (1 * Q)
        /\ (X * Q - 0 * Y) * 1 = X * (1 * Q)
        /\ (g2 * Q - 0 * g1) * 1 = g2 * (1 * Q)
    BY <1>1, <1>2
  <2>2. 0 \in Int /\ Q \in Int /\ -Y \in Int /\ X \in Int /\ g2 \in Int /\ 1 \in Nat \ {0}
    BY <1>1, <1>2
  <2>3. \A j \in 1..5 : t[j] \in Int /\ (n[j] * l[1] - n[1] * l[j]) * 1 = t[j] * (1 * l[1])
    BY <2>1, <2>2
  <2>4. l[1] > 0 /\ \A j \in 1..4 : j < 1 => l[j] = 0
    BY <1>2
  <2>5. IsRow(M, h, 2, n, 1) /\ IsRow(M, h, 1, l, 1)
    BY <1>3
  <2> HIDE DEF l, t, n
  <2>6. IsRow(N, q, 2, t, 1)
    BY <2>2, <2>3, <2>4, <2>5, RowEliminated DEF N, q
  <2> QED
    BY <2>6 DEF t
<1>6. IsRow(N, q, 3, <<0, -Y * Q, 5 * Q - X * X, -X * Y, g3 * Q - X * g1>>, Q)
  <2> DEFINE l == <<Q, 0, X, Y, g1>>
             t == <<0, -Y * Q, 5 * Q - X * X, -X * Y, g3 * Q - X * g1>>
             n == <<X, -Y, 5, 0, g3>>
  <2>1. /\ (X * Q - X * Q) * Q = 0 * (1 * Q)
        /\ ((-Y) * Q - X * 0) * Q = (-Y * Q) * (1 * Q)
        /\ (5 * Q - X * X) * Q = (5 * Q - X * X) * (1 * Q)
        /\ (0 * Q - X * Y) * Q = (-X * Y) * (1 * Q)
        /\ (g3 * Q - X * g1) * Q = (g3 * Q - X * g1) * (1 * Q)
    BY <1>1, <1>2
  <2>2. 0 \in Int /\ -Y * Q \in Int /\ 5 * Q - X * X \in Int /\ -X * Y \in Int /\ g3 * Q - X * g1 \in Int /\ Q \in Nat \ {0}
    BY <1>1, <1>2
  <2>3. \A j \in 1..5 : t[j] \in Int /\ (n[j] * l[1] - n[1] * l[j]) * Q = t[j] * (1 * l[1])
    BY <2>1, <2>2
  <2>4. l[1] > 0 /\ \A j \in 1..4 : j < 1 => l[j] = 0
    BY <1>2
  <2>5. IsRow(M, h, 3, n, 1) /\ IsRow(M, h, 1, l, 1)
    BY <1>3
  <2> HIDE DEF l, t, n
  <2>6. IsRow(N, q, 3, t, Q)
    BY <2>2, <2>3, <2>4, <2>5, RowEliminated DEF N, q
  <2> QED
    BY <2>6 DEF t
<1>7. IsRow(N, q, 4, <<0, X * Q, -X * Y, 5 * Q - Y * Y, g4 * Q - Y * g1>>, Q)
  <2> DEFINE l == <<Q, 0, X, Y, g1>>
             t == <<0, X * Q, -X * Y, 5 * Q - Y * Y, g4 * Q - Y * g1>>
             n == <<Y, X, 0, 5, g4>>
  <2>1. /\ (Y * Q - Y * Q) * Q = 0 * (1 * Q)
        /\ (X * Q - Y * 0) * Q = (X * Q) * (1 * Q)
        /\ (0 * Q - Y * X) * Q = (-X * Y) * (1 * Q)
        /\ (5 * Q - Y * Y) * Q = (5 * Q - Y * Y) * (1 * Q)
        /\ (g4 * Q - Y * g1) * Q = (g4 * Q - Y * g1) * (1 * Q)
    BY <1>1, <1>2
  <2>2. 0 \in Int /\ X * Q \in Int /\ -X * Y \in Int /\ 5 * Q - Y * Y \in Int /\ g4 * Q - Y * g1 \in Int /\ Q \in Nat \ {0}
    BY <1>1, <1>2
  <2>3. \A j \in 1..5 : t[j] \in Int /\ (n[j] * l[1] - n[1] * l[j]) * Q = t[j] * (1 * l[1])
    BY <2>1, <2>2
  <2>4. l[1] > 0 /\ \A j \in 1..4 : j < 1 => l[j] = 0
    BY <1>2
  <2>5. IsRow(M, h, 4, n, 1) /\ IsRow(M, h, 1, l, 1)
    BY <1>3
  <2> HIDE DEF l, t, n
  <2>6. IsRow(N, q, 4, t, Q)
    BY <2>2, <2>3, <2>4, <2>5, RowEliminated DEF N, q
  <2> QED
    BY <2>6 DEF t
<1> QED
  BY <1>4, <1>5, <1>6, <1>7 DEF State2, N, q, d, n3, n4, h1, h2

LEMMA Turn2 ==
  ASSUME NEW M, NEW h, NEW Q \in Nat \ {0}, NEW X \in Int, NEW Y \in Int,
         NEW g1 \in Int, NEW g2 \in Int, NEW g3 \in Int, NEW g4 \in Int,
         Spread(Q, X, Y) > 0, State2(M, h, Q, X, Y, g1, g2, g3, g4)
  PROVE  State3(Eliminated(M, 2), EliminatedSide(M, h, 2), Q, X, Y, g1, g2, g3, g4)
<1> DEFINE d  == Spread(Q, X, Y)
           n3 == MoveX(Q, X, Y, g1, g2, g3)
           n4 == MoveY(Q, X, Y, g1, g2, g4)
           h1 == Scale(X, Y, g1, g3, g4)
           h2 == Turned(X, Y, g2, g3, g4)
           N  == Eliminated(M, 2)
           q  == EliminatedSide(M, h, 2)
<1>1. d = 5 * Q - X * X - Y * Y /\ n3 = g3 * Q - X * g1 + Y * g2
      /\ n4 = g4 * Q - Y * g1 - X * g2 /\ h1 = 5 * g1 - X * g3 - Y * g4
      /\ h2 = 5 * g2 + Y * g3 - X * g4
  BY DEF Spread, MoveX, MoveY, Scale, Turned
<1>2. d \in Nat \ {0} /\ n3 \in Int /\ n4 \in Int /\ h1 \in Int /\ h2 \in Int
  BY <1>1
<1>3. /\ IsRow(M, h, 1, <<Q, 0, X, Y, g1>>, Q)
      /\ IsRow(M, h, 2, <<0, Q, -Y, X, g2>>, 1)
      /\ IsRow(M, h, 3, <<0, -Y * Q, 5 * Q - X * X, -X * Y, g3 * Q - X * g1>>, Q)
      /\ IsRow(M, h, 4, <<0, X * Q, -X * Y, 5 * Q - Y * Y, g4 * Q - Y * g1>>, Q)
  BY DEF State2
<1> HIDE DEF d, n3, n4, h1, h2, N, q
<1>4. IsRow(N, q, 1, <<Q, 0, X, Y, g1>>, Q)
  <2> DEFINE l == <<0, Q, -Y, X, g2>>
             t == <<Q, 0, X, Y, g1>>
             n == <<Q, 0, X, Y, g1>>
  <2>1. /\ (Q * Q - 0 * 0) * Q = Q * (Q * Q)
        /\ (0 * Q - 0 * Q) * Q = 0 * (Q * Q)
        /\ (X * Q - 0 * (-Y)) * Q = X * (Q * Q)
        /\ (Y * Q - 0 * X) * Q = Y * (Q * Q)
        /\ (g1 * Q - 0 * g2) * Q = g1 * (Q * Q)
    BY <1>1, <1>2
  <2>2. Q \in Int /\ 0 \in Int /\ X \in Int /\ Y \in Int /\ g1 \in Int /\ Q \in Nat \ {0}
    BY <1>1, <1>2
  <2>3. \A j \in 1..5 : t[j] \in Int /\ (n[j] * l[2] - n[2] * l[j]) * Q = t[j] * (Q * l[2])
    BY <2>1, <2>2
  <2>4. l[2] > 0 /\ \A j \in 1..4 : j < 2 => l[j] = 0
    BY <1>2
  <2>5. IsRow(M, h, 1, n, Q) /\ IsRow(M, h, 2, l, 1)
    BY <1>3
  <2> HIDE DEF l, t, n
  <2>6. IsRow(N, q, 1, t, Q)
    BY <2>2, <2>3, <2>4, <2>5, RowEliminated DEF N, q
  <2> QED
    BY <2>6 DEF t
<1>5. IsRow(N, q, 2, <<0, Q, -Y, X, g2>>, Q)
  <2> DEFINE l == <<0, Q, -Y, X, g2>>
             t == <<0, Q, -Y, X, g2>>
  <2>1. /\ 0 * Q = 0 * Q
        /\ Q * Q = Q * Q
        /\ (-Y) * Q = (-Y) * Q
        /\ X * Q = X * Q
        /\ g2 * Q = g2 * Q
    BY <1>1, <1>2
  <2>2. 0 \in Int /\ Q \in Int /\ -Y \in Int /\ X \in Int /\ g2 \in Int /\ Q \in Nat \ {0}
    BY <1>1, <1>2
  <2>3. \A j \in 1..5 : t[j] \in Int /\ l[j] * Q = t[j] * l[2]
    BY <2>1, <2>2
  <2>4. l[2] > 0 /\ \A j \in 1..4 : j < 2 => l[j] = 0
    BY <1>2
  <2>5. IsRow(M, h, 2, l, 1)
    BY <1>3
  <2> HIDE DEF l, t
  <2>6. IsRow(N, q, 2, t, Q)
    BY <2>2, <2>3, <2>4, <2>5, RowScaled DEF N, q
  <2> QED
    BY <2>6 DEF t
<1>6. IsRow(N, q, 3, <<0, 0, d, 0, n3>>, Q)
  <2> DEFINE l == <<0, Q, -Y, X, g2>>
             t == <<0, 0, d, 0, n3>>
             n == <<0, -Y * Q, 5 * Q - X * X, -X * Y, g3 * Q - X * g1>>
  <2>1. /\ (0 * Q - (-Y * Q) * 0) * Q = 0 * (Q * Q)
        /\ ((-Y * Q) * Q - (-Y * Q) * Q) * Q = 0 * (Q * Q)
        /\ ((5 * Q - X * X) * Q - (-Y * Q) * (-Y)) * Q = d * (Q * Q)
        /\ ((-X * Y) * Q - (-Y * Q) * X) * Q = 0 * (Q * Q)
        /\ ((g3 * Q - X * g1) * Q - (-Y * Q) * g2) * Q = n3 * (Q * Q)
    BY <1>1, <1>2
  <2>2. 0 \in Int /\ 0 \in Int /\ d \in Int /\ 0 \in Int /\ n3 \in Int /\ Q \in Nat \ {0}
    BY <1>1, <1>2
  <2>3. \A j \in 1..5 : t[j] \in Int /\ (n[j] * l[2] - n[2] * l[j]) * Q = t[j] * (Q * l[2])
    <3>1. t[1] \in Int /\ (n[1] * l[2] - n[2] * l[1]) * Q = t[1] * (Q * l[2])
      BY <2>1, <2>2
    <3>2. t[2] \in Int /\ (n[2] * l[2] - n[2] * l[2]) * Q = t[2] * (Q * l[2])
      BY <2>1, <2>2
    <3>3. t[3] \in Int /\ (n[3] * l[2] - n[2] * l[3]) * Q = t[3] * (Q * l[2])
      BY <2>1, <2>2
    <3>4. t[4] \in Int /\ (n[4] * l[2] - n[2] * l[4]) * Q = t[4] * (Q * l[2])
      BY <2>1, <2>2
    <3>5. t[5] \in Int /\ (n[5] * l[2] - n[2] * l[5]) * Q = t[5] * (Q * l[2])
      BY <2>1, <2>2
    <3> HIDE DEF l, t, n
    <3> QED
      BY <3>1, <3>2, <3>3, <3>4, <3>5
  <2>4. l[2] > 0 /\ \A j \in 1..4 : j < 2 => l[j] = 0
    BY <1>2
  <2>5. IsRow(M, h, 3, n, Q) /\ IsRow(M, h, 2, l, 1)
    BY <1>3
  <2> HIDE DEF l, t, n
  <2>6. IsRow(N, q, 3, t, Q)
    BY <2>2, <2>3, <2>4, <2>5, RowEliminated DEF N, q
  <2> QED
    BY <2>6 DEF t
<1>7. IsRow(N, q, 4, <<0, 0, 0, d, n4>>, Q)
  <2> DEFINE l == <<0, Q, -Y, X, g2>>
             t == <<0, 0, 0, d, n4>>
             n == <<0, X * Q, -X * Y, 5 * Q - Y * Y, g4 * Q - Y * g1>>
  <2>1. /\ (0 * Q - (X * Q) * 0) * Q = 0 * (Q * Q)
        /\ ((X * Q) * Q - (X * Q) * Q) * Q = 0 * (Q * Q)
        /\ ((-X * Y) * Q - (X * Q) * (-Y)) * Q = 0 * (Q * Q)
        /\ ((5 * Q - Y * Y) * Q - (X * Q) * X) * Q = d * (Q * Q)
        /\ ((g4 * Q - Y * g1) * Q - (X * Q) * g2) * Q = n4 * (Q * Q)
    BY <1>1, <1>2
  <2>2. 0 \in Int /\ 0 \in Int /\ 0 \in Int /\ d \in Int /\ n4 \in Int /\ Q \in Nat \ {0}
    BY <1>1, <1>2
  <2>3. \A j \in 1..5 : t[j] \in Int /\ (n[j] * l[2] - n[2] * l[j]) * Q = t[j] * (Q * l[2])
    <3>1. t[1] \in Int /\ (n[1] * l[2] - n[2] * l[1]) * Q = t[1] * (Q * l[2])
      BY <2>1, <2>2
    <3>2. t[2] \in Int /\ (n[2] * l[2] - n[2] * l[2]) * Q = t[2] * (Q * l[2])
      BY <2>1, <2>2
    <3>3. t[3] \in Int /\ (n[3] * l[2] - n[2] * l[3]) * Q = t[3] * (Q * l[2])
      BY <2>1, <2>2
    <3>4. t[4] \in Int /\ (n[4] * l[2] - n[2] * l[4]) * Q = t[4] * (Q * l[2])
      BY <2>1, <2>2
    <3>5. t[5] \in Int /\ (n[5] * l[2] - n[2] * l[5]) * Q = t[5] * (Q * l[2])
      BY <2>1, <2>2
    <3> HIDE DEF l, t, n
    <3> QED
      BY <3>1, <3>2, <3>3, <3>4, <3>5
  <2>4. l[2] > 0 /\ \A j \in 1..4 : j < 2 => l[j] = 0
    BY <1>2
  <2>5. IsRow(M, h, 4, n, Q) /\ IsRow(M, h, 2, l, 1)
    BY <1>3
  <2> HIDE DEF l, t, n
  <2>6. IsRow(N, q, 4, t, Q)
    BY <2>2, <2>3, <2>4, <2>5, RowEliminated DEF N, q
  <2> QED
    BY <2>6 DEF t
<1> QED
  BY <1>4, <1>5, <1>6, <1>7 DEF State3, N, q, d, n3, n4, h1, h2

LEMMA Turn3 ==
  ASSUME NEW M, NEW h, NEW Q \in Nat \ {0}, NEW X \in Int, NEW Y \in Int,
         NEW g1 \in Int, NEW g2 \in Int, NEW g3 \in Int, NEW g4 \in Int,
         Spread(Q, X, Y) > 0, State3(M, h, Q, X, Y, g1, g2, g3, g4)
  PROVE  State4(Eliminated(M, 3), EliminatedSide(M, h, 3), Q, X, Y, g1, g2, g3, g4)
<1> DEFINE d  == Spread(Q, X, Y)
           n3 == MoveX(Q, X, Y, g1, g2, g3)
           n4 == MoveY(Q, X, Y, g1, g2, g4)
           h1 == Scale(X, Y, g1, g3, g4)
           h2 == Turned(X, Y, g2, g3, g4)
           N  == Eliminated(M, 3)
           q  == EliminatedSide(M, h, 3)
<1>1. d = 5 * Q - X * X - Y * Y /\ n3 = g3 * Q - X * g1 + Y * g2
      /\ n4 = g4 * Q - Y * g1 - X * g2 /\ h1 = 5 * g1 - X * g3 - Y * g4
      /\ h2 = 5 * g2 + Y * g3 - X * g4
  BY DEF Spread, MoveX, MoveY, Scale, Turned
<1>2. d \in Nat \ {0} /\ n3 \in Int /\ n4 \in Int /\ h1 \in Int /\ h2 \in Int
  BY <1>1
<1>3. /\ IsRow(M, h, 1, <<Q, 0, X, Y, g1>>, Q)
      /\ IsRow(M, h, 2, <<0, Q, -Y, X, g2>>, Q)
      /\ IsRow(M, h, 3, <<0, 0, d, 0, n3>>, Q)
      /\ IsRow(M, h, 4, <<0, 0, 0, d, n4>>, Q)
  BY DEF State3
<1> HIDE DEF d, n3, n4, h1, h2, N, q
<1>4. IsRow(N, q, 1, <<Q * d, 0, 0, Y * d, g1 * d - X * n3>>, Q * d)
  <2> DEFINE l == <<0, 0, d, 0, n3>>
             t == <<Q * d, 0, 0, Y * d, g1 * d - X * n3>>
             n == <<Q, 0, X, Y, g1>>
  <2>1. /\ (Q * d - X * 0) * (Q * d) = (Q * d) * (Q * d)
        /\ (0 * d - X * 0) * (Q * d) = 0 * (Q * d)
        /\ (X * d - X * d) * (Q * d) = 0 * (Q * d)
        /\ (Y * d - X * 0) * (Q * d) = (Y * d) * (Q * d)
        /\ (g1 * d - X * n3) * (Q * d) = (g1 * d - X * n3) * (Q * d)
    BY <1>1, <1>2
  <2>2. Q * d \in Int /\ 0 \in Int /\ 0 \in Int /\ Y * d \in Int /\ g1 * d - X * n3 \in Int /\ Q * d \in Nat \ {0}
    BY <1>1, <1>2
  <2>3. \A j \in 1..5 : t[j] \in Int /\ (n[j] * l[3] - n[3] * l[j]) * (Q * d) = t[j] * (Q * l[3])
    BY <2>1, <2>2
  <2>4. l[3] > 0 /\ \A j \in 1..4 : j < 3 => l[j] = 0
    BY <1>2
  <2>5. IsRow(M, h, 1, n, Q) /\ IsRow(M, h, 3, l, Q)
    BY <1>3
  <2> HIDE DEF l, t, n
  <2>6. IsRow(N, q, 1, t, Q * d)
    BY <2>2, <2>3, <2>4, <2>5, RowEliminated DEF N, q
  <2> QED
    BY <2>6 DEF t
<1>5. IsRow(N, q, 2, <<0, Q * d, 0, X * d, g2 * d + Y * n3>>, Q * d)
  <2> DEFINE l == <<0, 0, d, 0, n3>>
             t == <<0, Q * d, 0, X * d, g2 * d + Y * n3>>
             n == <<0, Q, -Y, X, g2>>
  <2>1. /\ (0 * d - (-Y) * 0) * (Q * d) = 0 * (Q * d)
        /\ (Q * d - (-Y) * 0) * (Q * d) = (Q * d) * (Q * d)
        /\ ((-Y) * d - (-Y) * d) * (Q * d) = 0 * (Q * d)
        /\ (X * d - (-Y) * 0) * (Q * d) = (X * d) * (Q * d)
        /\ (g2 * d - (-Y) * n3) * (Q * d) = (g2 * d + Y * n3) * (Q * d)
    BY <1>1, <1>2
  <2>2. 0 \in Int /\ Q * d \in Int /\ 0 \in Int /\ X * d \in Int /\ g2 * d + Y * n3 \in Int /\ Q * d \in Nat \ {0}
    BY <1>1, <1>2
  <2>3. \A j \in 1..5 : t[j] \in Int /\ (n[j] * l[3] - n[3] * l[j]) * (Q * d) = t[j] * (Q * l[3])
    BY <2>1, <2>2
  <2>4. l[3] > 0 /\ \A j \in 1..4 : j < 3 => l[j] = 0
    BY <1>2
  <2>5. IsRow(M, h, 2, n, Q) /\ IsRow(M, h, 3, l, Q)
    BY <1>3
  <2> HIDE DEF l, t, n
  <2>6. IsRow(N, q, 2, t, Q * d)
    BY <2>2, <2>3, <2>4, <2>5, RowEliminated DEF N, q
  <2> QED
    BY <2>6 DEF t
<1>6. IsRow(N, q, 3, <<0, 0, d, 0, n3>>, d)
  <2> DEFINE l == <<0, 0, d, 0, n3>>
             t == <<0, 0, d, 0, n3>>
  <2>1. /\ 0 * d = 0 * d
        /\ 0 * d = 0 * d
        /\ d * d = d * d
        /\ 0 * d = 0 * d
        /\ n3 * d = n3 * d
    BY <1>1, <1>2
  <2>2. 0 \in Int /\ 0 \in Int /\ d \in Int /\ 0 \in Int /\ n3 \in Int /\ d \in Nat \ {0}
    BY <1>1, <1>2
  <2>3. \A j \in 1..5 : t[j] \in Int /\ l[j] * d = t[j] * l[3]
    BY <2>1, <2>2
  <2>4. l[3] > 0 /\ \A j \in 1..4 : j < 3 => l[j] = 0
    BY <1>2
  <2>5. IsRow(M, h, 3, l, Q)
    BY <1>3
  <2> HIDE DEF l, t
  <2>6. IsRow(N, q, 3, t, d)
    BY <2>2, <2>3, <2>4, <2>5, RowScaled DEF N, q
  <2> QED
    BY <2>6 DEF t
<1>7. IsRow(N, q, 4, <<0, 0, 0, d, n4>>, Q)
  <2> DEFINE l == <<0, 0, d, 0, n3>>
             t == <<0, 0, 0, d, n4>>
             n == <<0, 0, 0, d, n4>>
  <2>1. /\ (0 * d - 0 * 0) * Q = 0 * (Q * d)
        /\ (0 * d - 0 * 0) * Q = 0 * (Q * d)
        /\ (0 * d - 0 * d) * Q = 0 * (Q * d)
        /\ (d * d - 0 * 0) * Q = d * (Q * d)
        /\ (n4 * d - 0 * n3) * Q = n4 * (Q * d)
    BY <1>1, <1>2
  <2>2. 0 \in Int /\ 0 \in Int /\ 0 \in Int /\ d \in Int /\ n4 \in Int /\ Q \in Nat \ {0}
    BY <1>1, <1>2
  <2>3. \A j \in 1..5 : t[j] \in Int /\ (n[j] * l[3] - n[3] * l[j]) * Q = t[j] * (Q * l[3])
    BY <2>1, <2>2
  <2>4. l[3] > 0 /\ \A j \in 1..4 : j < 3 => l[j] = 0
    BY <1>2
  <2>5. IsRow(M, h, 4, n, Q) /\ IsRow(M, h, 3, l, Q)
    BY <1>3
  <2> HIDE DEF l, t, n
  <2>6. IsRow(N, q, 4, t, Q)
    BY <2>2, <2>3, <2>4, <2>5, RowEliminated DEF N, q
  <2> QED
    BY <2>6 DEF t
<1> QED
  BY <1>4, <1>5, <1>6, <1>7 DEF State4, N, q, d, n3, n4, h1, h2

LEMMA Turn4 ==
  ASSUME NEW M, NEW h, NEW Q \in Nat \ {0}, NEW X \in Int, NEW Y \in Int,
         NEW g1 \in Int, NEW g2 \in Int, NEW g3 \in Int, NEW g4 \in Int,
         Spread(Q, X, Y) > 0, State4(M, h, Q, X, Y, g1, g2, g3, g4)
  PROVE  State5(Eliminated(M, 4), EliminatedSide(M, h, 4), Q, X, Y, g1, g2, g3, g4)
<1> DEFINE d  == Spread(Q, X, Y)
           n3 == MoveX(Q, X, Y, g1, g2, g3)
           n4 == MoveY(Q, X, Y, g1, g2, g4)
           h1 == Scale(X, Y, g1, g3, g4)
           h2 == Turned(X, Y, g2, g3, g4)
           N  == Eliminated(M, 4)
           q  == EliminatedSide(M, h, 4)
<1>1. d = 5 * Q - X * X - Y * Y /\ n3 = g3 * Q - X * g1 + Y * g2
      /\ n4 = g4 * Q - Y * g1 - X * g2 /\ h1 = 5 * g1 - X * g3 - Y * g4
      /\ h2 = 5 * g2 + Y * g3 - X * g4
  BY DEF Spread, MoveX, MoveY, Scale, Turned
<1>2. d \in Nat \ {0} /\ n3 \in Int /\ n4 \in Int /\ h1 \in Int /\ h2 \in Int
  BY <1>1
<1>3. /\ IsRow(M, h, 1, <<Q * d, 0, 0, Y * d, g1 * d - X * n3>>, Q * d)
      /\ IsRow(M, h, 2, <<0, Q * d, 0, X * d, g2 * d + Y * n3>>, Q * d)
      /\ IsRow(M, h, 3, <<0, 0, d, 0, n3>>, d)
      /\ IsRow(M, h, 4, <<0, 0, 0, d, n4>>, Q)
  BY DEF State4
<1> HIDE DEF d, n3, n4, h1, h2, N, q
<1>4. IsRow(N, q, 1, <<d, 0, 0, 0, h1>>, d)
  <2> DEFINE l == <<0, 0, 0, d, n4>>
             t == <<d, 0, 0, 0, h1>>
             n == <<Q * d, 0, 0, Y * d, g1 * d - X * n3>>
  <2>1. /\ ((Q * d) * d - (Y * d) * 0) * d = d * ((Q * d) * d)
        /\ (0 * d - (Y * d) * 0) * d = 0 * ((Q * d) * d)
        /\ (0 * d - (Y * d) * 0) * d = 0 * ((Q * d) * d)
        /\ ((Y * d) * d - (Y * d) * d) * d = 0 * ((Q * d) * d)
        /\ ((g1 * d - X * n3) * d - (Y * d) * n4) * d = h1 * ((Q * d) * d)
    BY <1>1, <1>2
  <2>2. d \in Int /\ 0 \in Int /\ 0 \in Int /\ 0 \in Int /\ h1 \in Int /\ d \in Nat \ {0}
    BY <1>1, <1>2
  <2>3. \A j \in 1..5 : t[j] \in Int /\ (n[j] * l[4] - n[4] * l[j]) * d = t[j] * ((Q * d) * l[4])
    BY <2>1, <2>2
  <2>4. l[4] > 0 /\ \A j \in 1..4 : j < 4 => l[j] = 0
    BY <1>2
  <2>5. IsRow(M, h, 1, n, Q * d) /\ IsRow(M, h, 4, l, Q)
    BY <1>3
  <2> HIDE DEF l, t, n
  <2>6. IsRow(N, q, 1, t, d)
    BY ONLY <2>2, <2>3, <2>4, <2>5, RowEliminated DEF N, q
  <2> QED
    BY <2>6 DEF t
<1>5. IsRow(N, q, 2, <<0, d, 0, 0, h2>>, d)
  <2> DEFINE l == <<0, 0, 0, d, n4>>
             t == <<0, d, 0, 0, h2>>
             n == <<0, Q * d, 0, X * d, g2 * d + Y * n3>>
  <2>1. /\ (0 * d - (X * d) * 0) * d = 0 * ((Q * d) * d)
        /\ ((Q * d) * d - (X * d) * 0) * d = d * ((Q * d) * d)
        /\ (0 * d - (X * d) * 0) * d = 0 * ((Q * d) * d)
        /\ ((X * d) * d - (X * d) * d) * d = 0 * ((Q * d) * d)
        /\ ((g2 * d + Y * n3) * d - (X * d) * n4) * d = h2 * ((Q * d) * d)
    BY <1>1, <1>2
  <2>2. 0 \in Int /\ d \in Int /\ 0 \in Int /\ 0 \in Int /\ h2 \in Int /\ d \in Nat \ {0}
    BY <1>1, <1>2
  <2>3. \A j \in 1..5 : t[j] \in Int /\ (n[j] * l[4] - n[4] * l[j]) * d = t[j] * ((Q * d) * l[4])
    BY <2>1, <2>2
  <2>4. l[4] > 0 /\ \A j \in 1..4 : j < 4 => l[j] = 0
    BY <1>2
  <2>5. IsRow(M, h, 2, n, Q * d) /\ IsRow(M, h, 4, l, Q)
    BY <1>3
  <2> HIDE DEF l, t, n
  <2>6. IsRow(N, q, 2, t, d)
    BY ONLY <2>2, <2>3, <2>4, <2>5, RowEliminated DEF N, q
  <2> QED
    BY <2>6 DEF t
<1>6. IsRow(N, q, 3, <<0, 0, d, 0, n3>>, d)
  <2> DEFINE l == <<0, 0, 0, d, n4>>
             t == <<0, 0, d, 0, n3>>
             n == <<0, 0, d, 0, n3>>
  <2>1. /\ (0 * d - 0 * 0) * d = 0 * (d * d)
        /\ (0 * d - 0 * 0) * d = 0 * (d * d)
        /\ (d * d - 0 * 0) * d = d * (d * d)
        /\ (0 * d - 0 * d) * d = 0 * (d * d)
        /\ (n3 * d - 0 * n4) * d = n3 * (d * d)
    BY <1>1, <1>2
  <2>2. 0 \in Int /\ 0 \in Int /\ d \in Int /\ 0 \in Int /\ n3 \in Int /\ d \in Nat \ {0}
    BY <1>1, <1>2
  <2>3. \A j \in 1..5 : t[j] \in Int /\ (n[j] * l[4] - n[4] * l[j]) * d = t[j] * (d * l[4])
    BY <2>1, <2>2
  <2>4. l[4] > 0 /\ \A j \in 1..4 : j < 4 => l[j] = 0
    BY <1>2
  <2>5. IsRow(M, h, 3, n, d) /\ IsRow(M, h, 4, l, Q)
    BY <1>3
  <2> HIDE DEF l, t, n
  <2>6. IsRow(N, q, 3, t, d)
    BY ONLY <2>2, <2>3, <2>4, <2>5, RowEliminated DEF N, q
  <2> QED
    BY <2>6 DEF t
<1>7. IsRow(N, q, 4, <<0, 0, 0, d, n4>>, d)
  <2> DEFINE l == <<0, 0, 0, d, n4>>
             t == <<0, 0, 0, d, n4>>
  <2>1. /\ 0 * d = 0 * d
        /\ 0 * d = 0 * d
        /\ 0 * d = 0 * d
        /\ d * d = d * d
        /\ n4 * d = n4 * d
    BY <1>1, <1>2
  <2>2. 0 \in Int /\ 0 \in Int /\ 0 \in Int /\ d \in Int /\ n4 \in Int /\ d \in Nat \ {0}
    BY <1>1, <1>2
  <2>3. \A j \in 1..5 : t[j] \in Int /\ l[j] * d = t[j] * l[4]
    BY <2>1, <2>2
  <2>4. l[4] > 0 /\ \A j \in 1..4 : j < 4 => l[j] = 0
    BY <1>2
  <2>5. IsRow(M, h, 4, l, Q)
    BY <1>3
  <2> HIDE DEF l, t
  <2>6. IsRow(N, q, 4, t, d)
    BY <2>2, <2>3, <2>4, <2>5, RowScaled DEF N, q
  <2> QED
    BY <2>6 DEF t
<1> QED
  BY <1>4, <1>5, <1>6, <1>7 DEF State5, N, q, d, n3, n4, h1, h2


-----------------------------------------------------------------------------
(* The pivot: with coordinates that are whole numbers the largest element  *)
(* is on the diagonal, so no rows are exchanged.                           *)

\* A larger numerator is a larger number.
LEMMA NotLarger ==
  ASSUME NEW x, NEW y, NEW n, NEW m, NEW d, Is(x, n, d), Is(y, m, d), Abs(n) <= Abs(m)
  PROVE  ~ Larger(x, y)
<1> DEFINE x1 == x[1]  x2 == x[2]
           y1 == y[1]  y2 == y[2]
<1>1. n \in Int /\ d \in Nat \ {0} /\ x1 \in Int /\ x2 \in Nat \ {0}
      /\ x1 * d = n * x2
  BY Parts DEF x1, x2
<1>2. m \in Int /\ d \in Nat \ {0} /\ y1 \in Int /\ y2 \in Nat \ {0}
      /\ y1 * d = m * y2
  BY Parts DEF y1, y2
<1> HIDE DEF x1, x2, y1, y2
<1>3. ASSUME NEW e \in Int, NEW f \in Int, NEW c \in Nat \ {0}, e * d = f * c
      PROVE  Abs(e) \in Nat /\ Abs(f) \in Nat /\ Abs(e) * d = Abs(f) * c
  <2>1. (e < 0) <=> (f < 0)
    BY ONLY <1>1, <1>3
  <2>2. CASE e < 0
    <3>1. Abs(e) = -e /\ Abs(f) = -f
      BY <2>1, <2>2 DEF Abs
    <3>2. (-e) * d = (-f) * c
      BY ONLY <1>1, <1>3
    <3> QED
      BY <2>1, <2>2, <3>1, <3>2
  <2>3. CASE ~ (e < 0)
    BY <1>3, <2>1, <2>3 DEF Abs
  <2> QED
    BY <2>2, <2>3
<1>4. Abs(x1) \in Nat /\ Abs(n) \in Nat /\ Abs(x1) * d = Abs(n) * x2
  BY ONLY <1>1, <1>3
<1>5. Abs(y1) \in Nat /\ Abs(m) \in Nat /\ Abs(y1) * d = Abs(m) * y2
  BY ONLY <1>2, <1>3
<1>6. ASSUME NEW p \in Nat, NEW q \in Nat, NEW s \in Nat, NEW t \in Nat,
             p * d = s * x2, q * d = t * y2, s <= t
      PROVE  ~ (p * y2 > q * x2)
  <2>1. (p * y2) * d = s * (x2 * y2) /\ (q * x2) * d = t * (x2 * y2)
    BY ONLY <1>1, <1>2, <1>6
  <2>2. s * (x2 * y2) <= t * (x2 * y2)
    <3>1. x2 * y2 \in Nat
      BY ONLY <1>1, <1>2
    <3> DEFINE k == x2 * y2
    <3> HIDE DEF k
    <3>2. s * k <= t * k
      BY <3>1, <1>6 DEF k
    <3> QED
      BY <3>2 DEF k
  <2> DEFINE lhs == p * y2
             rhs == q * x2
  <2>3. lhs \in Nat /\ rhs \in Nat
    BY ONLY <1>1, <1>2, <1>6
  <2>4. lhs * d <= rhs * d
    BY <2>1, <2>2
  <2> HIDE DEF lhs, rhs
  <2>5. lhs <= rhs
    BY ONLY <2>3, <2>4, <1>1
  <2>6. ~ (lhs > rhs)
    BY ONLY <2>3, <2>5
  <2> QED
    BY <2>6 DEF lhs, rhs
<1>7. ~ (Abs(x1) * y2 > Abs(y1) * x2)
  BY <1>4, <1>5, <1>6
<1> QED
  BY <1>7 DEF Larger, x1, x2, y1, y2

\* A number is zero when its numerator is.
LEMMA ZeroWhen ==
  ASSUME NEW x, NEW n, NEW d, Is(x, n, d)
  PROVE  x[1] = 0 <=> n = 0
<1> DEFINE x1 == x[1]  x2 == x[2]
<1>1. n \in Int /\ d \in Nat \ {0} /\ x1 \in Int /\ x2 \in Nat \ {0}
      /\ x1 * d = n * x2
  BY Parts DEF x1, x2
<1> HIDE DEF x1, x2
<1>2. x1 = 0 <=> n = 0
  BY ONLY <1>1
<1> QED
  BY <1>2 DEF x1

\* The diagonal is the pivot when nothing below it is larger.
LEMMA PivotOnDiagonal ==
  ASSUME NEW M, NEW c \in 1..4, \A q \in c..4 : ~ Larger(M[q][c], M[c][c])
  PROVE  Pivot(M, c) = c
<1> DEFINE First(r) == \A q \in c..4 :
                         ~ Larger(M[q][c], M[r][c]) /\ (q < r => Larger(M[r][c], M[q][c]))
<1>1. c \in c..4 /\ First(c)
  OBVIOUS
<1>2. ASSUME NEW r \in c..4, First(r) PROVE r = c
  <2>1. c < r => Larger(M[r][c], M[c][c])
    BY <1>1, <1>2
  <2>2. ~ (c < r)
    BY <2>1
  <2> QED
    BY <2>2
<1>3. Pivot(M, c) = CHOOSE r \in c..4 : First(r)
  BY DEF Pivot
<1> HIDE DEF First
<1> QED
  BY <1>1, <1>2, <1>3

\* The coordinates of the landmarks and their squares, as the states use them.
Sizes(Q, X, Y) == Abs(X) <= Q /\ Abs(Y) <= Q /\ Spread(Q, X, Y) > 0

LEMMA Pivot1 ==
  ASSUME NEW M, NEW h, NEW Q \in Nat \ {0}, NEW X \in Int, NEW Y \in Int,
         NEW g1 \in Int, NEW g2 \in Int, NEW g3 \in Int, NEW g4 \in Int,
         Sizes(Q, X, Y), State1(M, h, Q, X, Y, g1, g2, g3, g4)
  PROVE  Pivot(M, 1) = 1 /\ M[1][1][1] # 0
<1>1. Is(M[1][1], Q, 1) /\ Is(M[2][1], 0, 1) /\ Is(M[3][1], X, 1) /\ Is(M[4][1], Y, 1)
  BY DEF State1, IsRow
<1>2. Abs(Q) = Q /\ Abs(0) = 0 /\ Abs(X) <= Q /\ Abs(Y) <= Q
  BY DEF Abs, Sizes
<1>3. ~ Larger(M[1][1], M[1][1]) /\ ~ Larger(M[2][1], M[1][1])
  BY <1>1, <1>2, NotLarger
<1>4. ~ Larger(M[3][1], M[1][1]) /\ ~ Larger(M[4][1], M[1][1])
  BY <1>1, <1>2, NotLarger
<1>5. Pivot(M, 1) = 1
  <2>1. \A q \in 1..4 : ~ Larger(M[q][1], M[1][1])
    BY <1>3, <1>4
  <2> QED
    BY <2>1, PivotOnDiagonal
<1> QED
  BY <1>1, <1>5, ZeroWhen

LEMMA Pivot2 ==
  ASSUME NEW M, NEW h, NEW Q \in Nat \ {0}, NEW X \in Int, NEW Y \in Int,
         NEW g1 \in Int, NEW g2 \in Int, NEW g3 \in Int, NEW g4 \in Int,
         Sizes(Q, X, Y), State2(M, h, Q, X, Y, g1, g2, g3, g4)
  PROVE  Pivot(M, 2) = 2 /\ M[2][2][1] # 0
<1>1. Is(M[2][2], Q, 1) /\ Is(M[3][2], -Y * Q, Q) /\ Is(M[4][2], X * Q, Q)
  BY DEF State2, IsRow
<1>2. Is(M[3][2], -Y, 1) /\ Is(M[4][2], X, 1)
  <2>1. -Y \in Int /\ 1 \in Nat \ {0} /\ (-Y * Q) * 1 = (-Y) * Q /\ (X * Q) * 1 = X * Q
    OBVIOUS
  <2> QED
    BY <1>1, <2>1, Rescale
<1>3. Abs(Q) = Q /\ Abs(-Y) <= Q /\ Abs(X) <= Q
  BY DEF Abs, Sizes
<1>4. ~ Larger(M[2][2], M[2][2]) /\ ~ Larger(M[3][2], M[2][2])
  BY <1>1, <1>2, <1>3, NotLarger
<1>5. ~ Larger(M[4][2], M[2][2])
  BY <1>1, <1>2, <1>3, NotLarger
<1>6. Pivot(M, 2) = 2
  <2>1. \A q \in 2..4 : ~ Larger(M[q][2], M[2][2])
    BY <1>4, <1>5
  <2> QED
    BY <2>1, PivotOnDiagonal
<1> QED
  BY <1>1, <1>6, ZeroWhen

LEMMA Pivot3 ==
  ASSUME NEW M, NEW h, NEW Q \in Nat \ {0}, NEW X \in Int, NEW Y \in Int,
         NEW g1 \in Int, NEW g2 \in Int, NEW g3 \in Int, NEW g4 \in Int,
         Sizes(Q, X, Y), State3(M, h, Q, X, Y, g1, g2, g3, g4)
  PROVE  Pivot(M, 3) = 3 /\ M[3][3][1] # 0
<1>1. Is(M[3][3], Spread(Q, X, Y), Q) /\ Is(M[4][3], 0, Q)
  BY DEF State3, IsRow
<1>2. Spread(Q, X, Y) > 0 /\ Spread(Q, X, Y) \in Int
  BY DEF Sizes, Spread
<1> HIDE DEF Spread
<1>3. Abs(Spread(Q, X, Y)) = Spread(Q, X, Y) /\ Abs(0) = 0
  BY <1>2 DEF Abs
<1>4. ~ Larger(M[3][3], M[3][3]) /\ ~ Larger(M[4][3], M[3][3])
  BY <1>1, <1>2, <1>3, NotLarger
<1>5. Pivot(M, 3) = 3
  <2>1. \A q \in 3..4 : ~ Larger(M[q][3], M[3][3])
    BY <1>4
  <2> QED
    BY <2>1, PivotOnDiagonal
<1> QED
  BY <1>1, <1>2, <1>5, ZeroWhen

LEMMA Pivot4 ==
  ASSUME NEW M, NEW h, NEW Q \in Nat \ {0}, NEW X \in Int, NEW Y \in Int,
         NEW g1 \in Int, NEW g2 \in Int, NEW g3 \in Int, NEW g4 \in Int,
         Sizes(Q, X, Y), State4(M, h, Q, X, Y, g1, g2, g3, g4)
  PROVE  Pivot(M, 4) = 4 /\ M[4][4][1] # 0
<1>1. Is(M[4][4], Spread(Q, X, Y), Q)
  BY DEF State4, IsRow
<1>2. Spread(Q, X, Y) > 0 /\ Spread(Q, X, Y) \in Int
  BY DEF Sizes, Spread
<1>3. ~ Larger(M[4][4], M[4][4])
  <2>1. Abs(Spread(Q, X, Y)) = Spread(Q, X, Y)
    BY <1>2 DEF Abs
  <2> QED
    BY <1>1, <1>2, <2>1, NotLarger
<1>4. Pivot(M, 4) = 4
  <2>1. \A q \in 4..4 : ~ Larger(M[q][4], M[4][4])
    BY <1>3
  <2> QED
    BY <2>1, PivotOnDiagonal
<1> QED
  BY <1>1, <1>2, <1>4, ZeroWhen

-----------------------------------------------------------------------------
(* The normal equations of five landmarks.                                 *)

Squares(lm) == Sum([k \in 1..5 |-> lm[k][1] * lm[k][1] + lm[k][2] * lm[k][2]])
SumX(lm) == Sum([k \in 1..5 |-> lm[k][1]])
SumY(lm) == Sum([k \in 1..5 |-> lm[k][2]])
Side1(lm, dst) == Sum([k \in 1..5 |-> lm[k][1] * dst[k][1] + lm[k][2] * dst[k][2]])
Side2(lm, dst) == Sum([k \in 1..5 |-> lm[k][1] * dst[k][2] - lm[k][2] * dst[k][1]])
Side3(dst) == Sum([k \in 1..5 |-> dst[k][1]])
Side4(dst) == Sum([k \in 1..5 |-> dst[k][2]])

Five == [1..5 -> Int \X Int]

\* Two sums with the same terms.
LEMMA SameSum ==
  ASSUME NEW f, NEW g, \A k \in 1..5 : f[k] = g[k]
  PROVE  Sum(f) = Sum(g)
BY DEF Sum

LEMMA SumsAreWhole ==
  ASSUME NEW lm \in Five, NEW dst \in Five
  PROVE  /\ Squares(lm) \in Nat /\ SumX(lm) \in Int /\ SumY(lm) \in Int
         /\ Side1(lm, dst) \in Int /\ Side2(lm, dst) \in Int
         /\ Side3(dst) \in Int /\ Side4(dst) \in Int
<1>1. \A k \in 1..5 : lm[k][1] \in Int /\ lm[k][2] \in Int
                      /\ dst[k][1] \in Int /\ dst[k][2] \in Int
  BY DEF Five
<1>2. ASSUME NEW f, \A k \in 1..5 : f[k] \in Int PROVE Sum(f) \in Int
  BY <1>2 DEF Sum
<1>3. ASSUME NEW f, \A k \in 1..5 : f[k] \in Nat PROVE Sum(f) \in Nat
  BY <1>3 DEF Sum
<1>4. Squares(lm) \in Nat
  <2>1. ASSUME NEW x \in Int, NEW y \in Int PROVE x * x + y * y \in Nat
    OBVIOUS
  <2> DEFINE f == [k \in 1..5 |-> lm[k][1] * lm[k][1] + lm[k][2] * lm[k][2]]
  <2>2. \A k \in 1..5 : f[k] \in Nat
    BY <1>1, <2>1
  <2> HIDE DEF f
  <2>3. Sum(f) \in Nat
    BY <1>3, <2>2
  <2> QED
    BY <2>3 DEF Squares, f
<1>5. SumX(lm) \in Int /\ SumY(lm) \in Int
  BY <1>1 DEF SumX, SumY, Sum
<1>6. Side3(dst) \in Int /\ Side4(dst) \in Int
  BY <1>1 DEF Side3, Side4, Sum
<1>7. Side1(lm, dst) \in Int
  <2> DEFINE f == [k \in 1..5 |-> lm[k][1] * dst[k][1] + lm[k][2] * dst[k][2]]
  <2>1. \A k \in 1..5 : f[k] \in Int
    BY <1>1
  <2> HIDE DEF f
  <2>2. Sum(f) \in Int
    BY <1>2, <2>1
  <2> QED
    BY <2>2 DEF Side1, f
<1>8. Side2(lm, dst) \in Int
  <2> DEFINE f == [k \in 1..5 |-> lm[k][1] * dst[k][2] - lm[k][2] * dst[k][1]]
  <2>1. \A k \in 1..5 : f[k] \in Int
    BY <1>1
  <2> HIDE DEF f
  <2>2. Sum(f) \in Int
    BY <1>2, <2>1
  <2> QED
    BY <2>2 DEF Side2, f
<1> QED
  BY <1>4, <1>5, <1>6, <1>7, <1>8

\* The matrix that Enter sets up.
LEMMA MatrixIs ==
  ASSUME NEW lm \in Five
  PROVE  LET Q == Squares(lm)  X == SumX(lm)  Y == SumY(lm)
             N == Ata(lm)
         IN  /\ N[1][1] = Int2Rat(Q) /\ N[1][2] = Int2Rat(0)
             /\ N[1][3] = Int2Rat(X) /\ N[1][4] = Int2Rat(Y)
             /\ N[2][1] = Int2Rat(0) /\ N[2][2] = Int2Rat(Q)
             /\ N[2][3] = Int2Rat(-Y) /\ N[2][4] = Int2Rat(X)
             /\ N[3][1] = Int2Rat(X) /\ N[3][2] = Int2Rat(-Y)
             /\ N[3][3] = Int2Rat(5) /\ N[3][4] = Int2Rat(0)
             /\ N[4][1] = Int2Rat(Y) /\ N[4][2] = Int2Rat(X)
             /\ N[4][3] = Int2Rat(0) /\ N[4][4] = Int2Rat(5)
<1> DEFINE Term(r, c, k) == RowU(lm[k])[r] * RowU(lm[k])[c]
                            + RowV(lm[k])[r] * RowV(lm[k])[c]
           Total(r, c) == Sum([k \in 1..5 |-> Term(r, c, k)])
<1>1. \A r, c \in 1..4 : Ata(lm)[r][c] = Int2Rat(Total(r, c))
  BY DEF Ata
<1>2. \A k \in 1..5 : lm[k][1] \in Int /\ lm[k][2] \in Int
  BY DEF Five
<1>3. ASSUME NEW k \in 1..5
      PROVE  LET x == lm[k][1]  y == lm[k][2]
             IN  /\ Term(1, 1, k) = x * x + y * y /\ Term(1, 2, k) = 0
                 /\ Term(1, 3, k) = x /\ Term(1, 4, k) = y
                 /\ Term(2, 1, k) = 0 /\ Term(2, 2, k) = x * x + y * y
                 /\ Term(2, 3, k) = -y /\ Term(2, 4, k) = x
                 /\ Term(3, 1, k) = x /\ Term(3, 2, k) = -y
                 /\ Term(3, 3, k) = 1 /\ Term(3, 4, k) = 0
                 /\ Term(4, 1, k) = y /\ Term(4, 2, k) = x
                 /\ Term(4, 3, k) = 0 /\ Term(4, 4, k) = 1
  <2> DEFINE x == lm[k][1]
             y == lm[k][2]
  <2>1. RowU(lm[k]) = <<x, -y, 1, 0>> /\ RowV(lm[k]) = <<y, x, 0, 1>>
    BY DEF RowU, RowV
  <2>2. x \in Int /\ y \in Int
    BY <1>2
  <2> HIDE DEF x, y
  <2>3. /\ Term(1, 1, k) = x * x + y * y /\ Term(1, 2, k) = 0
        /\ Term(1, 3, k) = x /\ Term(1, 4, k) = y
    BY <2>1, <2>2
  <2>4. /\ Term(2, 1, k) = 0 /\ Term(2, 2, k) = x * x + y * y
        /\ Term(2, 3, k) = -y /\ Term(2, 4, k) = x
    BY <2>1, <2>2
  <2>5. /\ Term(3, 1, k) = x /\ Term(3, 2, k) = -y
        /\ Term(3, 3, k) = 1 /\ Term(3, 4, k) = 0
    BY <2>1, <2>2
  <2>6. /\ Term(4, 1, k) = y /\ Term(4, 2, k) = x
        /\ Term(4, 3, k) = 0 /\ Term(4, 4, k) = 1
    BY <2>1, <2>2
  <2> QED
    BY <2>3, <2>4, <2>5, <2>6 DEF x, y
<1> DEFINE Q == Squares(lm)
           X == SumX(lm)
           Y == SumY(lm)
<1> HIDE DEF Term
<1>4. Total(1, 1) = Q /\ Total(2, 2) = Q
  BY <1>3 DEF Squares, Sum
<1>5. Total(1, 3) = X /\ Total(3, 1) = X /\ Total(2, 4) = X /\ Total(4, 2) = X
  BY <1>3 DEF SumX, Sum
<1>6. Total(1, 4) = Y /\ Total(4, 1) = Y
  BY <1>3 DEF SumY, Sum
<1>7. Total(2, 3) = -Y /\ Total(3, 2) = -Y
  <2> DEFINE y(k) == lm[k][2]
  <2>1. \A k \in 1..5 : y(k) \in Int /\ Term(2, 3, k) = -y(k) /\ Term(3, 2, k) = -y(k)
    BY <1>2, <1>3
  <2>2. Y = y(1) + y(2) + y(3) + y(4) + y(5)
    BY DEF SumY, Sum
  <2> HIDE DEF y
  <2>3. -Y = -y(1) + -y(2) + -y(3) + -y(4) + -y(5)
    <3> HIDE DEF Y
    <3> QED
      BY <2>1, <2>2
  <2> QED
    BY <2>1, <2>3 DEF Sum
<1>8. Total(1, 2) = 0 /\ Total(2, 1) = 0 /\ Total(3, 4) = 0 /\ Total(4, 3) = 0
  BY <1>3 DEF Sum
<1>9. Total(3, 3) = 5 /\ Total(4, 4) = 5
  BY <1>3 DEF Sum
<1> HIDE DEF Total, Q, X, Y
<1> QED
  BY <1>1, <1>4, <1>5, <1>6, <1>7, <1>8, <1>9 DEF Q, X, Y

\* And the right-hand side.
LEMMA SideIs ==
  ASSUME NEW lm \in Five, NEW dst \in Five
  PROVE  /\ Atb(lm, dst)[1] = Int2Rat(Side1(lm, dst))
         /\ Atb(lm, dst)[2] = Int2Rat(Side2(lm, dst))
         /\ Atb(lm, dst)[3] = Int2Rat(Side3(dst))
         /\ Atb(lm, dst)[4] = Int2Rat(Side4(dst))
<1> DEFINE Term(r, k) == RowU(lm[k])[r] * dst[k][1] + RowV(lm[k])[r] * dst[k][2]
           Total(r) == Sum([k \in 1..5 |-> Term(r, k)])
<1>1. \A r \in 1..4 : Atb(lm, dst)[r] = Int2Rat(Total(r))
  BY DEF Atb
<1>2. ASSUME NEW k \in 1..5
      PROVE  LET x == lm[k][1]  y == lm[k][2]
                 s == dst[k][1]  t == dst[k][2]
             IN  /\ Term(1, k) = x * s + y * t /\ Term(2, k) = x * t - y * s
                 /\ Term(3, k) = s /\ Term(4, k) = t
  <2> DEFINE x == lm[k][1]
             y == lm[k][2]
             s == dst[k][1]
             t == dst[k][2]
  <2>1. RowU(lm[k]) = <<x, -y, 1, 0>> /\ RowV(lm[k]) = <<y, x, 0, 1>>
    BY DEF RowU, RowV
  <2>2. x \in Int /\ y \in Int /\ s \in Int /\ t \in Int
    BY DEF Five
  <2> HIDE DEF x, y
  <2>3. /\ Term(1, k) = x * s + y * t /\ Term(2, k) = x * t - y * s
        /\ Term(3, k) = s /\ Term(4, k) = t
    <3> HIDE DEF s, t
    <3>1. \A r \in 1..4 : Term(r, k) = RowU(lm[k])[r] * s + RowV(lm[k])[r] * t
      BY DEF s, t
    <3> HIDE DEF Term
    <3> QED
      BY <2>1, <2>2, <3>1
  <2> QED
    BY <2>3 DEF x, y
<1> HIDE DEF Term
<1>3. Total(1) = Side1(lm, dst) /\ Total(2) = Side2(lm, dst)
      /\ Total(3) = Side3(dst) /\ Total(4) = Side4(dst)
  BY <1>2 DEF Side1, Side2, Side3, Side4, Sum
<1> HIDE DEF Total
<1> QED
  BY <1>1, <1>3

\* Numbers are as far apart as two of them are.
LEMMA FiveApart ==
  ASSUME NEW a1 \in Int, NEW a2 \in Int, NEW a3 \in Int, NEW a4 \in Int, NEW a5 \in Int
  PROVE  5 * (a1 * a1 + a2 * a2 + a3 * a3 + a4 * a4 + a5 * a5)
           - (a1 + a2 + a3 + a4 + a5) * (a1 + a2 + a3 + a4 + a5)
         >= (a1 - a2) * (a1 - a2)
<1> DEFINE Sq(x) == x * x
<1>1. 5 * (a1 * a1 + a2 * a2 + a3 * a3 + a4 * a4 + a5 * a5)
        - (a1 + a2 + a3 + a4 + a5) * (a1 + a2 + a3 + a4 + a5)
      = Sq(a1 - a2) + Sq(a1 - a3) + Sq(a1 - a4) + Sq(a1 - a5) + Sq(a2 - a3)
        + Sq(a2 - a4) + Sq(a2 - a5) + Sq(a3 - a4) + Sq(a3 - a5) + Sq(a4 - a5)
  OBVIOUS
<1>2. \A x \in Int : Sq(x) \in Int /\ Sq(x) >= 0
  OBVIOUS
<1>3. /\ Sq(a1 - a2) \in Int /\ Sq(a1 - a3) >= 0 /\ Sq(a1 - a4) >= 0 /\ Sq(a1 - a5) >= 0
      /\ Sq(a2 - a3) >= 0 /\ Sq(a2 - a4) >= 0 /\ Sq(a2 - a5) >= 0
      /\ Sq(a3 - a4) >= 0 /\ Sq(a3 - a5) >= 0 /\ Sq(a4 - a5) >= 0
  <2> HIDE DEF Sq
  <2> QED
    BY <1>2
<1>4. /\ Sq(a1 - a3) \in Int /\ Sq(a1 - a4) \in Int /\ Sq(a1 - a5) \in Int
      /\ Sq(a2 - a3) \in Int /\ Sq(a2 - a4) \in Int /\ Sq(a2 - a5) \in Int
      /\ Sq(a3 - a4) \in Int /\ Sq(a3 - a5) \in Int /\ Sq(a4 - a5) \in Int
  <2> HIDE DEF Sq
  <2> QED
    BY <1>2
<1>5. Sq(a1 - a2) + Sq(a1 - a3) + Sq(a1 - a4) + Sq(a1 - a5) + Sq(a2 - a3)
        + Sq(a2 - a4) + Sq(a2 - a5) + Sq(a3 - a4) + Sq(a3 - a5) + Sq(a4 - a5)
      >= Sq(a1 - a2)
  <2> HIDE DEF Sq
  <2> QED
    BY <1>3, <1>4
<1> QED
  BY <1>1, <1>5

\* Landmarks with eyes that are apart.
LEMMA LandmarkSizes ==
  ASSUME NEW lm \in Five, lm[1] # lm[2]
  PROVE  /\ Squares(lm) \in Nat \ {0}
         /\ Sizes(Squares(lm), SumX(lm), SumY(lm))
<1> DEFINE x(k) == lm[k][1]
           y(k) == lm[k][2]
           Q == Squares(lm)
           X == SumX(lm)
           Y == SumY(lm)
<1>1. \A k \in 1..5 : x(k) \in Int /\ y(k) \in Int
  BY DEF Five
<1>3. Q = (x(1) * x(1) + y(1) * y(1)) + (x(2) * x(2) + y(2) * y(2))
          + (x(3) * x(3) + y(3) * y(3)) + (x(4) * x(4) + y(4) * y(4))
          + (x(5) * x(5) + y(5) * y(5))
  BY DEF Squares, Sum
<1>4. X = x(1) + x(2) + x(3) + x(4) + x(5) /\ Y = y(1) + y(2) + y(3) + y(4) + y(5)
  BY DEF SumX, SumY, Sum
<1>5. x(1) # x(2) \/ y(1) # y(2)
  <2>1. lm[1] \in Int \X Int /\ lm[2] \in Int \X Int
    BY DEF Five
  <2> QED
    BY <2>1
<1>6. Q \in Nat /\ X \in Int /\ Y \in Int
  BY SumsAreWhole
<1> HIDE DEF x, y, Q, X, Y
<1>7. \A n \in Int : n <= n * n /\ -n <= n * n /\ n * n \in Nat
  OBVIOUS
<1>8. \A k \in 1..5 : /\ x(k) <= x(k) * x(k) /\ -x(k) <= x(k) * x(k) /\ x(k) * x(k) \in Nat
                      /\ y(k) <= y(k) * y(k) /\ -y(k) <= y(k) * y(k) /\ y(k) * y(k) \in Nat
  BY <1>1, <1>7
<1>9. -Q <= X /\ X <= Q
  BY <1>1, <1>3, <1>4, <1>8
<1>10. -Q <= Y /\ Y <= Q
  BY <1>1, <1>3, <1>4, <1>8
<1>11. Spread(Q, X, Y) > 0
  <2> DEFINE sx == x(1) * x(1) + x(2) * x(2) + x(3) * x(3) + x(4) * x(4) + x(5) * x(5)
             sy == y(1) * y(1) + y(2) * y(2) + y(3) * y(3) + y(4) * y(4) + y(5) * y(5)
             dx == x(1) - x(2)
             dy == y(1) - y(2)
  <2>1. /\ x(1) \in Int /\ x(2) \in Int /\ x(3) \in Int /\ x(4) \in Int /\ x(5) \in Int
        /\ y(1) \in Int /\ y(2) \in Int /\ y(3) \in Int /\ y(4) \in Int /\ y(5) \in Int
    BY <1>1
  <2>2. Q = sx + sy /\ sx \in Int /\ sy \in Int
    BY <1>3, <1>8
  <2>3. 5 * sx - X * X >= dx * dx
    BY ONLY <1>4, <2>1, FiveApart
  <2>4. 5 * sy - Y * Y >= dy * dy
    BY ONLY <1>4, <2>1, FiveApart
  <2>5. dx \in Int /\ dy \in Int /\ (dx # 0 \/ dy # 0)
    BY <1>5, <2>1
  <2> HIDE DEF sx, sy, dx, dy
  <2>6. dx * dx + dy * dy > 0
    <3>1. \A n \in Int : n * n \in Int /\ n * n >= 0 /\ (n # 0 => n * n > 0)
      OBVIOUS
    <3>2. dx * dx \in Int /\ dy * dy \in Int /\ dx * dx >= 0 /\ dy * dy >= 0
          /\ (dx * dx > 0 \/ dy * dy > 0)
      BY <2>5, <3>1
    <3> QED
      BY <3>2
  <2>7. X * X \in Int /\ Y * Y \in Int /\ dx * dx \in Int /\ dy * dy \in Int
    BY <1>6, <2>5
  <2>8. 5 * Q - X * X - Y * Y > 0
    BY <2>2, <2>3, <2>4, <2>6, <2>7
  <2> QED
    BY <2>8 DEF Spread
<1>12. Q # 0
  <2>1. Q = 0 => X = 0 /\ Y = 0
    BY <1>6, <1>9, <1>10
  <2>2. Q = 0 => Spread(Q, X, Y) = 0
    BY <2>1 DEF Spread
  <2> QED
    BY <1>11, <2>2
<1>13. Q \in Nat \ {0} /\ Abs(X) <= Q /\ Abs(Y) <= Q
  BY <1>6, <1>9, <1>10, <1>12 DEF Abs
<1>14. Q \in Nat \ {0} /\ Sizes(Q, X, Y)
  BY <1>11, <1>13 DEF Sizes
<1> QED
  BY <1>14 DEF Q, X, Y

\* The column n of the elimination for landmarks and a template.
StateOf(n, M, h, lm, dst) ==
  LET Q == Squares(lm)  X == SumX(lm)  Y == SumY(lm)
      g1 == Side1(lm, dst)  g2 == Side2(lm, dst)  g3 == Side3(dst)  g4 == Side4(dst)
  IN  /\ n = 1 => State1(M, h, Q, X, Y, g1, g2, g3, g4)
      /\ n = 2 => State2(M, h, Q, X, Y, g1, g2, g3, g4)
      /\ n = 3 => State3(M, h, Q, X, Y, g1, g2, g3, g4)
      /\ n = 4 => State4(M, h, Q, X, Y, g1, g2, g3, g4)
      /\ n = 5 => State5(M, h, Q, X, Y, g1, g2, g3, g4)

\* Enter sets up the first.
LEMMA Begins ==
  ASSUME NEW lm \in Five, NEW dst \in Five
  PROVE  StateOf(1, Ata(lm), Atb(lm, dst), lm, dst)
<1> DEFINE Q == Squares(lm)
           X == SumX(lm)
           Y == SumY(lm)
           g1 == Side1(lm, dst)
           g2 == Side2(lm, dst)
           g3 == Side3(dst)
           g4 == Side4(dst)
           M == Ata(lm)
           h == Atb(lm, dst)
<1>1. Q \in Int /\ X \in Int /\ -Y \in Int /\ Y \in Int
      /\ g1 \in Int /\ g2 \in Int /\ g3 \in Int /\ g4 \in Int
  BY SumsAreWhole
<1>2. /\ M[1][1] = Int2Rat(Q) /\ M[1][2] = Int2Rat(0)
      /\ M[1][3] = Int2Rat(X) /\ M[1][4] = Int2Rat(Y)
      /\ M[2][1] = Int2Rat(0) /\ M[2][2] = Int2Rat(Q)
      /\ M[2][3] = Int2Rat(-Y) /\ M[2][4] = Int2Rat(X)
      /\ M[3][1] = Int2Rat(X) /\ M[3][2] = Int2Rat(-Y)
      /\ M[3][3] = Int2Rat(5) /\ M[3][4] = Int2Rat(0)
      /\ M[4][1] = Int2Rat(Y) /\ M[4][2] = Int2Rat(X)
      /\ M[4][3] = Int2Rat(0) /\ M[4][4] = Int2Rat(5)
  BY MatrixIs
<1>3. /\ h[1] = Int2Rat(g1) /\ h[2] = Int2Rat(g2)
      /\ h[3] = Int2Rat(g3) /\ h[4] = Int2Rat(g4)
  BY SideIs
<1> HIDE DEF Q, X, Y, g1, g2, g3, g4, M, h
<1>4. /\ Is(Int2Rat(Q), Q, 1) /\ Is(Int2Rat(X), X, 1) /\ Is(Int2Rat(Y), Y, 1)
      /\ Is(Int2Rat(-Y), -Y, 1) /\ Is(Int2Rat(0), 0, 1) /\ Is(Int2Rat(5), 5, 1)
  BY <1>1, WholeIs
<1>5. /\ Is(Int2Rat(g1), g1, 1) /\ Is(Int2Rat(g2), g2, 1)
      /\ Is(Int2Rat(g3), g3, 1) /\ Is(Int2Rat(g4), g4, 1)
  BY <1>1, WholeIs
<1>6. IsRow(M, h, 1, <<Q, 0, X, Y, g1>>, 1)
  BY <1>2, <1>3, <1>4, <1>5 DEF IsRow
<1>7. IsRow(M, h, 2, <<0, Q, -Y, X, g2>>, 1)
  BY <1>2, <1>3, <1>4, <1>5 DEF IsRow
<1>8. IsRow(M, h, 3, <<X, -Y, 5, 0, g3>>, 1)
  BY <1>2, <1>3, <1>4, <1>5 DEF IsRow
<1>9. IsRow(M, h, 4, <<Y, X, 0, 5, g4>>, 1)
  BY <1>2, <1>3, <1>4, <1>5 DEF IsRow
<1>10. State1(M, h, Q, X, Y, g1, g2, g3, g4)
  BY <1>6, <1>7, <1>8, <1>9 DEF State1
<1> QED
  BY <1>10 DEF StateOf, Q, X, Y, g1, g2, g3, g4, M, h

\* Exchanging a row with itself leaves the rows.
LEMMA SwappedIsSame ==
  ASSUME NEW M, NEW h, NEW c \in 1..4, NEW r \in 1..4, NEW n, NEW d, IsRow(M, h, r, n, d)
  PROVE  IsRow(Swapped(M, c, c), Swapped(h, c, c), r, n, d)
<1>1. Swapped(M, c, c)[r] = M[r] /\ Swapped(h, c, c)[r] = h[r]
  BY DEF Swapped
<1> QED
  BY <1>1 DEF IsRow

\* One turn of solve4: the pivot is on the diagonal and not zero, and the
\* elimination leads to the next state.
LEMMA SolveTurn ==
  ASSUME NEW lm \in Five, lm[1] # lm[2], NEW dst \in Five,
         NEW n \in 1..4, NEW M, NEW h, StateOf(n, M, h, lm, dst)
  PROVE  LET N == Swapped(M, n, n)
             q == Swapped(h, n, n)
         IN  /\ Pivot(M, n) = n /\ M[n][n][1] # 0
             /\ StateOf(n + 1, Eliminated(N, n), EliminatedSide(N, q, n), lm, dst)
<1> DEFINE Q == Squares(lm)
           X == SumX(lm)
           Y == SumY(lm)
           g1 == Side1(lm, dst)
           g2 == Side2(lm, dst)
           g3 == Side3(dst)
           g4 == Side4(dst)
           N == Swapped(M, n, n)
           q == Swapped(h, n, n)
<1>1. Q \in Nat \ {0} /\ Sizes(Q, X, Y)
  BY LandmarkSizes
<1>2. X \in Int /\ Y \in Int /\ g1 \in Int /\ g2 \in Int /\ g3 \in Int /\ g4 \in Int
  BY <1>1, SumsAreWhole
<1>3. /\ n = 1 => State1(M, h, Q, X, Y, g1, g2, g3, g4)
      /\ n = 2 => State2(M, h, Q, X, Y, g1, g2, g3, g4)
      /\ n = 3 => State3(M, h, Q, X, Y, g1, g2, g3, g4)
      /\ n = 4 => State4(M, h, Q, X, Y, g1, g2, g3, g4)
  BY DEF StateOf
<1>4. ASSUME NEW r \in 1..4, NEW m, NEW d, IsRow(M, h, r, m, d) PROVE IsRow(N, q, r, m, d)
  BY <1>4, SwappedIsSame
<1> HIDE DEF Q, X, Y, g1, g2, g3, g4, N, q
<1>5. Spread(Q, X, Y) > 0
  BY <1>1 DEF Sizes
<1> DEFINE Goal == /\ Pivot(M, n) = n /\ M[n][n][1] # 0
                   /\ StateOf(n + 1, Eliminated(N, n), EliminatedSide(N, q, n), lm, dst)
<1>6. ASSUME n = 1 PROVE Goal
  <2>1. State1(M, h, Q, X, Y, g1, g2, g3, g4)
    BY <1>3, <1>6
  <2>2. Pivot(M, 1) = 1 /\ M[1][1][1] # 0
    BY <1>1, <1>2, <2>1, Pivot1
  <2>3. State1(N, q, Q, X, Y, g1, g2, g3, g4)
    BY <2>1, <1>4 DEF State1
  <2>4. State2(Eliminated(N, 1), EliminatedSide(N, q, 1), Q, X, Y, g1, g2, g3, g4)
    BY <1>1, <1>2, <1>5, <2>3, Turn1
  <2>5. StateOf(2, Eliminated(N, 1), EliminatedSide(N, q, 1), lm, dst)
    BY <2>4 DEF StateOf, Q, X, Y, g1, g2, g3, g4
  <2> QED
    <3>1. n + 1 = 2
      BY <1>6
    <3> QED
      BY <1>6, <2>2, <2>5, <3>1
<1>7. ASSUME n = 2 PROVE Goal
  <2>1. State2(M, h, Q, X, Y, g1, g2, g3, g4)
    BY <1>3, <1>7
  <2>2. Pivot(M, 2) = 2 /\ M[2][2][1] # 0
    BY <1>1, <1>2, <2>1, Pivot2
  <2>3. State2(N, q, Q, X, Y, g1, g2, g3, g4)
    BY <2>1, <1>4 DEF State2
  <2>4. State3(Eliminated(N, 2), EliminatedSide(N, q, 2), Q, X, Y, g1, g2, g3, g4)
    BY <1>1, <1>2, <1>5, <2>3, Turn2
  <2>5. StateOf(3, Eliminated(N, 2), EliminatedSide(N, q, 2), lm, dst)
    BY <2>4 DEF StateOf, Q, X, Y, g1, g2, g3, g4
  <2> QED
    <3>1. n + 1 = 3
      BY <1>7
    <3> QED
      BY <1>7, <2>2, <2>5, <3>1
<1>8. ASSUME n = 3 PROVE Goal
  <2>1. State3(M, h, Q, X, Y, g1, g2, g3, g4)
    BY <1>3, <1>8
  <2>2. Pivot(M, 3) = 3 /\ M[3][3][1] # 0
    BY <1>1, <1>2, <2>1, Pivot3
  <2>3. State3(N, q, Q, X, Y, g1, g2, g3, g4)
    BY <2>1, <1>4 DEF State3
  <2>4. State4(Eliminated(N, 3), EliminatedSide(N, q, 3), Q, X, Y, g1, g2, g3, g4)
    BY <1>1, <1>2, <1>5, <2>3, Turn3
  <2>5. StateOf(4, Eliminated(N, 3), EliminatedSide(N, q, 3), lm, dst)
    BY <2>4 DEF StateOf, Q, X, Y, g1, g2, g3, g4
  <2> QED
    <3>1. n + 1 = 4
      BY <1>8
    <3> QED
      BY <1>8, <2>2, <2>5, <3>1
<1>9. ASSUME n = 4 PROVE Goal
  <2>1. State4(M, h, Q, X, Y, g1, g2, g3, g4)
    BY <1>3, <1>9
  <2>2. Pivot(M, 4) = 4 /\ M[4][4][1] # 0
    BY <1>1, <1>2, <2>1, Pivot4
  <2>3. State4(N, q, Q, X, Y, g1, g2, g3, g4)
    BY <2>1, <1>4 DEF State4
  <2>4. State5(Eliminated(N, 4), EliminatedSide(N, q, 4), Q, X, Y, g1, g2, g3, g4)
    BY <1>1, <1>2, <1>5, <2>3, Turn4
  <2>5. StateOf(5, Eliminated(N, 4), EliminatedSide(N, q, 4), lm, dst)
    BY <2>4 DEF StateOf, Q, X, Y, g1, g2, g3, g4
  <2> QED
    <3>1. n + 1 = 5
      BY <1>9
    <3> QED
      BY <1>9, <2>2, <2>5, <3>1
<1>10. Goal
  BY <1>6, <1>7, <1>8, <1>9
<1> QED
  BY <1>10 DEF N, q

-----------------------------------------------------------------------------
(* What solve4 ends with: the solution in closed form.                     *)

Det(lm) == Spread(Squares(lm), SumX(lm), SumY(lm))
Cosine(lm, dst) == Scale(SumX(lm), SumY(lm), Side1(lm, dst), Side3(dst), Side4(dst))
Sine(lm, dst) == Turned(SumX(lm), SumY(lm), Side2(lm, dst), Side3(dst), Side4(dst))
ShiftX(lm, dst) == MoveX(Squares(lm), SumX(lm), SumY(lm),
                         Side1(lm, dst), Side2(lm, dst), Side3(dst))
ShiftY(lm, dst) == MoveY(Squares(lm), SumX(lm), SumY(lm),
                         Side1(lm, dst), Side2(lm, dst), Side4(dst))

\* The four parameters of a transform over the determinant.
IsFit(q, lm, dst) ==
  /\ Is(q[1], Cosine(lm, dst), Det(lm)) /\ Is(q[2], Sine(lm, dst), Det(lm))
  /\ Is(q[3], ShiftX(lm, dst), Det(lm)) /\ Is(q[4], ShiftY(lm, dst), Det(lm))

LEMMA SolvedIsFit ==
  ASSUME NEW lm, NEW dst, NEW M, NEW h, StateOf(5, M, h, lm, dst)
  PROVE  IsFit(h, lm, dst)
BY DEF StateOf, State5, IsRow, IsFit, Det, Cosine, Sine, ShiftX, ShiftY

LEMMA FitsAreWhole ==
  ASSUME NEW lm \in Five, NEW dst \in Five
  PROVE  /\ Cosine(lm, dst) \in Int /\ Sine(lm, dst) \in Int /\ Det(lm) \in Int
         /\ ShiftX(lm, dst) \in Int /\ ShiftY(lm, dst) \in Int
<1> DEFINE Q == Squares(lm)
           X == SumX(lm)
           Y == SumY(lm)
           g1 == Side1(lm, dst)
           g2 == Side2(lm, dst)
           g3 == Side3(dst)
           g4 == Side4(dst)
<1>1. Q \in Int /\ X \in Int /\ Y \in Int
      /\ g1 \in Int /\ g2 \in Int /\ g3 \in Int /\ g4 \in Int
  BY SumsAreWhole
<1> HIDE DEF Q, X, Y, g1, g2, g3, g4
<1>2. /\ Scale(X, Y, g1, g3, g4) \in Int /\ Turned(X, Y, g2, g3, g4) \in Int
      /\ Spread(Q, X, Y) \in Int
  BY <1>1 DEF Scale, Turned, Spread
<1>3. /\ MoveX(Q, X, Y, g1, g2, g3) \in Int /\ MoveY(Q, X, Y, g1, g2, g4) \in Int
  BY <1>1 DEF MoveX, MoveY
<1> QED
  BY <1>2, <1>3 DEF Cosine, Sine, Det, ShiftX, ShiftY, Q, X, Y, g1, g2, g3, g4

\* The same by the sums of the centred coordinates.
LEMMA CentredSums ==
  ASSUME NEW lm \in Five, NEW dst \in Five
  PROVE  LET x == [k \in 1..5 |-> lm[k][1]]  y == [k \in 1..5 |-> lm[k][2]]
             s == [k \in 1..5 |-> dst[k][1]] t == [k \in 1..5 |-> dst[k][2]]
         IN  /\ Centred(x, x) + Centred(y, y) = Det(lm)
             /\ Centred(x, s) + Centred(y, t) = Cosine(lm, dst)
             /\ Centred(x, t) - Centred(y, s) = Sine(lm, dst)
             /\ Sum(x) = SumX(lm) /\ Sum(y) = SumY(lm)
             /\ Sum(s) = Side3(dst) /\ Sum(t) = Side4(dst)
<1> DEFINE x == [k \in 1..5 |-> lm[k][1]]
           y == [k \in 1..5 |-> lm[k][2]]
           s == [k \in 1..5 |-> dst[k][1]]
           t == [k \in 1..5 |-> dst[k][2]]
           P(f, g) == Sum([k \in 1..5 |-> f[k] * g[k]])
           Plus(f, g, e, h) == Sum([k \in 1..5 |-> f[k] * g[k] + e[k] * h[k]])
           Minus(f, g, e, h) == Sum([k \in 1..5 |-> f[k] * g[k] - e[k] * h[k]])
<1>1. \A k \in 1..5 : x[k] \in Int /\ y[k] \in Int /\ s[k] \in Int /\ t[k] \in Int
  BY DEF Five
<1>2. Sum(x) = SumX(lm) /\ Sum(y) = SumY(lm) /\ Sum(s) = Side3(dst) /\ Sum(t) = Side4(dst)
  BY DEF SumX, SumY, Side3, Side4
<1>3. Squares(lm) = Plus(x, x, y, y)
  BY SameSum DEF Squares
<1>4. Side1(lm, dst) = Plus(x, s, y, t)
  BY SameSum DEF Side1
<1>5. Side2(lm, dst) = Minus(x, t, y, s)
  BY SameSum DEF Side2
<1> HIDE DEF x, y, s, t
<1>6. ASSUME NEW f, NEW g, NEW e, NEW h,
             \A k \in 1..5 : f[k] \in Int /\ g[k] \in Int /\ e[k] \in Int /\ h[k] \in Int
      PROVE  /\ Plus(f, g, e, h) = P(f, g) + P(e, h)
             /\ Minus(f, g, e, h) = P(f, g) - P(e, h)
             /\ P(f, g) \in Int /\ P(e, h) \in Int
  <2> DEFINE l(k) == f[k] * g[k]
             r(k) == e[k] * h[k]
  <2>1. \A k \in 1..5 : l(k) \in Int /\ r(k) \in Int
    BY <1>6
  <2>2. P(f, g) = l(1) + l(2) + l(3) + l(4) + l(5)
    BY DEF Sum
  <2>3. P(e, h) = r(1) + r(2) + r(3) + r(4) + r(5)
    BY DEF Sum
  <2>4. Plus(f, g, e, h)
        = (l(1) + r(1)) + (l(2) + r(2)) + (l(3) + r(3)) + (l(4) + r(4)) + (l(5) + r(5))
    BY DEF Sum
  <2>5. Minus(f, g, e, h)
        = (l(1) - r(1)) + (l(2) - r(2)) + (l(3) - r(3)) + (l(4) - r(4)) + (l(5) - r(5))
    BY DEF Sum
  <2> HIDE DEF l, r
  <2>6. P(f, g) \in Int /\ P(e, h) \in Int
    <3> HIDE DEF P
    <3> QED
      BY <2>1, <2>2, <2>3
  <2>7. (l(1) + r(1)) + (l(2) + r(2)) + (l(3) + r(3)) + (l(4) + r(4)) + (l(5) + r(5))
        = P(f, g) + P(e, h)
    <3> HIDE DEF P
    <3> QED
      BY <2>1, <2>2, <2>3
  <2>8. (l(1) - r(1)) + (l(2) - r(2)) + (l(3) - r(3)) + (l(4) - r(4)) + (l(5) - r(5))
        = P(f, g) - P(e, h)
    <3> HIDE DEF P
    <3> QED
      BY <2>1, <2>2, <2>3
  <2> HIDE DEF P, Plus, Minus
  <2> QED
    BY <2>4, <2>5, <2>6, <2>7, <2>8
<1> HIDE DEF P, Plus, Minus
<1>7. Squares(lm) = P(x, x) + P(y, y) /\ P(x, x) \in Int /\ P(y, y) \in Int
  BY <1>1, <1>3, <1>6
<1>8. Side1(lm, dst) = P(x, s) + P(y, t) /\ P(x, s) \in Int /\ P(y, t) \in Int
  BY <1>1, <1>4, <1>6
<1>9. Side2(lm, dst) = P(x, t) - P(y, s) /\ P(x, t) \in Int /\ P(y, s) \in Int
  BY <1>1, <1>5, <1>6
<1>10. \A f, g : Centred(f, g) = 5 * P(f, g) - Sum(f) * Sum(g)
  BY DEF Centred, P
<1>11. Sum(x) \in Int /\ Sum(y) \in Int /\ Sum(s) \in Int /\ Sum(t) \in Int
  BY <1>2, SumsAreWhole
<1>12. Centred(x, x) + Centred(y, y) = Det(lm)
  <2>1. Det(lm) = 5 * (P(x, x) + P(y, y)) - Sum(x) * Sum(x) - Sum(y) * Sum(y)
    BY <1>2, <1>7 DEF Det, Spread
  <2> QED
    BY <1>7, <1>10, <1>11, <2>1
<1>13. Centred(x, s) + Centred(y, t) = Cosine(lm, dst)
  <2>1. Cosine(lm, dst) = 5 * (P(x, s) + P(y, t)) - Sum(x) * Sum(s) - Sum(y) * Sum(t)
    BY <1>2, <1>8 DEF Cosine, Scale
  <2> QED
    BY <1>8, <1>10, <1>11, <2>1
<1>14. Centred(x, t) - Centred(y, s) = Sine(lm, dst)
  <2>1. Sine(lm, dst) = 5 * (P(x, t) - P(y, s)) + Sum(y) * Sum(s) - Sum(x) * Sum(t)
    BY <1>2, <1>9 DEF Sine, Turned
  <2> QED
    BY <1>9, <1>10, <1>11, <2>1
<1> QED
  BY <1>2, <1>12, <1>13, <1>14 DEF x, y, s, t

\* The closed form over the same determinant.
LEMMA ClosedFormIsFit ==
  ASSUME NEW lm \in Five, lm[1] # lm[2], NEW dst \in Five
  PROVE  IsFit(ClosedForm(lm, dst), lm, dst)
<1> DEFINE x == [k \in 1..5 |-> lm[k][1]]
           y == [k \in 1..5 |-> lm[k][2]]
           s == [k \in 1..5 |-> dst[k][1]]
           t == [k \in 1..5 |-> dst[k][2]]
           d == Det(lm)
           h1 == Cosine(lm, dst)
           h2 == Sine(lm, dst)
           n3 == ShiftX(lm, dst)
           n4 == ShiftY(lm, dst)
           ca == Rat(h1, d)
           cb == Rat(h2, d)
           Q == Squares(lm)
           X == SumX(lm)
           Y == SumY(lm)
           g1 == Side1(lm, dst)
           g2 == Side2(lm, dst)
           g3 == Side3(dst)
           g4 == Side4(dst)
<1>1. d > 0
  BY LandmarkSizes DEF Sizes, Det
<1>2. d \in Nat \ {0} /\ h1 \in Int /\ h2 \in Int /\ n3 \in Int /\ n4 \in Int
  BY <1>1, FitsAreWhole
<1>3. Q \in Int /\ X \in Int /\ Y \in Int
      /\ g1 \in Int /\ g2 \in Int /\ g3 \in Int /\ g4 \in Int
  BY <1>1, SumsAreWhole
<1>4. /\ d = 5 * Q - X * X - Y * Y
      /\ h1 = 5 * g1 - X * g3 - Y * g4 /\ h2 = 5 * g2 + Y * g3 - X * g4
      /\ n3 = g3 * Q - X * g1 + Y * g2 /\ n4 = g4 * Q - Y * g1 - X * g2
  BY DEF Det, Cosine, Sine, ShiftX, ShiftY, Spread, Scale, Turned, MoveX, MoveY
<1>5. /\ Centred(x, x) + Centred(y, y) = d
      /\ Centred(x, s) + Centred(y, t) = h1
      /\ Centred(x, t) - Centred(y, s) = h2
      /\ Sum(x) = X /\ Sum(y) = Y /\ Sum(s) = g3 /\ Sum(t) = g4
  BY <1>1, CentredSums
<1> DEFINE tx == Sub(Rat(g3, 5), Sub(Mul(ca, Rat(X, 5)), Mul(cb, Rat(Y, 5))))
           ty == Sub(Rat(g4, 5), Add(Mul(cb, Rat(X, 5)), Mul(ca, Rat(Y, 5))))
<1>6. ClosedForm(lm, dst) = <<ca, cb, tx, ty>>
  <2> HIDE DEF x, y, s, t, d, h1, h2, X, Y, g3, g4
  <2>1. ClosedForm(lm, dst)
        = <<Rat(Centred(x, s) + Centred(y, t), Centred(x, x) + Centred(y, y)),
            Rat(Centred(x, t) - Centred(y, s), Centred(x, x) + Centred(y, y)),
            Sub(Rat(Sum(s), 5),
                Sub(Mul(Rat(Centred(x, s) + Centred(y, t), Centred(x, x) + Centred(y, y)),
                        Rat(Sum(x), 5)),
                    Mul(Rat(Centred(x, t) - Centred(y, s), Centred(x, x) + Centred(y, y)),
                        Rat(Sum(y), 5)))),
            Sub(Rat(Sum(t), 5),
                Add(Mul(Rat(Centred(x, t) - Centred(y, s), Centred(x, x) + Centred(y, y)),
                        Rat(Sum(x), 5)),
                    Mul(Rat(Centred(x, s) + Centred(y, t), Centred(x, x) + Centred(y, y)),
                        Rat(Sum(y), 5))))>>
    BY Zenon DEF ClosedForm, x, y, s, t
  <2> QED
    BY <1>5, <2>1
<1> HIDE DEF x, y, s, t, d, h1, h2, n3, n4, Q, X, Y, g1, g2, g3, g4
<1>7. Is(ca, h1, d) /\ Is(cb, h2, d)
  BY <1>2, RatIs
<1>8. Is(Rat(X, 5), X, 5) /\ Is(Rat(Y, 5), Y, 5) /\ Is(Rat(g3, 5), g3, 5) /\ Is(Rat(g4, 5), g4, 5)
  BY <1>3, RatIs
<1> HIDE DEF ca, cb
<1>9. Is(tx, n3, d)
  <2>1. Is(Mul(ca, Rat(X, 5)), h1 * X, d * 5) /\ Is(Mul(cb, Rat(Y, 5)), h2 * Y, d * 5)
    BY <1>7, <1>8, MulIs
  <2>2. Is(Sub(Mul(ca, Rat(X, 5)), Mul(cb, Rat(Y, 5))), h1 * X - h2 * Y, d * 5)
    BY <2>1, SubIs
  <2>3. Is(Rat(g3, 5), g3 * d, d * 5)
    <3>1. g3 * d \in Int /\ d * 5 \in Nat \ {0} /\ g3 * (d * 5) = (g3 * d) * 5
      BY <1>2, <1>3
    <3> QED
      BY <1>8, <3>1, Rescale
  <2>4. Is(tx, g3 * d - (h1 * X - h2 * Y), d * 5)
    BY <2>2, <2>3, SubIs
  <2>5. g3 * d - (h1 * X - h2 * Y) = 5 * n3
    BY <1>3, <1>4
  <2>6. (5 * n3) * d = n3 * (d * 5)
    BY <1>2
  <2>7. Is(tx, 5 * n3, d * 5)
    BY <2>4, <2>5
  <2> HIDE DEF tx
  <2> QED
    BY ONLY <1>2, <2>6, <2>7, Rescale
<1>10. Is(ty, n4, d)
  <2>1. Is(Mul(cb, Rat(X, 5)), h2 * X, d * 5) /\ Is(Mul(ca, Rat(Y, 5)), h1 * Y, d * 5)
    BY <1>7, <1>8, MulIs
  <2>2. Is(Add(Mul(cb, Rat(X, 5)), Mul(ca, Rat(Y, 5))), h2 * X + h1 * Y, d * 5)
    BY <2>1, AddIs
  <2>3. Is(Rat(g4, 5), g4 * d, d * 5)
    <3>1. g4 * d \in Int /\ d * 5 \in Nat \ {0} /\ g4 * (d * 5) = (g4 * d) * 5
      BY <1>2, <1>3
    <3> QED
      BY <1>8, <3>1, Rescale
  <2>4. Is(ty, g4 * d - (h2 * X + h1 * Y), d * 5)
    BY <2>2, <2>3, SubIs
  <2>5. g4 * d - (h2 * X + h1 * Y) = 5 * n4
    BY <1>3, <1>4
  <2>6. (5 * n4) * d = n4 * (d * 5)
    BY <1>2
  <2>7. Is(ty, 5 * n4, d * 5)
    BY <2>4, <2>5
  <2> HIDE DEF ty
  <2> QED
    BY ONLY <1>2, <2>6, <2>7, Rescale
<1> HIDE DEF tx, ty
<1> QED
  BY <1>6, <1>7, <1>9, <1>10 DEF IsFit, d, h1, h2, n3, n4

-----------------------------------------------------------------------------
(* A transform, its inverse and its error.                                 *)

\* Where the transform takes a place: over the determinant.
LEMMA ImageIs ==
  ASSUME NEW q, NEW h1, NEW h2, NEW n3, NEW n4, NEW d,
         Is(q[1], h1, d), Is(q[2], h2, d), Is(q[3], n3, d), Is(q[4], n4, d),
         NEW pt, pt[1] \in Int, pt[2] \in Int
  PROVE  /\ Is(U(q, pt), h1 * pt[1] - h2 * pt[2] + n3, d)
         /\ Is(V(q, pt), h2 * pt[1] + h1 * pt[2] + n4, d)
<1> DEFINE x == pt[1]
           y == pt[2]
<1>1. x \in Int /\ y \in Int
  OBVIOUS
<1>2. h1 \in Int /\ h2 \in Int /\ d \in Nat \ {0} /\ d * 1 = d
  BY Parts
<1> HIDE DEF x, y
<1>3. Is(Int2Rat(x), x, 1) /\ Is(Int2Rat(y), y, 1)
  BY <1>1, WholeIs
<1>4. Is(Mul(q[1], Int2Rat(x)), h1 * x, d) /\ Is(Mul(q[1], Int2Rat(y)), h1 * y, d)
  <2>1. Is(Mul(q[1], Int2Rat(x)), h1 * x, d * 1) /\ Is(Mul(q[1], Int2Rat(y)), h1 * y, d * 1)
    BY <1>3, MulIs
  <2> QED
    BY <1>2, <2>1
<1>5. Is(Mul(q[2], Int2Rat(x)), h2 * x, d) /\ Is(Mul(q[2], Int2Rat(y)), h2 * y, d)
  <2>1. Is(Mul(q[2], Int2Rat(x)), h2 * x, d * 1) /\ Is(Mul(q[2], Int2Rat(y)), h2 * y, d * 1)
    BY <1>3, MulIs
  <2> QED
    BY <1>2, <2>1
<1>6. Is(Sub(Mul(q[1], Int2Rat(x)), Mul(q[2], Int2Rat(y))), h1 * x - h2 * y, d)
  BY <1>4, <1>5, SubIs
<1>7. Is(Add(Mul(q[2], Int2Rat(x)), Mul(q[1], Int2Rat(y))), h2 * x + h1 * y, d)
  BY <1>4, <1>5, AddIs
<1>8. Is(U(q, pt), h1 * x - h2 * y + n3, d)
  <2>1. Is(Add(Sub(Mul(q[1], Int2Rat(x)), Mul(q[2], Int2Rat(y))), q[3]), h1 * x - h2 * y + n3, d)
    BY <1>6, AddIs
  <2> QED
    BY <2>1 DEF U, x, y
<1>9. Is(V(q, pt), h2 * x + h1 * y + n4, d)
  <2>1. Is(Add(Add(Mul(q[2], Int2Rat(x)), Mul(q[1], Int2Rat(y))), q[4]), h2 * x + h1 * y + n4, d)
    BY <1>7, AddIs
  <2> QED
    BY <2>1 DEF V, x, y
<1> QED
  BY <1>8, <1>9 DEF x, y

\* The inverse takes the image of a place back to the place.
TakesBack(q, r, pt) ==
  LET u == U(q, pt)
      v == V(q, pt)
  IN  /\ Add(Add(Mul(r[1], u), Mul(r[2], v)), r[3]) = Int2Rat(pt[1])
      /\ Add(Add(Mul(r[4], u), Mul(r[5], v)), r[6]) = Int2Rat(pt[2])

LEMMA InverseIsInverse ==
  ASSUME NEW q, NEW h1, NEW h2, NEW n3, NEW n4, NEW d,
         Is(q[1], h1, d), Is(q[2], h2, d), Is(q[3], n3, d), Is(q[4], n4, d),
         h1 # 0 \/ h2 # 0,
         NEW pt, pt[1] \in Int, pt[2] \in Int
  PROVE  TakesBack(q, DstToSrc(q), pt)
<1> DEFINE x == pt[1]
           y == pt[2]
           den == Add(Mul(q[1], q[1]), Mul(q[2], q[2]))
           h == h1 * h1 + h2 * h2
           i00 == Div(q[1], den)
           i01 == Div(q[2], den)
           u == U(q, pt)
           v == V(q, pt)
           nu == h1 * x - h2 * y + n3
           nv == h2 * x + h1 * y + n4
<1>1. x \in Int /\ y \in Int
  OBVIOUS
<1>2. h1 \in Int /\ h2 \in Int /\ n3 \in Int /\ n4 \in Int /\ d \in Nat \ {0}
  BY Parts
<1>3. h \in Nat \ {0}
  <2>1. \A n \in Int : n * n \in Int /\ n * n >= 0 /\ (n # 0 => n * n > 0)
    OBVIOUS
  <2>2. h1 * h1 \in Int /\ h2 * h2 \in Int /\ h1 * h1 >= 0 /\ h2 * h2 >= 0
        /\ (h1 * h1 > 0 \/ h2 * h2 > 0)
    BY <1>2, <2>1
  <2> QED
    BY <2>2
<1>4. Is(u, nu, d) /\ Is(v, nv, d)
  BY ImageIs
<1>5. nu \in Int /\ nv \in Int
  BY <1>1, <1>2
<1>6. Is(den, h, d * d)
  <2>1. Is(Mul(q[1], q[1]), h1 * h1, d * d) /\ Is(Mul(q[2], q[2]), h2 * h2, d * d)
    BY MulIs
  <2> QED
    BY <2>1, AddIs
<1>7. DstToSrc(q) = <<i00, i01, Neg(Add(Mul(i00, q[3]), Mul(i01, q[4]))),
                      Neg(i01), i00, Neg(Add(Mul(Neg(i01), q[3]), Mul(i00, q[4])))>>
  BY DEF DstToSrc
<1> DEFINE back == /\ Add(Add(Mul(i00, u), Mul(i01, v)),
                          Neg(Add(Mul(i00, q[3]), Mul(i01, q[4])))) = Int2Rat(x)
                   /\ Add(Add(Mul(Neg(i01), u), Mul(i00, v)),
                          Neg(Add(Mul(Neg(i01), q[3]), Mul(i00, q[4])))) = Int2Rat(y)
<1>8. back => TakesBack(q, DstToSrc(q), pt)
  <2> DEFINE r == DstToSrc(q)
  <2>1. /\ r[1] = i00 /\ r[2] = i01 /\ r[3] = Neg(Add(Mul(i00, q[3]), Mul(i01, q[4])))
        /\ r[4] = Neg(i01) /\ r[5] = i00
        /\ r[6] = Neg(Add(Mul(Neg(i01), q[3]), Mul(i00, q[4])))
    <3> HIDE DEF i00, i01
    <3> QED
      BY <1>7
  <2> HIDE DEF r, i00, i01
  <2> QED
    BY <2>1 DEF TakesBack, r
<1> HIDE DEF den, u, v, x, y
<1>9. Is(i00, h1 * d, h) /\ Is(i01, h2 * d, h)
  <2>1. Is(Div(q[1], den), h1 * (d * d), d * h) /\ Is(Div(q[2], den), h2 * (d * d), d * h)
    <3>1. h > 0
      BY <1>3
    <3> HIDE DEF h
    <3> QED
      BY <1>6, <3>1, DivIs
  <2> HIDE DEF h
  <2>2. /\ h1 * d \in Int /\ (h1 * (d * d)) * h = (h1 * d) * (d * h)
        /\ h2 * d \in Int /\ (h2 * (d * d)) * h = (h2 * d) * (d * h)
    BY ONLY <1>2, <1>3
  <2> QED
    BY ONLY <1>3, <2>1, <2>2, Rescale
<1> HIDE DEF i00, i01, nu, nv, h
<1>10. Is(Neg(i01), 0 - h2 * d, h)
  BY <1>9, NegIs
<1>11. /\ Is(Mul(i00, u), (h1 * d) * nu, h * d) /\ Is(Mul(i01, v), (h2 * d) * nv, h * d)
       /\ Is(Mul(i00, q[3]), (h1 * d) * n3, h * d) /\ Is(Mul(i01, q[4]), (h2 * d) * n4, h * d)
  BY <1>4, <1>9, MulIs
<1>12. /\ Is(Mul(Neg(i01), u), (0 - h2 * d) * nu, h * d) /\ Is(Mul(i00, v), (h1 * d) * nv, h * d)
       /\ Is(Mul(Neg(i01), q[3]), (0 - h2 * d) * n3, h * d)
       /\ Is(Mul(i00, q[4]), (h1 * d) * n4, h * d)
  BY <1>4, <1>9, <1>10, MulIs
<1>13. Is(Int2Rat(x), x, 1) /\ Is(Int2Rat(y), y, 1)
  BY <1>1, WholeIs
<1>14. nu = h1 * x - h2 * y + n3 /\ nv = h2 * x + h1 * y + n4 /\ h = h1 * h1 + h2 * h2
  BY DEF nu, nv, h
<1>15. Add(Add(Mul(i00, u), Mul(i01, v)), Neg(Add(Mul(i00, q[3]), Mul(i01, q[4])))) = Int2Rat(x)
  <2> DEFINE top == ((h1 * d) * nu + (h2 * d) * nv) + (0 - ((h1 * d) * n3 + (h2 * d) * n4))
  <2>1. Is(Add(Mul(i00, u), Mul(i01, v)), (h1 * d) * nu + (h2 * d) * nv, h * d)
    BY <1>11, AddIs
  <2>2. Is(Add(Mul(i00, q[3]), Mul(i01, q[4])), (h1 * d) * n3 + (h2 * d) * n4, h * d)
    BY <1>11, AddIs
  <2>3. Is(Neg(Add(Mul(i00, q[3]), Mul(i01, q[4]))),
           0 - ((h1 * d) * n3 + (h2 * d) * n4), h * d)
    BY <2>2, NegIs
  <2>4. Is(Add(Add(Mul(i00, u), Mul(i01, v)), Neg(Add(Mul(i00, q[3]), Mul(i01, q[4])))),
           top, h * d)
    BY <2>1, <2>3, AddIs
  <2>5. top * 1 = x * (h * d)
    BY ONLY <1>1, <1>2, <1>14
  <2> HIDE DEF top
  <2>6. Is(Add(Add(Mul(i00, u), Mul(i01, v)), Neg(Add(Mul(i00, q[3]), Mul(i01, q[4])))), x, 1)
    BY ONLY <1>1, <2>4, <2>5, Rescale
  <2> QED
    BY <1>13, <2>6, IsOne
<1>16. Add(Add(Mul(Neg(i01), u), Mul(i00, v)), Neg(Add(Mul(Neg(i01), q[3]), Mul(i00, q[4]))))
       = Int2Rat(y)
  <2> DEFINE top == ((0 - h2 * d) * nu + (h1 * d) * nv)
                    + (0 - ((0 - h2 * d) * n3 + (h1 * d) * n4))
  <2>1. Is(Add(Mul(Neg(i01), u), Mul(i00, v)), (0 - h2 * d) * nu + (h1 * d) * nv, h * d)
    BY <1>12, AddIs
  <2>2. Is(Add(Mul(Neg(i01), q[3]), Mul(i00, q[4])), (0 - h2 * d) * n3 + (h1 * d) * n4, h * d)
    BY <1>12, AddIs
  <2>3. Is(Neg(Add(Mul(Neg(i01), q[3]), Mul(i00, q[4]))),
           0 - ((0 - h2 * d) * n3 + (h1 * d) * n4), h * d)
    BY <2>2, NegIs
  <2>4. Is(Add(Add(Mul(Neg(i01), u), Mul(i00, v)),
               Neg(Add(Mul(Neg(i01), q[3]), Mul(i00, q[4])))), top, h * d)
    BY <2>1, <2>3, AddIs
  <2>5. top * 1 = y * (h * d)
    BY ONLY <1>1, <1>2, <1>14
  <2> HIDE DEF top
  <2>6. Is(Add(Add(Mul(Neg(i01), u), Mul(i00, v)),
               Neg(Add(Mul(Neg(i01), q[3]), Mul(i00, q[4])))), y, 1)
    BY ONLY <1>1, <2>4, <2>5, Rescale
  <2> QED
    BY <1>13, <2>6, IsOne
<1> QED
  BY <1>8, <1>15, <1>16

-----------------------------------------------------------------------------
(* Sums of five, and the inequality of Cauchy and Schwarz for five points  *)
(* of the plane.                                                           *)

LEMMA SumIsWhole ==
  ASSUME NEW f, \A k \in 1..5 : f[k] \in Int
  PROVE  Sum(f) \in Int
BY DEF Sum

LEMMA SumOfTwo ==
  ASSUME NEW f, NEW f1, NEW f2, NEW c1 \in Int, NEW c2 \in Int,
         \A k \in 1..5 : f1[k] \in Int /\ f2[k] \in Int /\ f[k] = c1 * f1[k] + c2 * f2[k]
  PROVE  Sum(f) = c1 * Sum(f1) + c2 * Sum(f2)
<1> DEFINE l(k) == f1[k]
           r(k) == f2[k]
<1>1. \A k \in 1..5 : l(k) \in Int /\ r(k) \in Int /\ f[k] = c1 * l(k) + c2 * r(k)
  OBVIOUS
<1>2. Sum(f1) = l(1) + l(2) + l(3) + l(4) + l(5)
      /\ Sum(f2) = r(1) + r(2) + r(3) + r(4) + r(5)
  BY DEF Sum
<1>3. Sum(f) = f[1] + f[2] + f[3] + f[4] + f[5]
  BY DEF Sum
<1> HIDE DEF l, r
<1>4. Sum(f) = (c1 * l(1) + c2 * r(1)) + (c1 * l(2) + c2 * r(2)) + (c1 * l(3) + c2 * r(3))
               + (c1 * l(4) + c2 * r(4)) + (c1 * l(5) + c2 * r(5))
  BY <1>1, <1>3
<1>5. /\ l(1) \in Int /\ l(2) \in Int /\ l(3) \in Int /\ l(4) \in Int /\ l(5) \in Int
      /\ r(1) \in Int /\ r(2) \in Int /\ r(3) \in Int /\ r(4) \in Int /\ r(5) \in Int
  BY <1>1
<1> QED
  BY ONLY <1>2, <1>4, <1>5, c1 \in Int, c2 \in Int

LEMMA SumOfThree ==
  ASSUME NEW f, NEW f1, NEW f2, NEW f3, NEW c1 \in Int, NEW c2 \in Int, NEW c3 \in Int,
         \A k \in 1..5 : /\ f1[k] \in Int /\ f2[k] \in Int /\ f3[k] \in Int
                         /\ f[k] = c1 * f1[k] + c2 * f2[k] + c3 * f3[k]
  PROVE  Sum(f) = c1 * Sum(f1) + c2 * Sum(f2) + c3 * Sum(f3)
<1> DEFINE g == [k \in 1..5 |-> c1 * f1[k] + c2 * f2[k]]
<1>1. \A k \in 1..5 : g[k] = c1 * f1[k] + c2 * f2[k] /\ g[k] \in Int
  OBVIOUS
<1> HIDE DEF g
<1>2. Sum(g) = c1 * Sum(f1) + c2 * Sum(f2)
  BY <1>1, SumOfTwo
<1>3. Sum(f) = 1 * Sum(g) + c3 * Sum(f3)
  <2>1. \A k \in 1..5 : g[k] \in Int /\ f3[k] \in Int /\ f[k] = 1 * g[k] + c3 * f3[k]
    BY <1>1
  <2> QED
    BY ONLY <2>1, c3 \in Int, 1 \in Int, SumOfTwo
<1>4. Sum(g) \in Int
  BY <1>1, SumIsWhole
<1> QED
  BY <1>2, <1>3, <1>4

LEMMA SumOfFive ==
  ASSUME NEW f, NEW f1, NEW f2, NEW f3, NEW f4, NEW f5,
         NEW c1 \in Int, NEW c2 \in Int, NEW c3 \in Int, NEW c4 \in Int, NEW c5 \in Int,
         \A k \in 1..5 : /\ f1[k] \in Int /\ f2[k] \in Int /\ f3[k] \in Int
                         /\ f4[k] \in Int /\ f5[k] \in Int
                         /\ f[k] = c1 * f1[k] + c2 * f2[k] + c3 * f3[k]
                                   + c4 * f4[k] + c5 * f5[k]
  PROVE  Sum(f) = c1 * Sum(f1) + c2 * Sum(f2) + c3 * Sum(f3) + c4 * Sum(f4) + c5 * Sum(f5)
<1> DEFINE g == [k \in 1..5 |-> c1 * f1[k] + c2 * f2[k] + c3 * f3[k]]
<1>1. \A k \in 1..5 : g[k] = c1 * f1[k] + c2 * f2[k] + c3 * f3[k] /\ g[k] \in Int
  OBVIOUS
<1> HIDE DEF g
<1>2. Sum(g) = c1 * Sum(f1) + c2 * Sum(f2) + c3 * Sum(f3)
  BY <1>1, SumOfThree
<1>3. Sum(f) = 1 * Sum(g) + c4 * Sum(f4) + c5 * Sum(f5)
  <2>1. \A k \in 1..5 : /\ g[k] \in Int /\ f4[k] \in Int /\ f5[k] \in Int
                        /\ f[k] = 1 * g[k] + c4 * f4[k] + c5 * f5[k]
    BY <1>1
  <2> QED
    BY ONLY <2>1, c4 \in Int, c5 \in Int, 1 \in Int, SumOfThree
<1>4. Sum(g) \in Int
  BY <1>1, SumIsWhole
<1> QED
  BY <1>2, <1>3, <1>4

\* Points e, f and points g, h, as complex numbers.
LEMMA CauchySchwarz ==
  ASSUME NEW e, NEW f, NEW g, NEW h,
         \A k \in 1..5 : e[k] \in Int /\ f[k] \in Int /\ g[k] \in Int /\ h[k] \in Int,
         NEW E, NEW G, NEW T1, NEW T2,
         E = Sum([k \in 1..5 |-> e[k] * e[k] + f[k] * f[k]]),
         G = Sum([k \in 1..5 |-> g[k] * g[k] + h[k] * h[k]]),
         T1 = Sum([k \in 1..5 |-> e[k] * g[k] + f[k] * h[k]]),
         T2 = Sum([k \in 1..5 |-> e[k] * h[k] - f[k] * g[k]]),
         G > 0
  PROVE  T1 * T1 + T2 * T2 <= G * E
<1> DEFINE fe == [k \in 1..5 |-> e[k] * e[k] + f[k] * f[k]]
           fg == [k \in 1..5 |-> g[k] * g[k] + h[k] * h[k]]
           ft == [k \in 1..5 |-> e[k] * g[k] + f[k] * h[k]]
           fu == [k \in 1..5 |-> e[k] * h[k] - f[k] * g[k]]
           c1 == G * G
           c2 == 0 - 2 * G * T1
           c3 == 0 - 2 * G * T2
           c4 == T1 * T1 + T2 * T2
           all == [k \in 1..5 |-> c1 * fe[k] + c2 * ft[k] + c3 * fu[k] + c4 * fg[k] + 0 * fg[k]]
<1>1. \A k \in 1..5 : /\ fe[k] \in Int /\ fg[k] \in Int /\ ft[k] \in Int /\ fu[k] \in Int
                      /\ fe[k] = e[k] * e[k] + f[k] * f[k] /\ fg[k] = g[k] * g[k] + h[k] * h[k]
                      /\ ft[k] = e[k] * g[k] + f[k] * h[k] /\ fu[k] = e[k] * h[k] - f[k] * g[k]
  OBVIOUS
<1>2. E = Sum(fe) /\ G = Sum(fg) /\ T1 = Sum(ft) /\ T2 = Sum(fu)
  OBVIOUS
<1> HIDE DEF fe, fg, ft, fu
<1>3. E \in Int /\ G \in Int /\ T1 \in Int /\ T2 \in Int
  BY <1>1, <1>2, SumIsWhole
<1>4. c1 \in Int /\ c2 \in Int /\ c3 \in Int /\ c4 \in Int
  BY <1>3
<1>5. ASSUME NEW k \in 1..5 PROVE all[k] \in Nat
  <2> DEFINE ek == e[k]
             fk == f[k]
             gk == g[k]
             hk == h[k]
             w1 == G * ek - T1 * gk - T2 * hk
             w2 == G * fk - T1 * hk + T2 * gk
  <2>1. ek \in Int /\ fk \in Int /\ gk \in Int /\ hk \in Int
    OBVIOUS
  <2>2. all[k] = c1 * (ek * ek + fk * fk) + c2 * (ek * gk + fk * hk)
                 + c3 * (ek * hk - fk * gk) + c4 * (gk * gk + hk * hk)
    <3>1. all[k] = c1 * fe[k] + c2 * ft[k] + c3 * fu[k] + c4 * fg[k] + 0 * fg[k]
      OBVIOUS
    <3>2. 0 * fg[k] = 0 /\ c4 * fg[k] \in Int /\ c1 * fe[k] \in Int /\ c2 * ft[k] \in Int
          /\ c3 * fu[k] \in Int
      <4> HIDE DEF c1, c2, c3, c4
      <4> QED
        BY <1>1, <1>4
    <3> HIDE DEF all, c1, c2, c3, c4
    <3> QED
      BY <3>1, <3>2, <1>1
  <2> HIDE DEF ek, fk, gk, hk, all
  <2>3. all[k] = w1 * w1 + w2 * w2
    <3>1. c1 * (ek * ek + fk * fk) + c2 * (ek * gk + fk * hk)
          + c3 * (ek * hk - fk * gk) + c4 * (gk * gk + hk * hk) = w1 * w1 + w2 * w2
      BY ONLY <1>3, <2>1
    <3> QED
      BY ONLY <2>2, <3>1
  <2>4. w1 \in Int /\ w2 \in Int
    BY <1>3, <2>1
  <2> HIDE DEF w1, w2
  <2>5. \A n \in Int : n * n \in Nat
    OBVIOUS
  <2>6. w1 * w1 \in Nat /\ w2 * w2 \in Nat
    BY <2>4, <2>5
  <2> QED
    BY <2>3, <2>6
<1>6. Sum(all) \in Nat
  <2> HIDE DEF all
  <2>1. all[1] \in Nat /\ all[2] \in Nat /\ all[3] \in Nat /\ all[4] \in Nat /\ all[5] \in Nat
    BY <1>5
  <2> QED
    BY <2>1 DEF Sum
<1>7. Sum(all) = c1 * E + c2 * T1 + c3 * T2 + c4 * G + 0 * G
  <2>1. \A k \in 1..5 : all[k] = c1 * fe[k] + c2 * ft[k] + c3 * fu[k] + c4 * fg[k] + 0 * fg[k]
    OBVIOUS
  <2> HIDE DEF all, c1, c2, c3, c4
  <2>2. Sum(all) = c1 * Sum(fe) + c2 * Sum(ft) + c3 * Sum(fu) + c4 * Sum(fg) + 0 * Sum(fg)
    BY ONLY <1>1, <1>4, <2>1, 0 \in Int, SumOfFive
  <2> QED
    BY <1>2, <2>2
<1> DEFINE gap == G * E - (T1 * T1 + T2 * T2)
<1>8. Sum(all) = G * gap /\ gap \in Int
  <2> HIDE DEF all
  <2> QED
    BY <1>3, <1>7
<1> HIDE DEF all, gap
<1>9. gap >= 0
  BY ONLY <1>3, <1>6, <1>8, G > 0
<1> QED
  BY <1>3, <1>9 DEF gap

-----------------------------------------------------------------------------
(* The error of the fit, and why a face with a small one can be aligned to *)
(* a template of nearly the same shape.                                    *)

\* The coordinates of a template about their mean, times five.
MidX(dst) == [k \in 1..5 |-> 5 * dst[k][1] - Side3(dst)]
MidY(dst) == [k \in 1..5 |-> 5 * dst[k][2] - Side4(dst)]

LEMMA MidSums ==
  ASSUME NEW lm \in Five, NEW dst \in Five
  PROVE  LET g == MidX(dst)  h == MidY(dst)
         IN  /\ Sum(g) = 0 /\ Sum(h) = 0
             /\ Sum([k \in 1..5 |-> lm[k][1] * g[k] + lm[k][2] * h[k]]) = Cosine(lm, dst)
             /\ Sum([k \in 1..5 |-> lm[k][1] * h[k] - lm[k][2] * g[k]]) = Sine(lm, dst)
             /\ Sum([k \in 1..5 |-> g[k] * g[k] + h[k] * h[k]]) = 5 * Det(dst)
<1> DEFINE x(k) == lm[k][1]
           y(k) == lm[k][2]
           s(k) == dst[k][1]
           t(k) == dst[k][2]
           g == MidX(dst)
           h == MidY(dst)
           sg == Side3(dst)
           sh == Side4(dst)
<1>1. \A k \in 1..5 : x(k) \in Int /\ y(k) \in Int /\ s(k) \in Int /\ t(k) \in Int
  BY DEF Five
<1>2. \A k \in 1..5 : g[k] = 5 * s(k) - sg /\ h[k] = 5 * t(k) - sh
  BY DEF MidX, MidY
<1>3. sg \in Int /\ sh \in Int
  BY SumsAreWhole
<1>4. sg = s(1) + s(2) + s(3) + s(4) + s(5) /\ sh = t(1) + t(2) + t(3) + t(4) + t(5)
  BY DEF Side3, Side4, Sum
<1>5. SumX(lm) = x(1) + x(2) + x(3) + x(4) + x(5) /\ SumY(lm) = y(1) + y(2) + y(3) + y(4) + y(5)
  BY DEF SumX, SumY, Sum
<1>6. Side1(lm, dst) = (x(1) * s(1) + y(1) * t(1)) + (x(2) * s(2) + y(2) * t(2))
        + (x(3) * s(3) + y(3) * t(3)) + (x(4) * s(4) + y(4) * t(4)) + (x(5) * s(5) + y(5) * t(5))
  BY DEF Side1, Sum
<1>7. Side2(lm, dst) = (x(1) * t(1) - y(1) * s(1)) + (x(2) * t(2) - y(2) * s(2))
        + (x(3) * t(3) - y(3) * s(3)) + (x(4) * t(4) - y(4) * s(4)) + (x(5) * t(5) - y(5) * s(5))
  BY DEF Side2, Sum
<1>8. Squares(dst) = (s(1) * s(1) + t(1) * t(1)) + (s(2) * s(2) + t(2) * t(2))
        + (s(3) * s(3) + t(3) * t(3)) + (s(4) * s(4) + t(4) * t(4)) + (s(5) * s(5) + t(5) * t(5))
  BY DEF Squares, Sum
<1>9. SumX(dst) = sg /\ SumY(dst) = sh
  BY DEF SumX, SumY, Side3, Side4
<1>10. Cosine(lm, dst) = 5 * Side1(lm, dst) - SumX(lm) * sg - SumY(lm) * sh
  BY DEF Cosine, Scale
<1>11. Sine(lm, dst) = 5 * Side2(lm, dst) + SumY(lm) * sg - SumX(lm) * sh
  BY DEF Sine, Turned
<1>12. Det(dst) = 5 * Squares(dst) - sg * sg - sh * sh
  BY <1>9 DEF Det, Spread
<1>13. Sum(g) = g[1] + g[2] + g[3] + g[4] + g[5] /\ Sum(h) = h[1] + h[2] + h[3] + h[4] + h[5]
  BY DEF Sum
<1>14. Sum([k \in 1..5 |-> lm[k][1] * g[k] + lm[k][2] * h[k]])
       = (x(1) * g[1] + y(1) * h[1]) + (x(2) * g[2] + y(2) * h[2]) + (x(3) * g[3] + y(3) * h[3])
         + (x(4) * g[4] + y(4) * h[4]) + (x(5) * g[5] + y(5) * h[5])
  <2> HIDE DEF g, h
  <2> QED
    BY DEF Sum
<1>15. Sum([k \in 1..5 |-> lm[k][1] * h[k] - lm[k][2] * g[k]])
       = (x(1) * h[1] - y(1) * g[1]) + (x(2) * h[2] - y(2) * g[2]) + (x(3) * h[3] - y(3) * g[3])
         + (x(4) * h[4] - y(4) * g[4]) + (x(5) * h[5] - y(5) * g[5])
  <2> HIDE DEF g, h
  <2> QED
    BY DEF Sum
<1>16. Sum([k \in 1..5 |-> g[k] * g[k] + h[k] * h[k]])
       = (g[1] * g[1] + h[1] * h[1]) + (g[2] * g[2] + h[2] * h[2]) + (g[3] * g[3] + h[3] * h[3])
         + (g[4] * g[4] + h[4] * h[4]) + (g[5] * g[5] + h[5] * h[5])
  <2> HIDE DEF g, h
  <2> QED
    BY DEF Sum
<1> HIDE DEF x, y, s, t, g, h, sg, sh
<1>17. /\ x(1) \in Int /\ x(2) \in Int /\ x(3) \in Int /\ x(4) \in Int /\ x(5) \in Int
       /\ y(1) \in Int /\ y(2) \in Int /\ y(3) \in Int /\ y(4) \in Int /\ y(5) \in Int
       /\ s(1) \in Int /\ s(2) \in Int /\ s(3) \in Int /\ s(4) \in Int /\ s(5) \in Int
       /\ t(1) \in Int /\ t(2) \in Int /\ t(3) \in Int /\ t(4) \in Int /\ t(5) \in Int
  BY <1>1
<1>18. /\ g[1] = 5 * s(1) - sg /\ g[2] = 5 * s(2) - sg /\ g[3] = 5 * s(3) - sg
       /\ g[4] = 5 * s(4) - sg /\ g[5] = 5 * s(5) - sg
       /\ h[1] = 5 * t(1) - sh /\ h[2] = 5 * t(2) - sh /\ h[3] = 5 * t(3) - sh
       /\ h[4] = 5 * t(4) - sh /\ h[5] = 5 * t(5) - sh
  BY <1>2
<1>19. Sum(g) = 0 /\ Sum(h) = 0
  BY ONLY <1>4, <1>13, <1>17, <1>18
<1>20. Sum([k \in 1..5 |-> lm[k][1] * g[k] + lm[k][2] * h[k]]) = Cosine(lm, dst)
  BY ONLY <1>3, <1>5, <1>6, <1>10, <1>14, <1>17, <1>18
<1>21. Sum([k \in 1..5 |-> lm[k][1] * h[k] - lm[k][2] * g[k]]) = Sine(lm, dst)
  BY ONLY <1>3, <1>5, <1>7, <1>11, <1>15, <1>17, <1>18
<1>22. Sum([k \in 1..5 |-> g[k] * g[k] + h[k] * h[k]]) = 5 * Det(dst)
  <2>1. ASSUME NEW a1 \in Int, NEW a2 \in Int, NEW a3 \in Int, NEW a4 \in Int, NEW a5 \in Int,
               NEW m \in Int, m = a1 + a2 + a3 + a4 + a5
        PROVE  (5 * a1 - m) * (5 * a1 - m) + (5 * a2 - m) * (5 * a2 - m)
               + (5 * a3 - m) * (5 * a3 - m) + (5 * a4 - m) * (5 * a4 - m)
               + (5 * a5 - m) * (5 * a5 - m)
               = 25 * (a1 * a1 + a2 * a2 + a3 * a3 + a4 * a4 + a5 * a5) - 5 * (m * m)
    <3>1. (5 * a1 - m) * (5 * a1 - m) + (5 * a2 - m) * (5 * a2 - m)
          + (5 * a3 - m) * (5 * a3 - m) + (5 * a4 - m) * (5 * a4 - m)
          + (5 * a5 - m) * (5 * a5 - m)
          = 25 * (a1 * a1 + a2 * a2 + a3 * a3 + a4 * a4 + a5 * a5)
            + (5 * (m * m) - 10 * (m * (a1 + a2 + a3 + a4 + a5)))
      BY ONLY <2>1
    <3>2. m * (a1 + a2 + a3 + a4 + a5) = m * m
      BY <2>1
    <3> QED
      BY ONLY <2>1, <3>1, <3>2
  <2>2. g[1] * g[1] + g[2] * g[2] + g[3] * g[3] + g[4] * g[4] + g[5] * g[5]
        = 25 * (s(1) * s(1) + s(2) * s(2) + s(3) * s(3) + s(4) * s(4) + s(5) * s(5)) - 5 * (sg * sg)
    BY ONLY <1>3, <1>4, <1>17, <1>18, <2>1
  <2>3. h[1] * h[1] + h[2] * h[2] + h[3] * h[3] + h[4] * h[4] + h[5] * h[5]
        = 25 * (t(1) * t(1) + t(2) * t(2) + t(3) * t(3) + t(4) * t(4) + t(5) * t(5)) - 5 * (sh * sh)
    BY ONLY <1>3, <1>4, <1>17, <1>18, <2>1
  <2>4. /\ g[1] \in Int /\ g[2] \in Int /\ g[3] \in Int /\ g[4] \in Int /\ g[5] \in Int
        /\ h[1] \in Int /\ h[2] \in Int /\ h[3] \in Int /\ h[4] \in Int /\ h[5] \in Int
    BY ONLY <1>3, <1>17, <1>18
  <2> DEFINE gg == g[1] * g[1] + g[2] * g[2] + g[3] * g[3] + g[4] * g[4] + g[5] * g[5]
             hh == h[1] * h[1] + h[2] * h[2] + h[3] * h[3] + h[4] * h[4] + h[5] * h[5]
             ss == s(1) * s(1) + s(2) * s(2) + s(3) * s(3) + s(4) * s(4) + s(5) * s(5)
             tt == t(1) * t(1) + t(2) * t(2) + t(3) * t(3) + t(4) * t(4) + t(5) * t(5)
  <2>5. Sum([k \in 1..5 |-> g[k] * g[k] + h[k] * h[k]]) = gg + hh
    <3>1. (g[1] * g[1] + h[1] * h[1]) + (g[2] * g[2] + h[2] * h[2])
          + (g[3] * g[3] + h[3] * h[3]) + (g[4] * g[4] + h[4] * h[4])
          + (g[5] * g[5] + h[5] * h[5]) = gg + hh
      BY ONLY <2>4
    <3> QED
      BY ONLY <1>16, <3>1
  <2>6. Squares(dst) = ss + tt
    BY ONLY <1>8, <1>17
  <2>7. ss \in Int /\ tt \in Int /\ sg * sg \in Int /\ sh * sh \in Int
    BY ONLY <1>3, <1>17
  <2> HIDE DEF gg, hh, ss, tt
  <2>8. gg = 25 * ss - 5 * (sg * sg) /\ hh = 25 * tt - 5 * (sh * sh)
    BY ONLY <2>2, <2>3 DEF gg, hh, ss, tt
  <2>9. gg + hh = 5 * (5 * (ss + tt) - sg * sg - sh * sh)
    BY ONLY <2>7, <2>8
  <2> QED
    BY ONLY <1>12, <2>5, <2>6, <2>9
<1> QED
  BY <1>19, <1>20, <1>21, <1>22 DEF g, h

\* How far the fit takes landmark k from the template, times the determinant.
MissX(lm, dst) == [k \in 1..5 |-> Cosine(lm, dst) * lm[k][1] - Sine(lm, dst) * lm[k][2]
                                  + ShiftX(lm, dst) - Det(lm) * dst[k][1]]
MissY(lm, dst) == [k \in 1..5 |-> Sine(lm, dst) * lm[k][1] + Cosine(lm, dst) * lm[k][2]
                                  + ShiftY(lm, dst) - Det(lm) * dst[k][2]]
Miss(lm, dst) == Sum([k \in 1..5 |-> MissX(lm, dst)[k] * MissX(lm, dst)[k]
                                     + MissY(lm, dst)[k] * MissY(lm, dst)[k]])

LEMMA MissIsWhole ==
  ASSUME NEW lm \in Five, NEW dst \in Five
  PROVE  /\ \A k \in 1..5 : MissX(lm, dst)[k] \in Int /\ MissY(lm, dst)[k] \in Int
         /\ Miss(lm, dst) \in Int
<1>1. \A k \in 1..5 : MissX(lm, dst)[k] \in Int /\ MissY(lm, dst)[k] \in Int
  <2> SUFFICES ASSUME NEW k \in 1..5
               PROVE  MissX(lm, dst)[k] \in Int /\ MissY(lm, dst)[k] \in Int
    OBVIOUS
  <2>1. lm[k][1] \in Int /\ lm[k][2] \in Int /\ dst[k][1] \in Int /\ dst[k][2] \in Int
    BY DEF Five
  <2>2. /\ Cosine(lm, dst) \in Int /\ Sine(lm, dst) \in Int /\ Det(lm) \in Int
        /\ ShiftX(lm, dst) \in Int /\ ShiftY(lm, dst) \in Int
    BY FitsAreWhole
  <2> QED
    BY <2>1, <2>2 DEF MissX, MissY
<1> DEFINE f == [k \in 1..5 |-> MissX(lm, dst)[k] * MissX(lm, dst)[k]
                                + MissY(lm, dst)[k] * MissY(lm, dst)[k]]
<1>2. \A k \in 1..5 : f[k] \in Int
  BY <1>1
<1> HIDE DEF f
<1>3. Sum(f) \in Int
  BY <1>2, SumIsWhole
<1> QED
  BY <1>1, <1>3 DEF Miss, f

\* The error that GoodFit looks at.
LEMMA ErrorIs ==
  ASSUME NEW lm \in Five, NEW dst \in Five, NEW q, IsFit(q, lm, dst)
  PROVE  Is(SquaredError(q, lm, dst), Miss(lm, dst), Det(lm) * Det(lm))
<1> DEFINE d == Det(lm)
           ex == MissX(lm, dst)
           ey == MissY(lm, dst)
<1>1. /\ Is(q[1], Cosine(lm, dst), d) /\ Is(q[2], Sine(lm, dst), d)
      /\ Is(q[3], ShiftX(lm, dst), d) /\ Is(q[4], ShiftY(lm, dst), d)
  BY DEF IsFit
<1>2. d \in Nat \ {0}
  BY <1>1, Parts
<1>3. ASSUME NEW k \in 1..5
      PROVE  Is(Residual(q, lm, dst, k), ex[k] * ex[k] + ey[k] * ey[k], d * d)
  <2> DEFINE s == dst[k][1]
             t == dst[k][2]
             nu == Cosine(lm, dst) * lm[k][1] - Sine(lm, dst) * lm[k][2] + ShiftX(lm, dst)
             nv == Sine(lm, dst) * lm[k][1] + Cosine(lm, dst) * lm[k][2] + ShiftY(lm, dst)
             du == Sub(U(q, lm[k]), Int2Rat(s))
             dv == Sub(V(q, lm[k]), Int2Rat(t))
  <2>1. lm[k][1] \in Int /\ lm[k][2] \in Int /\ s \in Int /\ t \in Int
    BY DEF Five
  <2>2. Is(U(q, lm[k]), nu, d) /\ Is(V(q, lm[k]), nv, d)
    BY <1>1, <2>1, ImageIs
  <2>3. ex[k] = nu - d * s /\ ey[k] = nv - d * t
    BY <2>1, FitsAreWhole DEF MissX, MissY
  <2> HIDE DEF s, t, nu, nv, d, ex, ey
  <2>4. Is(Int2Rat(s), s, 1) /\ Is(Int2Rat(t), t, 1)
    BY <2>1, WholeIs
  <2>5. Is(Int2Rat(s), d * s, d) /\ Is(Int2Rat(t), d * t, d)
    <3>1. d * s \in Int /\ d * t \in Int /\ s * d = (d * s) * 1 /\ t * d = (d * t) * 1
      BY <1>2, <2>1
    <3> QED
      BY ONLY <1>2, <2>4, <3>1, Rescale
  <2>6. Is(du, ex[k], d) /\ Is(dv, ey[k], d)
    BY <2>2, <2>3, <2>5, SubIs
  <2>7. Residual(q, lm, dst, k) = Add(Mul(du, du), Mul(dv, dv))
    BY DEF Residual, Square, s, t
  <2> HIDE DEF du, dv
  <2>8. Is(Mul(du, du), ex[k] * ex[k], d * d) /\ Is(Mul(dv, dv), ey[k] * ey[k], d * d)
    BY <2>6, MulIs
  <2> QED
    BY <2>7, <2>8, AddIs
<1> DEFINE r(k) == Residual(q, lm, dst, k)
           m(k) == ex[k] * ex[k] + ey[k] * ey[k]
<1>4. Miss(lm, dst) = m(1) + m(2) + m(3) + m(4) + m(5)
  BY DEF Miss, Sum
<1>5. \A k \in 1..5 : m(k) \in Int
  BY MissIsWhole
<1>6. SquaredError(q, lm, dst) = Add(r(1), Add(r(2), Add(r(3), Add(r(4), r(5)))))
  BY DEF SquaredError
<1>7. /\ Is(r(1), m(1), d * d) /\ Is(r(2), m(2), d * d) /\ Is(r(3), m(3), d * d)
      /\ Is(r(4), m(4), d * d) /\ Is(r(5), m(5), d * d)
  BY <1>3
<1> HIDE DEF r, m, d
<1>8. Is(Add(r(4), r(5)), m(4) + m(5), d * d)
  BY <1>7, AddIs
<1>9. Is(Add(r(3), Add(r(4), r(5))), m(3) + (m(4) + m(5)), d * d)
  BY <1>7, <1>8, AddIs
<1>10. Is(Add(r(2), Add(r(3), Add(r(4), r(5)))), m(2) + (m(3) + (m(4) + m(5))), d * d)
  BY <1>7, <1>9, AddIs
<1>11. Is(SquaredError(q, lm, dst), m(1) + (m(2) + (m(3) + (m(4) + m(5)))), d * d)
  BY <1>6, <1>7, <1>10, AddIs
<1>12. m(1) + (m(2) + (m(3) + (m(4) + m(5)))) = Miss(lm, dst)
  BY <1>4, <1>5
<1> QED
  BY <1>11, <1>12 DEF d

\* A fit with a small error: the landmarks are correlated with any template
\* that is more correlated with this one than the error is large.
LEMMA SmallErrorCorrelates ==
  ASSUME NEW lm \in Five, lm[1] # lm[2], NEW dst \in Five, NEW other \in Five,
         NEW M \in Nat, Miss(lm, dst) <= 5 * M * (Det(lm) * Det(lm)), Det(other) > 0,
         Cosine(dst, other) * Cosine(dst, other) + Sine(dst, other) * Sine(dst, other)
           > 25 * M * Det(other)
  PROVE  Cosine(lm, other) # 0 \/ Sine(lm, other) # 0
<1> SUFFICES ASSUME Cosine(lm, other) = 0, Sine(lm, other) = 0 PROVE FALSE
  OBVIOUS
<1> DEFINE d == Det(lm)
           h1 == Cosine(lm, dst)
           h2 == Sine(lm, dst)
           n3 == ShiftX(lm, dst)
           n4 == ShiftY(lm, dst)
           c1 == Cosine(dst, other)
           c2 == Sine(dst, other)
           size == Det(other)
           g == MidX(other)
           h == MidY(other)
           ex == MissX(lm, dst)
           ey == MissY(lm, dst)
<1>1. d > 0
  BY LandmarkSizes DEF Sizes, Det
<1>2. /\ d \in Int /\ h1 \in Int /\ h2 \in Int /\ n3 \in Int /\ n4 \in Int
      /\ c1 \in Int /\ c2 \in Int /\ size \in Int /\ size > 0
  BY <1>1, FitsAreWhole
<1>3. \A k \in 1..5 : /\ lm[k][1] \in Int /\ lm[k][2] \in Int
                      /\ dst[k][1] \in Int /\ dst[k][2] \in Int
  BY <1>1 DEF Five
<1>4. \A k \in 1..5 : g[k] \in Int /\ h[k] \in Int
  <2>1. \A k \in 1..5 : other[k][1] \in Int /\ other[k][2] \in Int
    BY DEF Five
  <2>2. Side3(other) \in Int /\ Side4(other) \in Int
    BY SumsAreWhole
  <2> QED
    BY <2>1, <2>2 DEF MidX, MidY
<1>5. \A k \in 1..5 : ex[k] \in Int /\ ey[k] \in Int
  BY <1>1, MissIsWhole
<1>6. ASSUME NEW k \in 1..5
      PROVE  /\ ex[k] = h1 * lm[k][1] - h2 * lm[k][2] + n3 - d * dst[k][1]
             /\ ey[k] = h2 * lm[k][1] + h1 * lm[k][2] + n4 - d * dst[k][2]
  BY DEF MissX, MissY
<1> DEFINE fp == [k \in 1..5 |-> lm[k][1] * g[k] + lm[k][2] * h[k]]
           fr == [k \in 1..5 |-> lm[k][1] * h[k] - lm[k][2] * g[k]]
           fm == [k \in 1..5 |-> dst[k][1] * g[k] + dst[k][2] * h[k]]
           fo == [k \in 1..5 |-> dst[k][1] * h[k] - dst[k][2] * g[k]]
           ft == [k \in 1..5 |-> ex[k] * g[k] + ey[k] * h[k]]
           fu == [k \in 1..5 |-> ex[k] * h[k] - ey[k] * g[k]]
<1>7. Sum(g) = 0 /\ Sum(h) = 0 /\ Sum(fp) = 0 /\ Sum(fr) = 0
  BY <1>1, MidSums
<1>8. Sum(fm) = c1 /\ Sum(fo) = c2
  BY MidSums
<1>9. Sum([k \in 1..5 |-> g[k] * g[k] + h[k] * h[k]]) = 5 * size
  BY MidSums
<1> HIDE DEF d, h1, h2, n3, n4, c1, c2, size, g, h, ex, ey
<1>10. ASSUME NEW k \in 1..5
       PROVE  /\ fp[k] \in Int /\ fr[k] \in Int /\ fm[k] \in Int /\ fo[k] \in Int
              /\ ft[k] = h1 * fp[k] + h2 * fr[k] + n3 * g[k] + n4 * h[k] + (0 - d) * fm[k]
              /\ fu[k] = h1 * fr[k] + (0 - h2) * fp[k] + n3 * h[k] + (0 - n4) * g[k]
                         + (0 - d) * fo[k]
  <2> DEFINE x == lm[k][1]
             y == lm[k][2]
             s == dst[k][1]
             t == dst[k][2]
             gk == g[k]
             hk == h[k]
  <2>1. x \in Int /\ y \in Int /\ s \in Int /\ t \in Int /\ gk \in Int /\ hk \in Int
    BY <1>3, <1>4
  <2>2. ex[k] = h1 * x - h2 * y + n3 - d * s /\ ey[k] = h2 * x + h1 * y + n4 - d * t
    BY <1>6
  <2>3. /\ fp[k] = x * gk + y * hk /\ fr[k] = x * hk - y * gk
        /\ fm[k] = s * gk + t * hk /\ fo[k] = s * hk - t * gk
        /\ ft[k] = ex[k] * gk + ey[k] * hk /\ fu[k] = ex[k] * hk - ey[k] * gk
    OBVIOUS
  <2> HIDE DEF x, y, s, t, gk, hk, fp, fr, fm, fo, ft, fu
  <2>4. fp[k] \in Int /\ fr[k] \in Int /\ fm[k] \in Int /\ fo[k] \in Int
    BY ONLY <2>1, <2>3
  <2>5. ft[k] = h1 * fp[k] + h2 * fr[k] + n3 * gk + n4 * hk + (0 - d) * fm[k]
    BY ONLY <1>2, <2>1, <2>2, <2>3
  <2>6. fu[k] = h1 * fr[k] + (0 - h2) * fp[k] + n3 * hk + (0 - n4) * gk + (0 - d) * fo[k]
    BY ONLY <1>2, <2>1, <2>2, <2>3
  <2> QED
    BY <2>4, <2>5, <2>6 DEF gk, hk
<1>11. Sum(ft) = (0 - d) * c1
  <2> HIDE DEF fp, fr, fm, fo, ft, fu
  <2>1. 0 - d \in Int
    BY <1>2
  <2>2. Sum(ft) = h1 * Sum(fp) + h2 * Sum(fr) + n3 * Sum(g) + n4 * Sum(h) + (0 - d) * Sum(fm)
    BY ONLY <1>2, <1>4, <1>10, <2>1, SumOfFive
  <2> QED
    BY ONLY <1>2, <1>7, <1>8, <2>1, <2>2
<1>12. Sum(fu) = (0 - d) * c2
  <2> HIDE DEF fp, fr, fm, fo, ft, fu
  <2>1. 0 - d \in Int /\ 0 - h2 \in Int /\ 0 - n4 \in Int
    BY <1>2
  <2>2. Sum(fu) = h1 * Sum(fr) + (0 - h2) * Sum(fp) + n3 * Sum(h) + (0 - n4) * Sum(g)
                  + (0 - d) * Sum(fo)
    BY ONLY <1>2, <1>4, <1>10, <2>1, SumOfFive
  <2> QED
    BY ONLY <1>2, <1>7, <1>8, <2>1, <2>2
<1> DEFINE E == Miss(lm, dst)
<1>13. E = Sum([k \in 1..5 |-> ex[k] * ex[k] + ey[k] * ey[k]])
  BY DEF Miss, ex, ey
<1>14. E \in Int /\ E <= 5 * M * (d * d)
  BY <1>1, MissIsWhole DEF d
<1>15. c1 * c1 + c2 * c2 > 25 * M * size
  BY DEF c1, c2, size
<1> HIDE DEF E
<1>16. Sum(ft) * Sum(ft) + Sum(fu) * Sum(fu) <= (5 * size) * E
  <2>1. 5 * size > 0
    BY <1>2
  <2>2. Sum(ft) = Sum([k \in 1..5 |-> ex[k] * g[k] + ey[k] * h[k]])
        /\ Sum(fu) = Sum([k \in 1..5 |-> ex[k] * h[k] - ey[k] * g[k]])
    OBVIOUS
  <2>3. 5 * size = Sum([k \in 1..5 |-> g[k] * g[k] + h[k] * h[k]])
    BY <1>9
  <2> HIDE DEF ft, fu
  <2> QED
    BY ONLY <1>4, <1>5, <1>13, <2>1, <2>2, <2>3, CauchySchwarz
<1> HIDE DEF ft, fu
<1>17. (d * d) * (c1 * c1 + c2 * c2) <= (5 * size) * E
  <2>1. Sum(ft) * Sum(ft) + Sum(fu) * Sum(fu) = (d * d) * (c1 * c1 + c2 * c2)
    BY ONLY <1>2, <1>11, <1>12
  <2> QED
    BY <1>16, <2>1
<1>18. (5 * size) * E <= (d * d) * (25 * M * size)
  <2> DEFINE top == 5 * M * (d * d)
  <2>1. top \in Int
    BY <1>2
  <2>2. E <= top
    BY <1>14
  <2>3. (5 * size) * top = (d * d) * (25 * M * size)
    BY <1>2
  <2> HIDE DEF top
  <2>4. (5 * size) * E <= (5 * size) * top
    BY ONLY <1>2, <1>14, <2>1, <2>2
  <2> QED
    BY <2>3, <2>4
<1> DEFINE left == c1 * c1 + c2 * c2
           right == 25 * M * size
           dd == d * d
<1>19. left \in Int /\ right \in Int /\ dd \in Int /\ dd > 0 /\ (5 * size) * E \in Int
  BY <1>1, <1>2, <1>14 DEF d
<1>20. dd * left <= (5 * size) * E /\ (5 * size) * E <= dd * right /\ left > right
  BY <1>15, <1>17, <1>18
<1> HIDE DEF left, right, dd
<1>21. dd * left <= dd * right
  <2> DEFINE m == (5 * size) * E
  <2> HIDE DEF m
  <2>1. m \in Int /\ dd * left <= m /\ m <= dd * right
    BY <1>19, <1>20 DEF m
  <2>2. dd * left \in Int /\ dd * right \in Int
    BY <1>19
  <2> QED
    BY ONLY <2>1, <2>2
<1>22. left <= right
  BY ONLY <1>19, <1>21
<1> QED
  BY ONLY <1>19, <1>20, <1>22

\* What GoodFit says of the error.
LEMMA BoundedError ==
  ASSUME NEW x, NEW n, NEW d, NEW M \in Nat, Is(x, n, d), x[1] <= 5 * M * x[2]
  PROVE  n <= 5 * M * d
<1> DEFINE x1 == x[1]
           x2 == x[2]
           c == 5 * M
<1>1. n \in Int /\ d \in Nat \ {0} /\ x1 \in Int /\ x2 \in Nat \ {0} /\ x1 * d = n * x2
  BY Parts
<1>2. x1 <= c * x2 /\ c \in Nat
  OBVIOUS
<1> HIDE DEF x1, x2, c
<1>3. n * x2 <= (c * d) * x2
  <2> DEFINE top == c * x2
  <2>1. top \in Int /\ x1 <= top /\ top * d = (c * d) * x2
    BY <1>1, <1>2
  <2> HIDE DEF top
  <2>2. x1 * d <= top * d
    BY ONLY <1>1, <2>1
  <2> QED
    BY <1>1, <2>1, <2>2
<1> DEFINE r == c * d
<1>4. r \in Int /\ n * x2 <= r * x2
  BY <1>1, <1>2, <1>3
<1> HIDE DEF r
<1>5. n <= r
  BY ONLY <1>1, <1>4
<1> QED
  BY <1>5 DEF r, c

-----------------------------------------------------------------------------
(* The estimates, one after the other.                                     *)

Stages == {"quality", "liveness", "arcface"}

\* The landmarks and the template are correlated: the scale is not zero.
Correlated(lm, dst) == Cosine(lm, dst) # 0 \/ Sine(lm, dst) # 0

\* What quality() has seen to when it lets a face through.
PassedQuality(lm) ==
  /\ lm[1] # lm[2] /\ Correlated(lm, ArcFaceDst)
  /\ Miss(lm, ArcFaceDst) <= 5 * MaxSquaredRmse * (Det(lm) * Det(lm))

\* A transform that was found.
SoundFit(f, lm, s) ==
  f.found => /\ lm[1] # lm[2] /\ Correlated(lm, Template(s))
             /\ IsFit(f.p, lm, Template(s)) /\ f.inverse = DstToSrc(f.p)

\* The inductive invariant: the elimination is where the closed form says it
\* is, and a stage after quality() has landmarks that passed it.
AlignInvariant ==
  /\ landmarks \in Five /\ stage \in Stages /\ pc # "dead"
  /\ pc \in {"solve", "finish"} => landmarks[1] # landmarks[2]
  /\ pc = "solve" => col \in 1..4 /\ StateOf(col, A, b, landmarks, Template(stage))
  /\ pc = "finish" => IsFit(b, landmarks, Template(stage))
  /\ stage # "quality" => PassedQuality(landmarks)
  /\ DOMAIN fit = Stages /\ \A s \in Stages : SoundFit(fit[s], landmarks, s)

LEMMA Templates ==
  AlignmentAssumption => \A s : Template(s) \in Five
BY DEF AlignmentAssumption, Template, Five

\* The liveness template is correlated with every face that passed.
LEMMA AlikeTemplates ==
  ASSUME AlignmentAssumption, NEW lm \in Five, PassedQuality(lm), NEW s \in Stages
  PROVE  Correlated(lm, Template(s))
<1> DEFINE C == Cosine(ArcFaceDst, LivenessDst)
           S == Sine(ArcFaceDst, LivenessDst)
           D == Det(LivenessDst)
<1>1. ArcFaceDst \in Five /\ LivenessDst \in Five /\ MaxSquaredRmse \in Nat
  BY DEF AlignmentAssumption, Five
<1>2. D > 0 /\ C * C + S * S > 25 * MaxSquaredRmse * D
  <2> DEFINE sx == [k \in 1..5 |-> ArcFaceDst[k][1]]
             ty == [k \in 1..5 |-> ArcFaceDst[k][2]]
             gx == [k \in 1..5 |-> LivenessDst[k][1]]
             hy == [k \in 1..5 |-> LivenessDst[k][2]]
  <2>1. TemplatesAlike
    BY DEF AlignmentAssumption
  <2>2. /\ Centred(gx, gx) + Centred(hy, hy) > 0
        /\ (Centred(sx, gx) + Centred(ty, hy)) * (Centred(sx, gx) + Centred(ty, hy))
           + (Centred(sx, hy) - Centred(ty, gx)) * (Centred(sx, hy) - Centred(ty, gx))
           > 25 * MaxSquaredRmse * (Centred(gx, gx) + Centred(hy, hy))
    BY <2>1, Zenon DEF TemplatesAlike
  <2>3. Centred(gx, gx) + Centred(hy, hy) = D
    BY <1>1, CentredSums, Zenon
  <2>4. Centred(sx, gx) + Centred(ty, hy) = C /\ Centred(sx, hy) - Centred(ty, gx) = S
    BY <1>1, CentredSums, Zenon
  <2> HIDE DEF sx, ty, gx, hy, C, S, D
  <2> QED
    BY <2>2, <2>3, <2>4, Zenon
<1>3. Correlated(lm, LivenessDst)
  BY <1>1, <1>2, SmallErrorCorrelates DEF PassedQuality, Correlated
<1> QED
  BY <1>3 DEF PassedQuality, Template

LEMMA AlignInit == AlignmentAssumption /\ Init => AlignInvariant
<1> SUFFICES ASSUME AlignmentAssumption, Init PROVE AlignInvariant
  OBVIOUS
<1>1. landmarks \in Five /\ stage = "quality" /\ pc = "enter"
  BY DEF Init, AlignmentAssumption, Five
<1>2. DOMAIN fit = Stages /\ \A s \in Stages : ~ fit[s].found
  BY DEF Init, NoFit, Stages
<1> QED
  BY <1>1, <1>2 DEF AlignInvariant, SoundFit, Stages

\* Entering an estimate sets up the normal equations.
LEMMA EnterKeeps == AlignmentAssumption /\ AlignInvariant /\ Enter => AlignInvariant'
<1> SUFFICES ASSUME AlignmentAssumption, AlignInvariant, Enter PROVE AlignInvariant'
  OBVIOUS
<1>1. landmarks' = landmarks /\ stage' = stage /\ fit' = fit
  BY DEF Enter
<1>2. landmarks \in Five /\ Template(stage) \in Five
  BY Templates DEF AlignInvariant
<1>3. StateOf(1, Ata(landmarks), Atb(landmarks, Template(stage)), landmarks, Template(stage))
  BY <1>2, Begins
<1>4. pc' \in {"reject", "solve"} /\ (pc' = "solve" => landmarks[1] # landmarks[2])
  BY DEF Enter, AlignInvariant, PassedQuality
<1>5. col' = 1 /\ A' = Ata(landmarks) /\ b' = Atb(landmarks, Template(stage))
  BY DEF Enter
<1>6. StateOf(1, A', b', landmarks, Template(stage))
  BY <1>3, <1>5
<1>7. Template(stage)' = Template(stage)
  BY <1>1 DEF Template
<1>8. (stage # "quality" => PassedQuality(landmarks))'
  BY <1>1 DEF AlignInvariant, PassedQuality
<1>9. (DOMAIN fit = Stages /\ \A s \in Stages : SoundFit(fit[s], landmarks, s))'
  BY <1>1 DEF AlignInvariant, SoundFit, Template
<1>10. (landmarks \in Five /\ stage \in Stages /\ pc # "dead")'
  BY <1>1, <1>4 DEF AlignInvariant
<1>11. (pc \in {"solve", "finish"} => landmarks[1] # landmarks[2])'
  BY <1>1, <1>4
<1>12. (pc = "solve" => col \in 1..4 /\ StateOf(col, A, b, landmarks, Template(stage)))'
  <2>1. col' \in 1..4
    BY <1>5
  <2>2. StateOf(col', A', b', landmarks', Template(stage)')
    BY <1>1, <1>5, <1>6, <1>7
  <2> QED
    BY <2>1, <2>2
<1>13. (pc = "finish" => IsFit(b, landmarks, Template(stage)))'
  BY <1>4
<1> QED
  BY <1>8, <1>9, <1>10, <1>11, <1>12, <1>13 DEF AlignInvariant

\* A turn of solve4 never meets a column of zeros: it does not throw.
LEMMA SolveKeeps == AlignmentAssumption /\ AlignInvariant /\ Solve => AlignInvariant'
<1> SUFFICES ASSUME AlignmentAssumption, AlignInvariant, Solve PROVE AlignInvariant'
  OBVIOUS
<1> DEFINE dst == Template(stage)
           M == Swapped(A, col, col)
           h == Swapped(b, col, col)
<1>1. landmarks' = landmarks /\ stage' = stage /\ fit' = fit /\ pc = "solve"
  BY DEF Solve
<1>2. landmarks \in Five /\ dst \in Five /\ landmarks[1] # landmarks[2]
      /\ col \in 1..4 /\ StateOf(col, A, b, landmarks, dst)
  BY <1>1, Templates DEF AlignInvariant
<1>3. /\ Pivot(A, col) = col /\ A[col][col][1] # 0
      /\ StateOf(col + 1, Eliminated(M, col), EliminatedSide(M, h, col), landmarks, dst)
  BY <1>2, SolveTurn, Zenon
<1>4. /\ A' = Eliminated(M, col) /\ b' = EliminatedSide(M, h, col)
      /\ col' = col + 1 /\ pc' = IF col = 4 THEN "finish" ELSE "solve"
  BY <1>3, Zenon DEF Solve
<1>5. Template(stage)' = dst
  BY <1>1 DEF Template
<1>6. StateOf(col', A', b', landmarks', Template(stage)')
  <2> HIDE DEF M, h, dst
  <2> QED
    BY <1>1, <1>3, <1>4, <1>5, Zenon
<1>7. (stage # "quality" => PassedQuality(landmarks))'
  BY <1>1 DEF AlignInvariant, PassedQuality
<1>8. (DOMAIN fit = Stages /\ \A s \in Stages : SoundFit(fit[s], landmarks, s))'
  BY <1>1 DEF AlignInvariant, SoundFit, Template
<1>9. (landmarks \in Five /\ stage \in Stages /\ pc # "dead")'
  BY <1>1, <1>4 DEF AlignInvariant
<1>10. (pc \in {"solve", "finish"} => landmarks[1] # landmarks[2])'
  BY <1>1, <1>2
<1>11. (pc = "solve" => col \in 1..4 /\ StateOf(col, A, b, landmarks, Template(stage)))'
  <2>1. pc' = "solve" => col' \in 1..4
    BY <1>2, <1>4
  <2> QED
    BY <1>6, <2>1, Zenon
<1>12. (pc = "finish" => IsFit(b, landmarks, Template(stage)))'
  <2>1. pc' = "finish" => col' = 5
    BY <1>2, <1>4
  <2>2. col' = 5 => StateOf(5, A', b', landmarks', Template(stage)')
    BY <1>6, Zenon
  <2>3. StateOf(5, A', b', landmarks', Template(stage)')
          => IsFit(b', landmarks', Template(stage)')
    BY SolvedIsFit, Zenon
  <2> QED
    BY <2>1, <2>2, <2>3, Zenon
<1> QED
  BY <1>7, <1>8, <1>9, <1>10, <1>11, <1>12 DEF AlignInvariant

\* The end of an estimate: what it found is the fit, and the scale vanishes
\* only for quality(), which catches what is thrown.
LEMMA FinishKeeps == AlignmentAssumption /\ AlignInvariant /\ Finish => AlignInvariant'
<1> SUFFICES ASSUME AlignmentAssumption, AlignInvariant, Finish PROVE AlignInvariant'
  OBVIOUS
<1> DEFINE dst == Template(stage)
           found == [found |-> TRUE, p |-> b, inverse |-> DstToSrc(b)]
<1>1. landmarks' = landmarks /\ pc = "finish"
  BY DEF Finish
<1>2. /\ landmarks \in Five /\ dst \in Five /\ landmarks[1] # landmarks[2]
      /\ IsFit(b, landmarks, dst) /\ stage \in Stages
  BY <1>1, Templates DEF AlignInvariant
<1>3. (b[1][1] # 0 \/ b[2][1] # 0) <=> Correlated(landmarks, dst)
  BY <1>2, ZeroWhen DEF IsFit, Correlated
<1>4. stage # "quality" => Correlated(landmarks, dst)
  BY <1>2, AlikeTemplates DEF AlignInvariant
<1>5. /\ stage # "quality" => PassedQuality(landmarks)
      /\ DOMAIN fit = Stages /\ \A s \in Stages : SoundFit(fit[s], landmarks, s)
  BY DEF AlignInvariant
<1>6. CASE ~ Correlated(landmarks, dst)
  <2>1. stage = "quality"
    BY <1>4, <1>6
  <2>2. pc' = "reject" /\ stage' = stage /\ fit' = fit
    BY <1>3, <1>6, <2>1 DEF Finish, Throws
  <2>3. (\A s \in Stages : SoundFit(fit[s], landmarks, s))'
    BY <1>1, <1>5, <2>2 DEF SoundFit, Template
  <2> QED
    BY <1>1, <1>2, <1>5, <2>1, <2>2, <2>3 DEF AlignInvariant
<1>7. CASE Correlated(landmarks, dst)
  <2>1. /\ fit' = [fit EXCEPT ![stage] = found]
        /\ IF stage = "quality" /\ ~ GoodFit(b)
           THEN pc' = "reject" /\ stage' = stage
           ELSE /\ pc' = IF stage = "arcface" THEN "aligned" ELSE "enter"
                /\ stage' = IF stage = "quality" THEN "liveness" ELSE "arcface"
    BY <1>3, <1>7 DEF Finish
  <2>2. SoundFit(found, landmarks, stage)
    BY <1>2, <1>7 DEF SoundFit
  <2>3. (DOMAIN fit = Stages /\ \A s \in Stages : SoundFit(fit[s], landmarks, s))'
    <3>1. DOMAIN fit' = Stages
      BY <1>5, <2>1
    <3>2. \A s \in Stages : fit'[s] = IF s = stage THEN found ELSE fit[s]
      BY <1>5, <2>1
    <3>3. \A s \in Stages : SoundFit(fit'[s], landmarks, s)
      <4> HIDE DEF found
      <4> QED
        BY <1>5, <2>2, <3>2
    <3> QED
      BY <1>1, <3>1, <3>3 DEF SoundFit, Template
  <2>4. stage = "quality" /\ GoodFit(b) => PassedQuality(landmarks)
    <3> SUFFICES ASSUME stage = "quality", GoodFit(b) PROVE PassedQuality(landmarks)
      OBVIOUS
    <3>1. dst = ArcFaceDst
      BY DEF Template
    <3>2. Is(SquaredError(b, landmarks, dst), Miss(landmarks, dst),
             Det(landmarks) * Det(landmarks))
      BY <1>2, ErrorIs
    <3>3. SquaredError(b, landmarks, dst)[1]
            <= 5 * MaxSquaredRmse * SquaredError(b, landmarks, dst)[2]
      BY Zenon DEF GoodFit
    <3>4. Miss(landmarks, dst) <= 5 * MaxSquaredRmse * (Det(landmarks) * Det(landmarks))
      <4>1. MaxSquaredRmse \in Nat
        BY DEF AlignmentAssumption
      <4> HIDE DEF dst
      <4> QED
        BY <3>2, <3>3, <4>1, BoundedError
    <3> QED
      BY <1>2, <1>7, <3>1, <3>4 DEF PassedQuality
  <2>5. (stage # "quality" => PassedQuality(landmarks))'
    <3>1. stage' # "quality" => PassedQuality(landmarks)
      BY <1>5, <2>1, <2>4
    <3> QED
      BY <1>1, <3>1 DEF PassedQuality
  <2>6. pc' \in {"reject", "aligned", "enter"} /\ stage' \in Stages
    BY <1>2, <2>1 DEF Stages
  <2> QED
    BY <1>1, <1>2, <2>3, <2>5, <2>6 DEF AlignInvariant
<1> QED
  BY <1>6, <1>7

LEMMA AlignStays == AlignInvariant /\ UNCHANGED vars => AlignInvariant'
BY DEF AlignInvariant, vars, SoundFit, Template, PassedQuality

LEMMA AlignNext == AlignmentAssumption /\ AlignInvariant /\ [Next]_vars => AlignInvariant'
BY EnterKeeps, SolveKeeps, FinishKeeps, AlignStays DEF Next, Ended

-----------------------------------------------------------------------------
(* What the invariant comes to.                                            *)

\* Two fits of the same landmarks to the same template are the same.
LEMMA OneFit ==
  ASSUME NEW q, NEW r, NEW lm, NEW dst, IsFit(q, lm, dst), IsFit(r, lm, dst)
  PROVE  \A n \in 1..4 : q[n] = r[n]
<1>1. q[1] = r[1] /\ q[2] = r[2] /\ q[3] = r[3] /\ q[4] = r[4]
  BY IsOne DEF IsFit
<1> QED
  BY <1>1

LEMMA FitsAreLeast == AlignmentAssumption /\ AlignInvariant => LeastSquares
<1> SUFFICES ASSUME AlignmentAssumption, AlignInvariant,
                    NEW s \in DOMAIN fit, fit[s].found
             PROVE  \A n \in 1..4 : fit[s].p[n] = ClosedForm(landmarks, Template(s))[n]
  BY Zenon DEF LeastSquares
<1>1. landmarks \in Five /\ Template(s) \in Five
  BY Templates DEF AlignInvariant
<1>2. landmarks[1] # landmarks[2] /\ IsFit(fit[s].p, landmarks, Template(s))
  BY DEF AlignInvariant, SoundFit
<1>3. IsFit(ClosedForm(landmarks, Template(s)), landmarks, Template(s))
  BY <1>1, <1>2, ClosedFormIsFit
<1> QED
  BY <1>2, <1>3, OneFit

LEMMA FitsTakeBack == AlignmentAssumption /\ AlignInvariant => InverseTakesBack
<1> SUFFICES ASSUME AlignmentAssumption, AlignInvariant,
                    NEW s \in DOMAIN fit, fit[s].found, NEW n \in 1..5
             PROVE  TakesBack(fit[s].p, fit[s].inverse, landmarks[n])
  BY Zenon DEF InverseTakesBack, TakesBack
<1> DEFINE q == fit[s].p
<1>1. landmarks[n][1] \in Int /\ landmarks[n][2] \in Int
  BY DEF AlignInvariant, Five
<1>2. IsFit(q, landmarks, Template(s)) /\ Correlated(landmarks, Template(s))
      /\ fit[s].inverse = DstToSrc(q)
  BY DEF AlignInvariant, SoundFit
<1>3. TakesBack(q, DstToSrc(q), landmarks[n])
  <2> HIDE DEF q
  <2> QED
    BY <1>1, <1>2, InverseIsInverse DEF IsFit, Correlated
<1> QED
  BY <1>2, <1>3

LEMMA AlignSound ==
  AlignmentAssumption /\ AlignInvariant
    => QualityMeansAlignable /\ LeastSquares /\ InverseTakesBack
BY FitsAreLeast, FitsTakeBack DEF AlignInvariant, QualityMeansAlignable

\* Whatever the landmarks, the size of the error quality() accepts and the
\* templates that are alike: a face that quality() lets through does not make
\* an estimate of the models throw, what solve4 returns is the least squares
\* fit, and dst_to_src inverts it on every landmark.
THEOREM AlignmentIsSound ==
  AlignmentAssumption =>
    (Spec => [](QualityMeansAlignable /\ LeastSquares /\ InverseTakesBack))
<1> SUFFICES ASSUME AlignmentAssumption
             PROVE  Spec => [](QualityMeansAlignable /\ LeastSquares /\ InverseTakesBack)
  OBVIOUS
<1>1. Init => AlignInvariant
  BY AlignInit
<1>2. AlignInvariant /\ [Next]_vars => AlignInvariant'
  BY AlignNext
<1>3. AlignInvariant => QualityMeansAlignable /\ LeastSquares /\ InverseTakesBack
  BY AlignSound
<1> QED
  BY <1>1, <1>2, <1>3, PTL DEF Spec
==============================================================================
