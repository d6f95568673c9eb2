-------------------------------- MODULE NttProofs --------------------------------
(***************************************************************************)
(* The transforms of ntt.c and the products of poly.c and polyvec.c, for   *)
(* every operand, table of twiddle factors and number of layers.           *)
(*                                                                         *)
(* First, the coefficients stay within the loop invariants: no addition    *)
(* leaves an int32_t, every product is in the domain in which Montgomery's *)
(* reduction is below Q, and the tables are read in range.  Second, what   *)
(* is computed is the product in the ring.                                 *)
(***************************************************************************)
EXTENDS Ntt, WellFoundedInduction, TLAPS

Half == R \div 2

LEMMA HalfFact == Half \in Nat /\ Half >= 1 /\ R = 2 * Half
BY NttAssumption, SMT DEF Half

LEMMA DegreeFact == N \in Nat /\ N >= 1
BY NttAssumption, SMT DEF N

-------------------------------------------------------------------------------
(***************************************************************************)
(* Arithmetic.                                                             *)
(***************************************************************************)

\* A product of two numbers that are bounded in absolute value.
LEMMA ProductBelow ==
  ASSUME NEW x \in Int, NEW y \in Int, NEW u \in Int, NEW v \in Int,
         u >= 1, -u <= x, x <= u, -v < y, y < v
  PROVE  -(u * v) < x * y /\ x * y < u * v
<1>1. v >= 1
  OBVIOUS
<1>2. CASE x >= 0 /\ y >= 0
  <2>1. x * y <= u * y  BY <1>2, SMT
  <2>2. u * y < u * v   BY <1>2, SMT
  <2>3. x * y >= 0      BY <1>2, SMT
  <2>  QED  BY <2>1, <2>2, <2>3, SMT
<1>3. CASE x >= 0 /\ y < 0
  <2>1. x * (-y) <= u * (-y)  BY <1>3, SMT
  <2>2. u * (-y) < u * v      BY <1>3, SMT
  <2>3. x * (-y) >= 0         BY <1>3, SMT
  <2>  QED  BY <2>1, <2>2, <2>3, SMT
<1>4. CASE x < 0 /\ y >= 0
  <2>1. (-x) * y <= u * y  BY <1>4, SMT
  <2>2. u * y < u * v      BY <1>4, SMT
  <2>3. (-x) * y >= 0      BY <1>4, SMT
  <2>  QED  BY <2>1, <2>2, <2>3, SMT
<1>5. CASE x < 0 /\ y < 0
  <2>1. (-x) * (-y) <= u * (-y)  BY <1>5, SMT
  <2>2. u * (-y) < u * v         BY <1>5, SMT
  <2>3. (-x) * (-y) >= 0         BY <1>5, SMT
  <2>  QED  BY <2>1, <2>2, <2>3, SMT
<1>  QED
  BY <1>2, <1>3, <1>4, <1>5

LEMMA ProductAtMost ==
  ASSUME NEW x \in Int, NEW y \in Int, NEW u \in Int, NEW v \in Int,
         -u <= x, x <= u, -v <= y, y <= v
  PROVE  -(u * v) <= x * y /\ x * y <= u * v
<1>1. (u - x) * (v - y) >= 0 /\ (u + x) * (v + y) >= 0
  BY SMT
<1>2. (u - x) * (v + y) >= 0 /\ (u + x) * (v - y) >= 0
  BY SMT
<1>3. (u - x) * (v - y) + (u + x) * (v + y) = 2 * (u * v) + 2 * (x * y)
  BY SMT
<1>4. (u - x) * (v + y) + (u + x) * (v - y) = 2 * (u * v) - 2 * (x * y)
  BY SMT
<1> QED
  BY <1>1, <1>2, <1>3, <1>4, SMT

LEMMA DivMod ==
  ASSUME NEW a \in Int
  PROVE  a \div R \in Int /\ a % R \in Int /\ 0 <= a % R /\ a % R < R
         /\ a = R * (a \div R) + (a % R)
<1>1. R \in Int /\ R >= 2
  BY NttAssumption
<1> QED
  BY <1>1, SMT

LEMMA QuotientOfMultiple ==
  ASSUME NEW t \in Int
  PROVE  (R * t) \div R = t
BY NttAssumption, SMT

\* What is divided by R is a multiple of R.
LEMMA MontgomeryExact ==
  ASSUME NEW a \in Int
  PROVE  \E t \in Int :
           /\ a - Signed(((a % R) * QINV) % R) * Q = R * t
           /\ MontgomeryReduce(a) = t
<1> DEFINE x == a % R
           u == (x * QINV) % R
           m == Signed(u)
           a1 == a \div R
           b == (x * QINV) \div R
           c == (Q * QINV) \div R
<1>1. x \in Int /\ a1 \in Int /\ a = R * a1 + x
  BY DivMod
<1>q. Q \in Int /\ QINV \in Int /\ R \in Int /\ R >= 2
  BY NttAssumption
<1>2. x * QINV \in Int
  BY <1>1, <1>q
<1>3. u \in Int /\ b \in Int /\ x * QINV = R * b + u /\ 0 <= u /\ u < R
  <2> HIDE DEF x
  <2> QED BY <1>2, DivMod
<1>4. c \in Int /\ Q * QINV = R * c + 1
  BY <1>q, DivMod, NttAssumption
<1>5. m = u \/ m = u - R
  BY DEF Signed
<1> HIDE DEF x, u, m, a1, b, c
<1>6. u * Q = x + R * (x * c - b * Q)
  <2>1. (x * QINV) * Q = x * (Q * QINV)
    BY <1>1, <1>q
  <2>2. x * (Q * QINV) = x * (R * c + 1)
    BY <1>4
  <2>3. (R * b + u) * Q = R * (b * Q) + u * Q
    BY <1>3, <1>q
  <2>4. x * (R * c + 1) = R * (x * c) + x
    BY <1>1, <1>4, <1>q
  <2>5. R * (x * c - b * Q) = R * (x * c) - R * (b * Q)
    BY <1>1, <1>3, <1>4, <1>q
  <2>6. (x * QINV) * Q = (R * b + u) * Q
    BY <1>3
  <2>7. x * c \in Int /\ b * Q \in Int /\ R * (x * c) \in Int /\ R * (b * Q) \in Int /\ u * Q \in Int
        /\ R * (x * c - b * Q) \in Int
    BY <1>1, <1>3, <1>4, <1>q
  <2> QED
    BY <2>1, <2>2, <2>3, <2>4, <2>5, <2>6, <2>7, <1>1, SMT
<1> DEFINE s == a1 - (x * c - b * Q)
<1>7. s \in Int /\ a - u * Q = R * s
  <2> DEFINE w == x * c - b * Q
  <2>1. w \in Int  BY <1>1, <1>3, <1>4, <1>q
  <2>2. u * Q = x + R * w  BY <1>6
  <2> HIDE DEF w
  <2>3. R * (a1 - w) = R * a1 - R * w  BY <2>1, <1>1, <1>q
  <2> QED  BY <2>1, <2>2, <2>3, <1>1, <1>3, <1>q DEF w
<1> HIDE DEF s
<1>8. \E t \in Int : a - m * Q = R * t
  <2>1. CASE m = u
    BY <2>1, <1>7
  <2>2. CASE m = u - R
    <3>1. (u - R) * Q = u * Q - R * Q  BY <1>3, <1>q
    <3>2. R * (s + Q) = R * s + R * Q  BY <1>7, <1>q
    <3>3. u * Q \in Int /\ R * Q \in Int /\ R * s \in Int /\ s + Q \in Int  BY <1>3, <1>7, <1>q
    <3>4. a - (u - R) * Q = R * (s + Q)
      BY <3>1, <3>2, <3>3, <1>7, SMT
    <3> QED  BY <2>2, <3>3, <3>4
  <2> QED  BY <1>5, <2>1, <2>2
<1>9. PICK t \in Int : a - m * Q = R * t
  BY <1>8
<1>10. MontgomeryReduce(a) = (a - m * Q) \div R
  BY DEF MontgomeryReduce, m, u, x
<1>11. (a - m * Q) \div R = t
  BY <1>9, QuotientOfMultiple
<1> QED
  BY <1>9, <1>10, <1>11 DEF m, u, x

\* MONTGOMERY_REDUCE_STRONG_DOMAIN_MAX: below 2^31 * Q, the result is below Q.
THEOREM MontgomeryBound ==
  ASSUME NEW a \in Int, -(Half * Q) < a, a < Half * Q
  PROVE  MontgomeryReduce(a) \in Int /\ -Q < MontgomeryReduce(a) /\ MontgomeryReduce(a) < Q
<1> DEFINE u == ((a % R) * QINV) % R
           m == Signed(u)
<1>1. PICK t \in Int : a - m * Q = R * t /\ MontgomeryReduce(a) = t
  BY MontgomeryExact
<1>2. (a % R) * QINV \in Int
  BY DivMod, NttAssumption
<1>3. u \in Int /\ 0 <= u /\ u < R
  BY <1>2, DivMod
<1>4. m \in Int /\ -Half <= m /\ m <= Half - 1
  <2> HIDE DEF u
  <2> QED BY <1>3, HalfFact DEF Signed, Half
<1> HIDE DEF m
<1>q. Q \in Int /\ Q >= 2
  BY NttAssumption
<1>5. m * Q >= -(Half * Q) /\ m * Q <= Half * Q - Q
  <2>1. (m + Half) * Q >= 0  BY <1>4, <1>q, HalfFact, SMT
  <2>2. (Half - 1 - m) * Q >= 0  BY <1>4, <1>q, HalfFact, SMT
  <2>3. (m + Half) * Q = m * Q + Half * Q  BY <1>4, <1>q, HalfFact, SMT
  <2>4. (Half - 1 - m) * Q = Half * Q - Q - m * Q  BY <1>4, <1>q, HalfFact, SMT
  <2> QED  BY <2>1, <2>2, <2>3, <2>4, <1>4, <1>q, HalfFact, SMT
<1>6. R * t < R * Q /\ R * t > -(R * Q)
  <2>1. R * Q = Half * Q + Half * Q  BY HalfFact, <1>q, SMT
  <2>2. m * Q \in Int /\ Half * Q \in Int /\ R * t \in Int /\ R * Q \in Int
    BY <1>4, <1>q, HalfFact, SMT
  <2> QED  BY <1>1, <1>5, <2>1, <2>2, <1>q, SMT
<1>7. t < Q /\ t > -Q
  <2>1. R \in Int /\ R >= 2  BY NttAssumption
  <2>2. ASSUME t >= Q PROVE FALSE
    <3>1. R * (t - Q) >= 0  BY <2>1, <2>2, <1>q, SMT
    <3>2. R * (t - Q) = R * t - R * Q  BY <2>1, <1>q, SMT
    <3> QED  BY <3>1, <3>2, <1>6, <2>1, <1>q, SMT
  <2>3. ASSUME t <= -Q PROVE FALSE
    <3>1. R * (-Q - t) >= 0  BY <2>1, <2>3, <1>q, SMT
    <3>2. R * (-Q - t) = -(R * Q) - R * t  BY <2>1, <1>q, SMT
    <3> QED  BY <3>1, <3>2, <1>6, <2>1, <1>q, SMT
  <2> QED  BY <2>2, <2>3, <1>q
<1> QED  BY <1>1, <1>7

-------------------------------------------------------------------------------
(***************************************************************************)
(* The layers.                                                             *)
(***************************************************************************)
LEMMA LayerFacts ==
  ASSUME NEW ly \in 0 .. LAYERS
  PROVE  /\ Distance(ly) \in Nat /\ Distance(ly) >= 1 /\ Distance(ly) <= N
         /\ Pow[ly] \in Nat /\ Pow[ly] * Distance(ly) = N
         /\ ly >= 1 => /\ Distance(ly - 1) = 2 * Distance(ly)
                       /\ Pow[ly - 1] \in Nat /\ N = 2 * Distance(ly) * Pow[ly - 1]
                       /\ 2 * Distance(ly) <= N
<1>1. LAYERS - ly \in 0 .. LAYERS
  BY NttAssumption
<1>2. Pow[ly] \in Nat /\ Pow[ly] >= 1 /\ Pow[LAYERS - ly] \in Nat /\ Pow[LAYERS - ly] >= 1
  BY <1>1, NttAssumption
<1>3. Pow[ly] * Pow[LAYERS - ly] = N
  BY NttAssumption DEF N
<1> DEFINE P == Pow[ly]
           D == Pow[LAYERS - ly]
<1>4. D <= N
  <2>1. (P - 1) * D >= 0  BY <1>2, SMT
  <2>2. (P - 1) * D = P * D - D  BY <1>2, SMT
  <2> HIDE DEF P, D
  <2> QED  BY <2>1, <2>2, <1>2, <1>3 DEF P, D
<1>5. ASSUME ly >= 1
      PROVE  /\ Distance(ly - 1) = 2 * D
             /\ Pow[ly - 1] \in Nat /\ N = 2 * D * Pow[ly - 1]
             /\ 2 * D <= N
  <2>1. ly - 1 \in 0 .. LAYERS - 1 /\ LAYERS - ly \in 0 .. LAYERS - 1 /\ ly - 1 \in 0 .. LAYERS
    BY <1>5, NttAssumption
  <2>2. Pow[LAYERS - ly + 1] = 2 * D
    BY <2>1, NttAssumption
  <2>3. Distance(ly - 1) = 2 * D
    <3>1. LAYERS - (ly - 1) = LAYERS - ly + 1  BY NttAssumption
    <3> QED  BY <2>2, <3>1 DEF Distance
  <2>4. Pow[ly - 1] \in Nat /\ Pow[ly - 1] >= 1
    BY <2>1, NttAssumption
  <2>5. Pow[ly - 1] * Pow[LAYERS - (ly - 1)] = N
    BY <2>1, NttAssumption DEF N
  <2> DEFINE p1 == Pow[ly - 1]
  <2>6. p1 * (2 * D) = N
    BY <2>3, <2>5 DEF Distance
  <2> HIDE DEF p1, D
  <2>7. D \in Nat /\ p1 \in Nat /\ p1 >= 1
    BY <1>2, <2>4 DEF D, p1
  <2>8. N = 2 * D * p1
    BY <2>6, <2>7, SMT
  <2>9. 2 * D <= N
    <3>1. (p1 - 1) * (2 * D) >= 0  BY <2>7, SMT
    <3>2. (p1 - 1) * (2 * D) = p1 * (2 * D) - 2 * D  BY <2>7, SMT
    <3> QED  BY <3>1, <3>2, <2>6, <2>7, SMT
  <2>10. Pow[ly - 1] \in Nat /\ N = 2 * D * Pow[ly - 1]
    BY <2>7, <2>8 DEF p1
  <2> QED  BY <2>3, <2>9, <2>10
<1> QED
  BY <1>2, <1>3, <1>4, <1>5 DEF Distance

\* Of n coefficients in p blocks of 2 * d, the block from s on has the factor kk.
FactorOf(n, d, p, kk, s) == n = 2 * d * p /\ 2 * d * kk = s + n /\ s < n

InvFactorOf(n, d, p, kk, s) == n = 2 * d * p /\ 2 * d * kk + s = 2 * n - 2 * d /\ s < n

\* A block that starts inside of the polynomial lies in it, and its factor in the table.
LEMMA ForwardBlock ==
  ASSUME NEW n \in Nat, NEW d \in Nat, NEW p \in Nat, NEW kk \in Int, NEW s \in Nat,
         d >= 1, FactorOf(n, d, p, kk, s)
  PROVE  s + 2 * d <= n /\ 0 <= kk /\ kk < n /\ 2 * d * (kk + 1) = s + n + 2 * d
<1> USE DEF FactorOf
<1>1. 2 * d * (2 * p - kk) = n - s
  <2>1. 2 * d * (2 * p - kk) = 2 * (2 * d * p) - 2 * d * kk  BY SMT
  <2> QED  BY <2>1, SMT
<1>2. 2 * p - kk >= 1
  <2>1. ASSUME 2 * p - kk <= 0 PROVE FALSE
    <3>1. 2 * d * (2 * p - kk) <= 0  BY <2>1, SMT
    <3> QED  BY <3>1, <1>1, SMT
  <2> QED  BY <2>1, SMT
<1>3. 2 * d * (2 * p - kk - 1) >= 0
  BY <1>2, SMT
<1>4. 2 * d * (2 * p - kk - 1) = 2 * d * (2 * p - kk) - 2 * d
  BY SMT
<1>5. s + 2 * d <= n
  BY <1>1, <1>3, <1>4, SMT
<1>6. 0 <= kk
  <2>1. ASSUME kk < 0 PROVE FALSE
    <3>1. 2 * d * kk < 0  BY <2>1, SMT
    <3> QED  BY <3>1, SMT
  <2> QED  BY <2>1, SMT
<1>7. kk < n
  <2>1. kk < 2 * p  BY <1>2, SMT
  <2>2. 2 * p <= 2 * d * p
    <3>1. (d - 1) * p >= 0  BY SMT
    <3>2. 2 * d * p = 2 * ((d - 1) * p) + 2 * p  BY SMT
    <3> QED  BY <3>1, <3>2, SMT
  <2> QED  BY <2>1, <2>2, SMT
<1>8. 2 * d * (kk + 1) = s + n + 2 * d
  <2>1. 2 * d * (kk + 1) = 2 * d * kk + 2 * d  BY SMT
  <2> QED  BY <2>1, SMT
<1> QED  BY <1>5, <1>6, <1>7, <1>8

LEMMA InverseBlock ==
  ASSUME NEW n \in Nat, NEW d \in Nat, NEW p \in Nat, NEW kk \in Int, NEW s \in Nat,
         d >= 1, InvFactorOf(n, d, p, kk, s)
  PROVE  s + 2 * d <= n /\ 0 <= kk /\ kk < n /\ 2 * d * (kk - 1) + s = 2 * n - 4 * d
<1> USE DEF InvFactorOf
<1> DEFINE w == 2 * p - 1 - kk
<1>1. 2 * d * w = s
  <2>1. 2 * d * w = 2 * (2 * d * p) - 2 * d - 2 * d * kk  BY SMT
  <2> QED  BY <2>1, SMT
<1>2. w \in Int
  BY SMT
<1> HIDE DEF w
<1>3. 2 * d * (p - w) = n - s
  <2>1. 2 * d * (p - w) = 2 * d * p - 2 * d * w  BY <1>2, SMT
  <2> QED  BY <2>1, <1>1, SMT
<1>4. p - w >= 1
  <2>1. ASSUME p - w <= 0 PROVE FALSE
    <3>1. 2 * d * (p - w) <= 0  BY <2>1, <1>2, SMT
    <3> QED  BY <3>1, <1>3, SMT
  <2> QED  BY <2>1, <1>2, SMT
<1>5. s + 2 * d <= n
  <2>1. 2 * d * (p - w - 1) >= 0  BY <1>2, <1>4, SMT
  <2>2. 2 * d * (p - w - 1) = 2 * d * (p - w) - 2 * d  BY <1>2, SMT
  <2> QED  BY <2>1, <2>2, <1>3, SMT
<1>6. w >= 0
  <2>1. ASSUME w < 0 PROVE FALSE
    <3>1. 2 * d * w < 0  BY <2>1, <1>2, SMT
    <3> QED  BY <3>1, <1>1, SMT
  <2> QED  BY <2>1, <1>2, SMT
<1>7. kk = 2 * p - 1 - w /\ 0 <= kk /\ kk < 2 * p
  BY <1>4, <1>6, <1>2, SMT DEF w
<1>8. 2 * p <= n
  <2>1. (d - 1) * p >= 0  BY SMT
  <2>2. 2 * d * p = 2 * ((d - 1) * p) + 2 * p  BY SMT
  <2> QED  BY <2>1, <2>2, SMT
<1>9. 2 * d * (kk - 1) + s = 2 * n - 4 * d
  <2>1. 2 * d * (kk - 1) = 2 * d * kk - 2 * d  BY SMT
  <2> QED  BY <2>1, SMT
<1> QED  BY <1>5, <1>7, <1>8, <1>9, SMT

-------------------------------------------------------------------------------
(***************************************************************************)
(* The arguments of Montgomery's reduction.                                *)
(***************************************************************************)
LEMMA BoundFacts ==
  /\ Q \in Nat /\ Q >= 2 /\ L \in Nat /\ L >= 1 /\ LAYERS \in Nat /\ LAYERS >= 1
  /\ NttBound \in Nat /\ NttBound = (LAYERS + 1) * Q /\ NttBound >= Q
  /\ NttBound <= Half /\ N * Q <= Half
<1>1. Q \in Nat /\ Q >= 2 /\ L \in Nat /\ L >= 1 /\ LAYERS \in Nat /\ LAYERS >= 1
  BY NttAssumption
<1>2. (LAYERS + 1) * Q \in Nat /\ (LAYERS + 1) * Q >= Q
  <2>1. (LAYERS + 1) * Q = LAYERS * Q + Q  BY <1>1, SMT
  <2>2. LAYERS * Q >= 0  BY <1>1, SMT
  <2> QED  BY <2>1, <2>2, <1>1, SMT
<1>3. NttBound <= Half /\ N * Q <= Half
  BY NttAssumption DEF Half
<1> QED  BY <1>1, <1>2, <1>3 DEF NttBound

\* A coefficient times a twiddle factor.
LEMMA TwiddleProduct ==
  ASSUME NEW x \in Int, NEW z \in Int, -Half <= x, x <= Half, -Q < 2 * z, 2 * z < Q
  PROVE  MontgomeryReduce(x * z) \in Int
         /\ -Q < MontgomeryReduce(x * z) /\ MontgomeryReduce(x * z) < Q
<1>1. -Q < z /\ z < Q
  BY BoundFacts
<1>2. -(Half * Q) < x * z /\ x * z < Half * Q
  BY <1>1, ProductBelow, HalfFact, BoundFacts
<1> QED  BY <1>2, MontgomeryBound

LEMMA MultipleRemainder ==
  ASSUME NEW t \in Int
  PROVE  (R * t) % R = 0
<1> DEFINE y == R * t
           w == y % R
<1>1. y \in Int
  <2>1. R \in Int  BY NttAssumption
  <2> QED  BY <2>1
<1>2. y \div R = t
  BY QuotientOfMultiple
<1>3. w \in Int /\ y = R * (y \div R) + w
  <2> HIDE DEF y
  <2> QED  BY <1>1, DivMod
<1>4. y = y + w
  <2> HIDE DEF w
  <2> QED  BY <1>2, <1>3
<1>5. w = 0
  <2> HIDE DEF y, w
  <2> QED  BY <1>1, <1>3, <1>4
<1>6. QED  BY <1>5

\* A coefficient times the factor of mld_fqscale.
LEMMA ScaleProduct ==
  ASSUME NEW x \in Int, -(N * Q) < x, x < N * Q
  PROVE  MontgomeryReduce(x * F) \in Int
         /\ -MLD_INTT_BOUND < MontgomeryReduce(x * F) /\ MontgomeryReduce(x * F) < MLD_INTT_BOUND
<1> DEFINE u == (((x * F) % R) * QINV) % R
           m == Signed(u)
           b == MLD_INTT_BOUND
<1>1. x * F \in Int /\ F \in Nat /\ b \in Nat /\ R \in Nat /\ R >= 2
  BY NttAssumption, SMT
<1>2. PICK t \in Int : x * F - m * Q = R * t /\ MontgomeryReduce(x * F) = t
  BY <1>1, MontgomeryExact
<1>3. ((x * F) % R) * QINV \in Int
  BY <1>1, DivMod, NttAssumption
<1>4. u \in Int /\ 0 <= u /\ u < R
  BY <1>3, DivMod
<1>5. m \in Int /\ -Half <= m /\ m <= Half - 1
  <2> HIDE DEF u
  <2> QED BY <1>4, HalfFact DEF Signed, Half
<1> HIDE DEF m, b
<1>6. x \in 1 - N * Q .. N * Q - 1
  <2>1. N * Q \in Int  BY DegreeFact, BoundFacts
  <2> QED  BY <2>1
<1>7. (R * t) % R = 0
  BY <1>2, MultipleRemainder
<1>8. -(b * R) < R * t /\ R * t < b * R
  <2>1. m \in -(R \div 2) .. R \div 2 - 1
    BY <1>5, HalfFact DEF Half
  <2> QED  BY <1>2, <1>6, <1>7, <2>1, ScaleAssumption DEF ScaledBelow, b
<1>9. -b < t /\ t < b
  <2>1. ASSUME t >= b PROVE FALSE
    <3>1. R * (t - b) >= 0  BY <1>1, <2>1, SMT
    <3>2. R * (t - b) = R * t - b * R  BY <1>1, SMT
    <3>3. R * t \in Int /\ b * R \in Int  BY <1>1
    <3> QED  BY <3>1, <3>2, <3>3, <1>8
  <2>2. ASSUME t <= -b PROVE FALSE
    <3>1. R * (-b - t) >= 0  BY <1>1, <2>2, SMT
    <3>2. R * (-b - t) = -(b * R) - R * t  BY <1>1, SMT
    <3>3. R * t \in Int /\ b * R \in Int  BY <1>1
    <3> QED  BY <3>1, <3>2, <3>3, <1>8
  <2> QED  BY <2>1, <2>2, <1>1
<1> QED  BY <1>2, <1>9 DEF b

\* The ranges of ScaledBelow as inequalities, which the prover does not enumerate.
LEMMA ScaledBelowIf ==
  ASSUME NEW b,
         \A a \in Int, m \in Int :
           -(N * Q) < a /\ a < N * Q /\ -Half <= m /\ m < Half /\ (a * F - m * Q) % R = 0
             => -(b * R) < a * F - m * Q /\ a * F - m * Q < b * R
  PROVE  ScaledBelow(b)
<1> SUFFICES ASSUME NEW a \in 1 - N * Q .. N * Q - 1, NEW m \in -(R \div 2) .. R \div 2 - 1,
                    (a * F - m * Q) % R = 0
             PROVE  -(b * R) < a * F - m * Q /\ a * F - m * Q < b * R
  BY DEF ScaledBelow
<1>1. N * Q \in Int
  BY DegreeFact, BoundFacts
<1>2. a \in Int /\ -(N * Q) < a /\ a < N * Q
  BY <1>1
<1>3. m \in Int /\ -Half <= m /\ m < Half
  BY HalfFact DEF Half
<1> QED  BY <1>2, <1>3

\* The constants of the source meet ScaleAssumption with the bound that ntt.h:15 states, and that
\* ntt.c:223 takes for granted: no coefficient below 256 Q leaves mld_fqscale at or above 4211139.
\* Bounding the two terms on their own gives 4211177 only.  For a larger result both would have to be
\* near their extremes, where 1066 a - 8185 m lies between two neighbouring multiples of R; but
\* whenever R divides a F - m Q, it is one.
THEOREM FqscaleBound ==
  ASSUME N = 256, Q = 8380417, R = 4294967296, F = 41978
  PROVE  ScaledBelow(4211139)
<1> SUFFICES ASSUME NEW a \in Int, NEW m \in Int,
                    -(N * Q) < a, a < N * Q, -Half <= m, m < Half, (a * F - m * Q) % R = 0
             PROVE  -(4211139 * R) < a * F - m * Q /\ a * F - m * Q < 4211139 * R
  BY ScaledBelowIf, SMT
<1>1. -2145386752 < a /\ a < 2145386752
  BY SMT
<1>2. -2147483648 <= m /\ m <= 2147483648
  BY SMT DEF Half
<1>3. PICK t \in Int : 41978 * a - 8380417 * m = 4294967296 * t
  BY <1>1, <1>2, SMT
<1> DEFINE n == 3362 * a - 671184 * m - 343982087 * t
<1>4. n \in Int /\ 1066 * a - 8185 * m = 4294967296 * n
  BY <1>3, SMT
<1> HIDE DEF n
<1>5. t < 4211139
  BY <1>1, <1>2, <1>3, <1>4, SMT
<1>6. -4211139 < t
  BY <1>1, <1>2, <1>3, <1>4, SMT
<1> QED  BY <1>1, <1>2, <1>3, <1>5, <1>6, SMT

\* L products of a canonical coefficient and a transformed one.
LEMMA SumDomain ==
  ASSUME NEW x \in Int,
         \/ x <= L * ((Q - 1) * (NttBound - 1)) /\ -x <= L * ((Q - 1) * (NttBound - 1))
         \/ x <= (NttBound - 1) * (NttBound - 1) /\ -x <= (NttBound - 1) * (NttBound - 1)
  PROVE  -(Half * Q) < x /\ x < Half * Q
<1> DEFINE B == NttBound
<1>1. B \in Nat /\ B >= 2 /\ B = (LAYERS + 1) * Q
  BY BoundFacts
<1>2. L * B <= Half /\ B * (LAYERS + 1) <= Half
  BY NttAssumption DEF Half
<1> HIDE DEF B
<1>3. L * ((Q - 1) * (B - 1)) < Half * Q
  <2>1. (Q - 1) * (B - 1) = Q * B - Q - B + 1  BY <1>1, BoundFacts, SMT
  <2>2. (Q - 1) * (B - 1) + 1 <= Q * B  BY <2>1, <1>1, BoundFacts, SMT
  <2> DEFINE u == (Q - 1) * (B - 1)
             v == Q * B
  <2>3. u \in Int /\ v \in Int  BY <1>1, BoundFacts
  <2>4. u + 1 <= v  BY <2>2
  <2> HIDE DEF u, v
  <2>5. L * u + L <= L * v
    <3>1. L * (v - u - 1) >= 0  BY <2>3, <2>4, BoundFacts, SMT
    <3>2. L * (v - u - 1) = L * v - L * u - L  BY <2>3, BoundFacts, SMT
    <3> QED  BY <3>1, <3>2, <2>3, BoundFacts, SMT
  <2>6. L * v = (L * B) * Q  BY <1>1, BoundFacts, SMT DEF v
  <2>7. (L * B) * Q <= Half * Q
    <3>1. (Half - L * B) * Q >= 0  BY <1>1, <1>2, BoundFacts, HalfFact, SMT
    <3>2. (Half - L * B) * Q = Half * Q - (L * B) * Q  BY <1>1, BoundFacts, HalfFact, SMT
    <3>3. Half * Q \in Int /\ (L * B) * Q \in Int  BY <1>1, BoundFacts, HalfFact
    <3> QED  BY <3>1, <3>2, <3>3, SMT
  <2>8. L * u \in Int /\ L * v \in Int /\ Half * Q \in Int  BY <2>3, BoundFacts, HalfFact
  <2> QED  BY <2>5, <2>6, <2>7, <2>8, BoundFacts, SMT DEF u
<1>4. (B - 1) * (B - 1) < Half * Q
  <2>1. (B - 1) * (B - 1) = B * B - 2 * B + 1  BY <1>1, SMT
  <2>2. B * B = (B * (LAYERS + 1)) * Q  BY <1>1, BoundFacts, SMT
  <2>3. (B * (LAYERS + 1)) * Q <= Half * Q
    <3>1. (Half - B * (LAYERS + 1)) * Q >= 0  BY <1>1, <1>2, BoundFacts, HalfFact, SMT
    <3>2. (Half - B * (LAYERS + 1)) * Q = Half * Q - (B * (LAYERS + 1)) * Q
      BY <1>1, BoundFacts, HalfFact, SMT
    <3>3. Half * Q \in Int /\ (B * (LAYERS + 1)) * Q \in Int  BY <1>1, BoundFacts, HalfFact
    <3> QED  BY <3>1, <3>2, <3>3, SMT
  <2>4. B * B \in Int /\ Half * Q \in Int  BY <1>1, BoundFacts, HalfFact
  <2> QED  BY <2>1, <2>2, <2>3, <2>4, <1>1, SMT
<1>5. L * ((Q - 1) * (B - 1)) \in Int /\ (B - 1) * (B - 1) \in Int /\ Half * Q \in Int
  BY <1>1, BoundFacts, HalfFact
<1>6. \/ x <= L * ((Q - 1) * (B - 1)) /\ -x <= L * ((Q - 1) * (B - 1))
      \/ x <= (B - 1) * (B - 1) /\ -x <= (B - 1) * (B - 1)
  BY DEF B
<1> QED  BY <1>3, <1>4, <1>5, <1>6, SMT

\* A butterfly reads and writes two coefficients, and takes the bound old to new.
LEMMA PairRead ==
  ASSUME NEW p \in Polynomial, NEW s \in Nat, NEW c \in Nat, NEW d \in Nat, NEW old \in Int,
         d >= 1, s + 2 * d <= N, s <= c, c < s + d,
         AbsBound(p, c, s + d, old), AbsBound(p, c + d, N, old)
  PROVE  /\ c \in Coefficients /\ c + d \in Coefficients
         /\ p[c] \in Int /\ p[c + d] \in Int
         /\ -old < p[c] /\ p[c] < old /\ -old < p[c + d] /\ p[c + d] < old
<1>1. c \in Coefficients /\ c + d \in Coefficients
  BY DegreeFact DEF Coefficients
<1>2. p[c] \in Int /\ p[c + d] \in Int
  BY <1>1 DEF Polynomial
<1>3. -old < p[c] /\ p[c] < old /\ -old < p[c + d] /\ p[c + d] < old
  BY <1>1, DegreeFact DEF AbsBound, Coefficients
<1> QED  BY <1>1, <1>2, <1>3

LEMMA PairWritten ==
  ASSUME NEW p \in Polynomial, NEW s \in Nat, NEW c \in Nat, NEW d \in Nat,
         NEW old \in Int, NEW new \in Int, NEW x \in Int, NEW y \in Int,
         d >= 1, s + 2 * d <= N, s <= c, c < s + d,
         AbsBound(p, 0, c, new), AbsBound(p, c, s + d, old),
         AbsBound(p, s + d, c + d, new), AbsBound(p, c + d, N, old),
         -new < x, x < new, -new < y, y < new
  PROVE  \A r : r = [p EXCEPT ![c] = x, ![c + d] = y] =>
         /\ r \in Polynomial
         /\ AbsBound(r, 0, c + 1, new) /\ AbsBound(r, c + 1, s + d, old)
         /\ AbsBound(r, s + d, c + 1 + d, new) /\ AbsBound(r, c + 1 + d, N, old)
<1> DEFINE r == [p EXCEPT ![c] = x, ![c + d] = y]
<1>1. c \in Coefficients /\ c + d \in Coefficients
  BY DegreeFact DEF Coefficients
<1>2. r \in Polynomial
  BY <1>1 DEF Polynomial
<1>3. \A z \in Coefficients : /\ z \in Int /\ p[z] \in Int
                              /\ r[z] = IF z = c + d THEN y ELSE IF z = c THEN x ELSE p[z]
  BY <1>1, DegreeFact DEF Polynomial, Coefficients
<1> HIDE DEF r
<1>4. AbsBound(r, 0, c + 1, new)  BY <1>3 DEF AbsBound
<1>5. AbsBound(r, c + 1, s + d, old)  BY <1>3 DEF AbsBound
<1>6. AbsBound(r, s + d, c + 1 + d, new)  BY <1>3 DEF AbsBound
<1>7. AbsBound(r, c + 1 + d, N, old)  BY <1>3 DEF AbsBound
<1> QED  BY <1>2, <1>4, <1>5, <1>6, <1>7 DEF r

-------------------------------------------------------------------------------
(***************************************************************************)
(* The invariant.  Entries of the matrix are never transformed.            *)
(***************************************************************************)
NttInv == NttInBounds /\ (kind = "acc" => op >= L)

Others == \A o \in Operands : (Forward /\ o = op) \/ Ready(o)

LEMMA NttInitInv == NttInit => NttInv
<1> SUFFICES ASSUME NttInit PROVE NttInv
  OBVIOUS
<1> USE BoundFacts, DegreeFact
<1>1. Entries \subseteq Polynomial /\ Polynomials \subseteq Polynomial
      /\ (\A p \in Polynomials : AbsBound(p, 0, N, Q)) /\ (\A p \in Entries : Canonical(p))
  BY NttAssumption
<1>2. kind \in {"acc", "point"} /\ op \in Operands /\ (kind = "acc" => op = L)
      /\ f \in [Operands -> Polynomial]
  <2>1. CASE kind = "acc" /\ op = L
    <3>1. Operands = 0 .. 2 * L - 1  BY <2>1 DEF Operands, Pairs
    <3>2. f \in [0 .. 2 * L - 1 -> Polynomial]
      BY <1>1, <2>1 DEF NttInit
    <3> QED  BY <2>1, <3>1, <3>2
  <2>2. CASE kind = "point" /\ op = 0
    <3>1. Operands = 0 .. 1  BY <2>2 DEF Operands, Pairs
    <3>2. f \in [0 .. 1 -> Polynomial]
      BY <1>1, <2>2 DEF NttInit
    <3> QED  BY <2>2, <3>1, <3>2
  <2> QED  BY <2>1, <2>2 DEF NttInit
<1>3. NttIndices
  <2>1. h \in Polynomial  BY DEF NttInit, Polynomial
  <2>2. l \in 0 .. Pairs  BY DEF NttInit, Pairs
  <2> QED  BY <1>2, <2>1, <2>2 DEF NttInit, NttIndices
<1>4. \A o \in Operands : IF kind = "acc" /\ o < L THEN Canonical(f[o]) ELSE AbsBound(f[o], 0, N, Q)
  <2>1. CASE kind = "acc"
    <3>1. Operands = 0 .. 2 * L - 1  BY <2>1 DEF Operands, Pairs
    <3>2. \A o \in Operands : f[o] \in IF o < L THEN Entries ELSE Polynomials
      BY <2>1, <3>1 DEF NttInit
    <3> QED  BY <1>1, <2>1, <3>2
  <2>2. CASE kind = "point"
    <3>1. Operands = 0 .. 1  BY <2>2 DEF Operands, Pairs
    <3>2. \A o \in Operands : f[o] \in Polynomials
      BY <2>2, <3>1 DEF NttInit
    <3> QED  BY <1>1, <2>2, <3>2
  <2> QED  BY <1>2, <2>1, <2>2
<1>5. Others
  <2> SUFFICES ASSUME NEW o \in Operands, o # op PROVE Ready(o)
    BY DEF Others, NttInit, Forward
  <2>1. CASE kind = "acc"
    <3>1. CASE o < L  BY <1>4, <2>1, <3>1 DEF Ready
    <3>2. CASE ~(o < L)
      <4>1. ~(o < op)  BY <1>2, <2>1, <3>2
      <4> QED  BY <1>4, <3>2, <4>1 DEF Ready, Forward, NttInit
    <3> QED  BY <3>1, <3>2
  <2>2. CASE kind = "point"
    <3>1. ~(o < op)
      BY <2>2 DEF Operands, Pairs, NttInit
    <3> QED  BY <1>4, <2>2, <3>1 DEF Ready, Forward, NttInit
  <2> QED  BY <1>2, <2>1, <2>2
<1>6. ForwardBounds
  <2>1. AbsBound(f[op], 0, N, Q)
    <3>1. ~(kind = "acc" /\ op < L)  BY <1>2
    <3> QED  BY <1>2, <1>4, <3>1
  <2>2. layer * Q = Q  BY DEF NttInit
  <2> QED  BY <2>1, <2>2 DEF NttInit, ForwardBounds
<1>7. ProductBounds /\ InverseBounds /\ ScaleBounds
  BY DEF NttInit, ProductBounds, InverseBounds, ScaleBounds
<1> QED
  BY <1>2, <1>3, <1>5, <1>6, <1>7 DEF NttInv, NttInBounds, Others, NttInit

\* The steps of the transform do not touch the other operands.
LEMMA OthersWait ==
  ASSUME Others, UNCHANGED <<kind, op>>, Forward, Forward',
         \A o \in Operands : o # op => f'[o] = f[o]
  PROVE  Others'
<1>1. Operands' = Operands
  BY DEF Operands, Pairs
<1> SUFFICES ASSUME NEW o \in Operands, o # op PROVE Ready(o)'
  BY <1>1 DEF Others
<1>2. Ready(o) /\ f'[o] = f[o]
  BY DEF Others
<1> QED
  BY <1>2 DEF Ready, Canonical

LEMMA OthersReady ==
  ASSUME Others, UNCHANGED <<kind, op, f>>, ~Forward, ~Forward'
  PROVE  Others'
BY DEF Others, Ready, Canonical, Operands, Pairs

LEMMA LayerTypes ==
  ASSUME NttIndices, layer \in 1 .. LAYERS
  PROVE  /\ Distance(layer) \in Nat /\ Distance(layer) >= 1 /\ 2 * Distance(layer) <= N
         /\ Pow[layer - 1] \in Nat /\ N = 2 * Distance(layer) * Pow[layer - 1]
BY LayerFacts, BoundFacts

LEMMA ForwardSteps ==
  ASSUME NttInv, NttLayer \/ NttBlock \/ NttButterfly \/ NttBlockEnd \/ NttLayerEnd
  PROVE  NttInv'
<1> USE BoundFacts, DegreeFact
<1>0. NttIndices /\ Others /\ ForwardBounds /\ (kind = "acc" => op >= L)
  BY DEF NttInv, NttInBounds, Others
<1>1. npc \in {"layer", "block", "butterfly"} /\ npc' \in {"layer", "block", "butterfly"}
      /\ UNCHANGED <<kind, op, i, l, sum, h, given>>
  BY DEF NttLayer, NttBlock, NttButterfly, NttBlockEnd, NttLayerEnd
<1>2. Forward /\ Forward'
  BY <1>1 DEF Forward
<1>3. ProductBounds' /\ InverseBounds' /\ ScaleBounds' /\ (npc' # "invblock")
  BY <1>1 DEF ProductBounds, InverseBounds, ScaleBounds
<1>4. Operands' = Operands /\ Pairs' = Pairs
  BY <1>1 DEF Operands, Pairs
<1>5. SUFFICES /\ NttIndices' /\ ForwardBounds'
               /\ \A o \in Operands : o # op => f'[o] = f[o]
               /\ npc' = "block" /\ start' < N => k' \in Coefficients
  <2>1. Others'  BY <1>0, <1>1, <1>2, <1>5, OthersWait
  <2> QED  BY <1>0, <1>1, <1>3, <1>5, <2>1 DEF NttInv, NttInBounds, Others
<1>6. CASE NttLayer
  <2>1. layer \in 1 .. LAYERS
    BY <1>0, <1>6 DEF NttLayer, ForwardBounds, NttIndices
  <2>2. /\ Distance(layer) \in Nat /\ Distance(layer) >= 1
        /\ Pow[layer - 1] \in Nat /\ N = 2 * Distance(layer) * Pow[layer - 1]
    BY <1>0, <2>1, LayerTypes
  <2>3. NttIndices'
    BY <1>0, <1>4, <1>6, <2>2 DEF NttLayer, NttIndices
  <2>4. ForwardBounds'
    <3>1. AbsBound(f[op], start', N, layer * Q)
      BY <1>0, <1>6 DEF NttLayer, ForwardBounds
    <3>2. AbsBound(f[op], 0, 0, (layer + 1) * Q)
      BY DEF AbsBound, Coefficients
    <3> QED  BY <1>6, <2>1, <2>2, <3>1, <3>2 DEF NttLayer, ForwardBounds
  <2>5. k' \in Coefficients
    <3>1. FactorOf(N, Distance(layer), Pow[layer - 1], Pow[layer - 1], 0)
      BY <2>2 DEF FactorOf
    <3> QED  BY <1>6, <2>2, <3>1, ForwardBlock DEF NttLayer, Coefficients
  <2> QED  BY <1>6, <2>3, <2>4, <2>5 DEF NttLayer
<1>7. CASE NttBlock
  <2>1. layer \in 1 .. LAYERS
    BY <1>0, <1>7 DEF NttBlock, ForwardBounds
  <2> DEFINE d == Distance(layer)
  <2>2. /\ d \in Nat /\ d >= 1 /\ Pow[layer - 1] \in Nat /\ N = 2 * d * Pow[layer - 1]
    BY <1>0, <2>1, LayerTypes
  <2>3. start \in Nat /\ start < N /\ k \in Int /\ 2 * d * k = start + N
    BY <1>0, <1>7 DEF NttBlock, ForwardBounds, NttIndices
  <2> HIDE DEF d
  <2>4. /\ start + 2 * d <= N /\ k \in Coefficients /\ 2 * d * (k + 1) = start + N + 2 * d
    <3>1. start + 2 * d <= N /\ 0 <= k /\ k < N /\ 2 * d * (k + 1) = start + N + 2 * d
      <4>1. FactorOf(N, d, Pow[layer - 1], k, start)
        BY <2>2, <2>3 DEF FactorOf
      <4>2. start + 2 * d <= N /\ 0 <= k /\ k < N
        BY ONLY <2>2, <2>3, <4>1, DegreeFact, ForwardBlock
      <4>3. 2 * d * (k + 1) = 2 * d * k + 2 * d
        BY ONLY <2>2, <2>3, SMT
      <4>4. 2 * d * k \in Int /\ 2 * d * k = start + N /\ 2 * d \in Int
        BY ONLY <2>2, <2>3, SMT
      <4>5. 2 * d * (k + 1) = start + N + 2 * d
        BY ONLY <2>3, <4>3, <4>4, DegreeFact
      <4> QED  BY <4>2, <4>5
    <3> QED  BY <2>3, <3>1 DEF Coefficients
  <2>5. Zetas[k] \in Int /\ -Q < 2 * Zetas[k] /\ 2 * Zetas[k] < Q
    BY <2>4, NttAssumption
  <2>6. NttIndices'
    BY <1>0, <1>4, <1>7, <2>3, <2>5 DEF NttBlock, NttIndices
  <2>7. ForwardBounds'
    <3>1. AbsBound(f[op], 0, start, (layer + 1) * Q) /\ AbsBound(f[op], start, N, layer * Q)
      BY <1>0, <1>7 DEF NttBlock, ForwardBounds
    <3>2. AbsBound(f[op], start, start + d, layer * Q) /\ AbsBound(f[op], start + d, N, layer * Q)
      BY <2>2, <2>3, <2>4, <3>1 DEF AbsBound, Coefficients
    <3>3. AbsBound(f[op], start + d, start + d, (layer + 1) * Q)
      BY <2>2, <2>3 DEF AbsBound, Coefficients
    <3> QED
      BY <1>7, <2>1, <2>2, <2>3, <2>4, <2>5, <3>1, <3>2, <3>3 DEF NttBlock, ForwardBounds, d
  <2> QED  BY <1>7, <2>6, <2>7 DEF NttBlock
<1>8. CASE NttButterfly
  <2>1. layer \in 1 .. LAYERS
    BY <1>0, <1>8 DEF NttButterfly, ForwardBounds
  <2> DEFINE d == Distance(layer)
             p == f[op]
             old == layer * Q
             new == (layer + 1) * Q
             t == MontgomeryReduce(p[j + d] * zeta)
             r == [p EXCEPT ![j] = p[j] + t, ![j + d] = p[j] - t]
  <2>2. d \in Nat /\ d >= 1
    BY <1>0, <2>1, LayerTypes
  <2>3. old \in Int /\ new = old + Q /\ new <= NttBound
    <3>1. (LAYERS - layer) * Q >= 0  BY <2>1, SMT
    <3>2. (LAYERS - layer) * Q = (LAYERS + 1) * Q - (layer + 1) * Q  BY <2>1, SMT
    <3>3. (layer + 1) * Q = layer * Q + Q  BY <2>1, SMT
    <3> QED  BY <2>1, <3>1, <3>2, <3>3, SMT
  <2>4. /\ start \in Nat /\ j \in Nat /\ p \in Polynomial /\ zeta \in Int /\ op \in Operands
    BY <1>0 DEF NttIndices
  <2>5. /\ start + 2 * d <= N /\ start <= j /\ j < start + d
        /\ 2 * d * k = start + N + 2 * d
        /\ -Q < 2 * zeta /\ 2 * zeta < Q
        /\ AbsBound(p, 0, j, new) /\ AbsBound(p, j, start + d, old)
        /\ AbsBound(p, start + d, j + d, new) /\ AbsBound(p, j + d, N, old)
    BY <1>0, <1>8 DEF NttButterfly, ForwardBounds
  <2>6. f' = [f EXCEPT ![op] = r] /\ j' = j + 1
        /\ UNCHANGED <<npc, kind, op, layer, start, k, zeta, i, l, sum, h, given>>
    BY <1>8 DEF NttButterfly
  <2> HIDE DEF d, p, old, new, t, r
  <2>7. /\ p[j] \in Int /\ p[j + d] \in Int
        /\ -old < p[j] /\ p[j] < old /\ -old < p[j + d] /\ p[j + d] < old
    BY <2>2, <2>3, <2>4, <2>5, PairRead, Zenon
  <2>9. t \in Int /\ -Q < t /\ t < Q
    <3>1. -Half <= p[j + d] /\ p[j + d] <= Half
      BY <2>3, <2>7, HalfFact
    <3> QED  BY <2>4, <2>5, <2>7, <3>1, TwiddleProduct DEF t
  <2>10. /\ r \in Polynomial
         /\ AbsBound(r, 0, j + 1, new) /\ AbsBound(r, j + 1, start + d, old)
         /\ AbsBound(r, start + d, j + 1 + d, new) /\ AbsBound(r, j + 1 + d, N, old)
    <3> DEFINE x == p[j] + t
               y == p[j] - t
    <3>1. /\ x \in Int /\ y \in Int /\ new \in Int
          /\ -new < x /\ x < new /\ -new < y /\ y < new
      BY <2>3, <2>7, <2>9
    <3>2. r = [p EXCEPT ![j] = x, ![j + d] = y]
      BY DEF r
    <3> HIDE DEF x, y
    <3>3. \A q : q = [p EXCEPT ![j] = x, ![j + d] = y] =>
             /\ q \in Polynomial
             /\ AbsBound(q, 0, j + 1, new) /\ AbsBound(q, j + 1, start + d, old)
             /\ AbsBound(q, start + d, j + 1 + d, new) /\ AbsBound(q, j + 1 + d, N, old)
      BY ONLY <2>2, <2>3, <2>4, <2>5, <3>1, PairWritten
    <3> QED  BY <3>2, <3>3, Zenon
  <2>11. f'[op] = r /\ \A o \in Operands : o # op => f'[o] = f[o]
    BY <1>0, <2>6 DEF NttIndices
  <2>12. NttIndices'
    <3>1. f' \in [Operands -> Polynomial]
      BY <1>0, <2>6, <2>10 DEF NttIndices
    <3> QED  BY <1>0, <1>4, <2>4, <2>6, <3>1 DEF NttIndices
  <2>13. ForwardBounds'
    <3>1. npc = "butterfly"  BY <1>8 DEF NttButterfly
    <3>2. Distance(layer)' = d /\ f'[op'] = r /\ (layer * Q)' = old /\ ((layer + 1) * Q)' = new
      BY <2>6, <2>11 DEF d, old, new, Distance
    <3> QED
      BY <2>1, <2>2, <2>4, <2>5, <2>6, <2>10, <3>1, <3>2 DEF ForwardBounds
  <2> QED  BY <1>8, <2>11, <2>12, <2>13 DEF NttButterfly
<1>9. CASE NttBlockEnd
  <2>1. layer \in 1 .. LAYERS
    BY <1>0, <1>9 DEF NttBlockEnd, ForwardBounds
  <2> DEFINE d == Distance(layer)
  <2>2. /\ d \in Nat /\ d >= 1 /\ Pow[layer - 1] \in Nat /\ N = 2 * d * Pow[layer - 1]
    BY <1>0, <2>1, LayerTypes
  <2>3. /\ start \in Nat /\ j \in Nat /\ k \in Int /\ start + 2 * d <= N /\ j = start + d
        /\ 2 * d * k = start + N + 2 * d
        /\ AbsBound(f[op], 0, j, (layer + 1) * Q)
        /\ AbsBound(f[op], start + d, j + d, (layer + 1) * Q)
        /\ AbsBound(f[op], j + d, N, layer * Q)
    <3>1. start \in Nat /\ j \in Nat /\ k \in Int
      BY <1>0 DEF NttIndices
    <3>2. /\ start + 2 * d <= N /\ j <= start + d /\ j >= start + d
          /\ 2 * d * k = start + N + 2 * d
          /\ AbsBound(f[op], 0, j, (layer + 1) * Q)
          /\ AbsBound(f[op], start + d, j + d, (layer + 1) * Q)
          /\ AbsBound(f[op], j + d, N, layer * Q)
      BY <1>0, <1>9 DEF NttBlockEnd, ForwardBounds
    <3> HIDE DEF d
    <3> QED  BY <2>2, <3>1, <3>2
  <2>4. start' = start + 2 * d
    BY <1>9 DEF NttBlockEnd
  <2> HIDE DEF d
  <2>5. NttIndices'
    BY <1>0, <1>4, <1>9, <2>2, <2>3, <2>4 DEF NttBlockEnd, NttIndices
  <2>6. AbsBound(f[op], 0, start', (layer + 1) * Q) /\ AbsBound(f[op], start', N, layer * Q)
    BY <2>2, <2>3, <2>4 DEF AbsBound, Coefficients
  <2>7. ForwardBounds'
    <3>1. 2 * d * k = start' + N /\ start' <= N  BY <2>2, <2>3, <2>4
    <3> QED  BY <1>9, <2>1, <2>6, <3>1 DEF NttBlockEnd, ForwardBounds, d
  <2>8. start' < N => k' \in Coefficients
    <3> SUFFICES ASSUME start' < N PROVE k' \in Coefficients
      OBVIOUS
    <3>1. start' \in Nat /\ FactorOf(N, d, Pow[layer - 1], k, start')
      BY <2>2, <2>3, <2>4 DEF FactorOf
    <3>2. k' = k  BY <1>9 DEF NttBlockEnd
    <3>3. 0 <= k /\ k < N
      BY ONLY <2>2, <2>3, <3>1, DegreeFact, ForwardBlock
    <3> QED  BY <2>3, <3>2, <3>3 DEF Coefficients
  <2> QED  BY <1>9, <2>5, <2>7, <2>8 DEF NttBlockEnd
<1>10. CASE NttLayerEnd
  <2>1. layer \in 1 .. LAYERS /\ start = N /\ AbsBound(f[op], 0, start, (layer + 1) * Q)
    BY <1>0, <1>10 DEF NttLayerEnd, ForwardBounds, NttIndices
  <2>2. NttIndices'
    BY <1>0, <1>4, <1>10, <2>1 DEF NttLayerEnd, NttIndices
  <2>3. ForwardBounds'
    BY <1>10, <2>1 DEF NttLayerEnd, ForwardBounds
  <2> QED  BY <1>10, <2>2, <2>3 DEF NttLayerEnd
<1> QED
  BY <1>6, <1>7, <1>8, <1>9, <1>10

LEMMA EndStep ==
  ASSUME NttInv, NttEnd
  PROVE  NttInv'
<1> USE BoundFacts, DegreeFact
<1>0. NttIndices /\ Others /\ ForwardBounds /\ (kind = "acc" => op >= L)
  BY DEF NttInv, NttInBounds, Others
<1>1. Operands' = Operands /\ Pairs' = Pairs /\ Pairs \in Nat
  BY DEF NttEnd, Operands, Pairs
<1>2. layer = LAYERS + 1 /\ AbsBound(f[op], 0, N, NttBound)
  <2>1. layer = LAYERS + 1 /\ AbsBound(f[op], 0, N, layer * Q)
    BY <1>0 DEF NttEnd, ForwardBounds, NttIndices
  <2> QED  BY <2>1
<1>3. op \in Nat /\ op < 2 * Pairs /\ Forward
  BY <1>0, <1>1 DEF NttIndices, Operands, NttEnd, Forward
<1>4. UNCHANGED <<kind, f, start, j, k, zeta, h, given>> /\ layer' = 1 /\ i' = 0 /\ l' = 0 /\ sum' = 0
  BY DEF NttEnd
<1>5. CASE op + 1 < 2 * Pairs
  <2>1. op' = op + 1 /\ npc' = "layer"
    BY <1>5 DEF NttEnd
  <2>2. op + 1 \in Operands
    BY <1>1, <1>3, <1>5 DEF Operands
  <2>3. NttIndices'
    BY <1>0, <1>1, <1>4, <2>1, <2>2 DEF NttIndices
  <2>4. Others'
    <3> SUFFICES ASSUME NEW o \in Operands, o # op + 1 PROVE Ready(o)'
      BY <1>1, <2>1 DEF Others, Forward
    <3>1. o \in Int  BY <1>1 DEF Operands
    <3>2. CASE o = op
      <4>1. ~(kind = "acc" /\ o < L) /\ o < op'  BY <1>0, <1>3, <2>1, <3>2
      <4> QED  BY <1>2, <1>4, <3>2, <4>1 DEF Ready
    <3>3. CASE o # op
      <4>1. Ready(o)  BY <1>0, <3>3 DEF Others
      <4>2. o < op' <=> o < op  BY <1>3, <2>1, <3>1, <3>3
      <4> QED  BY <1>3, <1>4, <2>1, <4>1, <4>2 DEF Ready, Canonical, Forward
    <3> QED  BY <3>2, <3>3
  <2>5. AbsBound(f[op + 1], 0, N, Q)
    <3>1. Ready(op + 1)  BY <1>0, <1>3, <2>2 DEF Others
    <3>2. ~(kind = "acc" /\ op + 1 < L) /\ ~(op + 1 < op)  BY <1>0, <1>3
    <3> QED  BY <1>3, <3>1, <3>2 DEF Ready
  <2>6. ForwardBounds'
    <3>1. 1 * Q = Q  OBVIOUS
    <3> QED  BY <1>4, <2>1, <2>5, <3>1 DEF ForwardBounds
  <2>7. ProductBounds' /\ InverseBounds' /\ ScaleBounds'
    BY <2>1 DEF ProductBounds, InverseBounds, ScaleBounds
  <2>8. kind' = "acc" => op' >= L
    BY <1>0, <1>3, <1>4, <2>1
  <2> QED  BY <2>1, <2>3, <2>4, <2>6, <2>7, <2>8 DEF NttInv, NttInBounds, Others
<1>6. CASE ~(op + 1 < 2 * Pairs)
  <2>1. op' = op /\ npc' = "product"
    BY <1>6 DEF NttEnd
  <2>2. NttIndices'
    BY <1>0, <1>1, <1>4, <2>1 DEF NttIndices
  <2>3. Others'
    <3> SUFFICES ASSUME NEW o \in Operands PROVE Ready(o)'
      BY <1>1 DEF Others
    <3>1. o \in Int /\ o <= op  BY <1>1, <1>3, <1>6 DEF Operands
    <3>2. ~Forward'  BY <2>1 DEF Forward
    <3>3. CASE o = op
      <4>1. ~(kind = "acc" /\ o < L)  BY <1>0, <1>3, <3>3
      <4> QED  BY <1>2, <1>4, <3>2, <3>3, <4>1 DEF Ready
    <3>4. CASE o < op
      <4>1. Ready(o)  BY <1>0, <1>3, <3>1, <3>4 DEF Others
      <4> QED  BY <1>4, <3>2, <3>4, <4>1 DEF Ready, Canonical
    <3> QED  BY <1>3, <3>1, <3>3, <3>4
  <2>4. ForwardBounds' /\ InverseBounds' /\ ScaleBounds'
    BY <2>1 DEF ForwardBounds, InverseBounds, ScaleBounds
  <2>5. ProductBounds'
    <3>1. AbsBound(h, 0, 0, Q)  BY DEF AbsBound, Coefficients
    <3>2. 0 * ((Q - 1) * (NttBound - 1)) = 0 /\ 0 * ((NttBound - 1) * (NttBound - 1)) = 0
      OBVIOUS
    <3> QED  BY <1>4, <3>1, <3>2 DEF ProductBounds
  <2>6. kind' = "acc" => op' >= L
    BY <1>0, <1>4, <2>1
  <2> QED  BY <2>1, <2>2, <2>3, <2>4, <2>5, <2>6 DEF NttInv, NttInBounds, Others
<1> QED  BY <1>5, <1>6

LEMMA ProductSteps ==
  ASSUME NttInv, Accumulate64 \/ ReduceSum \/ ProductEnd
  PROVE  NttInv'
<1> USE BoundFacts, DegreeFact
<1>0. NttIndices /\ Others /\ ProductBounds /\ (kind = "acc" => op >= L)
  BY DEF NttInv, NttInBounds, Others
<1>1. npc = "product" /\ npc' \in {"product", "invlayer"} /\ UNCHANGED <<kind, op, f>>
  BY DEF Accumulate64, ReduceSum, ProductEnd
<1>2. Operands' = Operands /\ Pairs' = Pairs
  BY <1>1 DEF Operands, Pairs
<1>3. Others'
  <2>1. ~Forward /\ ~Forward'  BY <1>1 DEF Forward
  <2> QED  BY <1>0, <1>1, <2>1, OthersReady
<1>4. ForwardBounds' /\ ScaleBounds' /\ npc' # "block" /\ npc' # "invblock"
  BY <1>1 DEF ForwardBounds, ScaleBounds
<1>5. SUFFICES NttIndices' /\ ProductBounds' /\ InverseBounds'
  BY <1>0, <1>1, <1>3, <1>4 DEF NttInv, NttInBounds, Others
<1> DEFINE X == (Q - 1) * (NttBound - 1)
           Y == (NttBound - 1) * (NttBound - 1)
<1>6. X \in Int /\ Y \in Int
  OBVIOUS
<1>7. /\ i \in Nat /\ i <= N /\ l \in 0 .. Pairs /\ sum \in Int /\ AbsBound(h, 0, i, Q)
      /\ h \in Polynomial /\ f \in [Operands -> Polynomial]
      /\ kind = "acc" => sum <= l * X /\ -sum <= l * X
      /\ kind = "point" => sum <= l * Y /\ -sum <= l * Y
      /\ kind \in {"acc", "point"}
  BY <1>0, <1>1 DEF NttIndices, ProductBounds
<1>8. CASE Accumulate64
  <2>1. /\ i < N /\ l < Pairs /\ sum' = sum + f[l][i] * f[Pairs + l][i] /\ l' = l + 1
        /\ UNCHANGED <<npc, kind, f, op, layer, start, j, k, zeta, i, h, given>>
    BY <1>8 DEF Accumulate64
  <2>2. Pairs \in Nat /\ l \in Nat /\ l \in Operands /\ Pairs + l \in Operands
    BY <1>7, <2>1 DEF Pairs, Operands
  <2> DEFINE x == f[l][i]
             y == f[Pairs + l][i]
  <2>3. x \in Int /\ y \in Int /\ i \in Coefficients
    BY <1>7, <2>1, <2>2 DEF Polynomial, Coefficients
  <2>4. Ready(l) /\ Ready(Pairs + l) /\ ~Forward
    BY <1>0, <1>1, <2>2 DEF Others, Forward
  <2>5. -NttBound < y /\ y < NttBound
    <3>1. ~(kind = "acc" /\ Pairs + l < L)  BY <2>2 DEF Pairs
    <3> QED  BY <1>7, <2>1, <2>3, <2>4, <3>1 DEF Ready, AbsBound
  <2>6. kind = "acc" => 0 <= x /\ x < Q
    <3>1. kind = "acc" => l < L  BY <2>1 DEF Pairs
    <3> QED  BY <2>3, <2>4, <3>1 DEF Ready, Canonical
  <2>7. kind = "point" => -NttBound < x /\ x < NttBound
    BY <1>7, <2>1, <2>3, <2>4 DEF Ready, AbsBound
  <2>8. kind = "acc" => -X <= x * y /\ x * y <= X
    <3> SUFFICES ASSUME kind = "acc" PROVE -X <= x * y /\ x * y <= X
      OBVIOUS
    <3> HIDE DEF x, y
    <3>1. -(Q - 1) <= x /\ x <= Q - 1 /\ -(NttBound - 1) <= y /\ y <= NttBound - 1
      BY <2>3, <2>5, <2>6
    <3>2. Q - 1 \in Int /\ NttBound - 1 \in Int
      OBVIOUS
    <3> QED  BY <2>3, <3>1, <3>2, ProductAtMost
  <2>9. kind = "point" => -Y <= x * y /\ x * y <= Y
    <3> SUFFICES ASSUME kind = "point" PROVE -Y <= x * y /\ x * y <= Y
      OBVIOUS
    <3> HIDE DEF x, y
    <3>1. /\ -(NttBound - 1) <= x /\ x <= NttBound - 1
          /\ -(NttBound - 1) <= y /\ y <= NttBound - 1
      BY <2>3, <2>5, <2>7
    <3>2. NttBound - 1 \in Int
      OBVIOUS
    <3> QED  BY <2>3, <3>1, <3>2, ProductAtMost
  <2>10. x * y \in Int /\ sum' = sum + x * y
    BY <2>1, <2>3
  <2> HIDE DEF x, y, X, Y
  <2>11. /\ (l + 1) * X = l * X + X /\ l * X \in Int
         /\ (l + 1) * Y = l * Y + Y /\ l * Y \in Int
    BY <1>6, <2>2, SMT
  <2>12. /\ kind = "acc" => sum' <= (l + 1) * X /\ -sum' <= (l + 1) * X
         /\ kind = "point" => sum' <= (l + 1) * Y /\ -sum' <= (l + 1) * Y
    BY <1>6, <1>7, <2>8, <2>9, <2>10, <2>11
  <2>13. ProductBounds'
    BY <1>7, <2>1, <2>12 DEF ProductBounds, X, Y
  <2>14. NttIndices'
    <3>1. sum' \in Int /\ l' \in 0 .. Pairs
      BY <1>7, <2>1, <2>2, <2>10
    <3> QED  BY <1>0, <1>2, <2>1, <3>1 DEF NttIndices
  <2> QED  BY <1>1, <2>1, <2>13, <2>14 DEF InverseBounds
<1>9. CASE ReduceSum
  <2>1. /\ i < N /\ l = Pairs /\ h' = [h EXCEPT ![i] = MontgomeryReduce(sum)]
        /\ i' = i + 1 /\ l' = 0 /\ sum' = 0
        /\ UNCHANGED <<npc, kind, f, op, layer, start, j, k, zeta, given>>
    BY <1>9 DEF ReduceSum
  <2> DEFINE t == MontgomeryReduce(sum)
  <2>2. t \in Int /\ -Q < t /\ t < Q
    <3>1. \/ sum <= L * X /\ -sum <= L * X
          \/ sum <= Y /\ -sum <= Y
      <4>1. 1 * Y = Y  BY <1>6
      <4> QED  BY <1>7, <2>1, <4>1 DEF Pairs
    <3> QED  BY <1>7, <3>1, SumDomain, MontgomeryBound
  <2> HIDE DEF t
  <2>3. i \in Coefficients
    BY <1>7, <2>1 DEF Coefficients
  <2>4. h' \in Polynomial
    BY <1>7, <2>1, <2>2 DEF Polynomial, t
  <2>5. AbsBound(h', 0, i + 1, Q)
    <3> SUFFICES ASSUME NEW c \in Coefficients, c < i + 1 PROVE -Q < h'[c] /\ h'[c] < Q
      BY DEF AbsBound
    <3>1. h'[c] = IF c = i THEN t ELSE h[c]
      BY <1>7, <2>1 DEF Polynomial, t
    <3>2. c # i => 0 <= c /\ c < i
      BY <1>7 DEF Coefficients
    <3> QED  BY <1>7, <2>2, <3>1, <3>2 DEF AbsBound
  <2>6. ProductBounds'
    <3>1. 0 * X = 0 /\ 0 * Y = 0  BY <1>6
    <3> QED  BY <1>7, <2>1, <2>5, <3>1 DEF ProductBounds
  <2>7. NttIndices'
    <3>1. 0 \in 0 .. Pairs  BY DEF Pairs
    <3> QED  BY <1>0, <1>2, <1>7, <2>1, <2>4, <3>1 DEF NttIndices
  <2> QED  BY <1>1, <2>1, <2>6, <2>7 DEF InverseBounds
<1>10. CASE ProductEnd
  <2>1. /\ i >= N /\ npc' = "invlayer" /\ layer' = LAYERS
        /\ UNCHANGED <<kind, f, op, start, j, k, zeta, i, l, sum, h, given>>
    BY <1>10 DEF ProductEnd
  <2>2. i = N /\ AbsBound(h, 0, N, Q)
    BY <1>7, <2>1
  <2>3. Distance(LAYERS) * Q = Q
    <3>1. Pow[0] = 1 /\ LAYERS - LAYERS = 0  BY NttAssumption
    <3> QED  BY <3>1 DEF Distance
  <2>4. InverseBounds'
    BY <2>1, <2>2, <2>3 DEF InverseBounds, Distance
  <2>5. NttIndices'
    BY <1>0, <1>2, <2>1 DEF NttIndices
  <2> QED  BY <2>1, <2>4, <2>5 DEF ProductBounds
<1> QED  BY <1>8, <1>9, <1>10

LEMMA InverseSteps ==
  ASSUME NttInv, InvLayer \/ InvBlock \/ InvButterfly \/ InvBlockEnd \/ InvLayerEnd \/ InvEnd
  PROVE  NttInv'
<1> USE BoundFacts, DegreeFact
<1>0. NttIndices /\ Others /\ InverseBounds /\ (kind = "acc" => op >= L)
  BY DEF NttInv, NttInBounds, Others
<1>1. /\ npc \in {"invlayer", "invblock", "invbutterfly"}
      /\ npc' \in {"invlayer", "invblock", "invbutterfly", "scale"}
      /\ UNCHANGED <<kind, f, op, i, l, sum, given>>
  BY DEF InvLayer, InvBlock, InvButterfly, InvBlockEnd, InvLayerEnd, InvEnd
<1>2. Operands' = Operands /\ Pairs' = Pairs
  BY <1>1 DEF Operands, Pairs
<1>3. Others'
  <2>1. ~Forward /\ ~Forward'  BY <1>1 DEF Forward
  <2> QED  BY <1>0, <1>1, <2>1, OthersReady
<1>4. ForwardBounds' /\ ProductBounds' /\ npc' # "block"
  BY <1>1 DEF ForwardBounds, ProductBounds
<1>5. SUFFICES /\ NttIndices' /\ InverseBounds' /\ ScaleBounds'
               /\ npc' = "invblock" /\ start' < N => k' \in Coefficients
  BY <1>0, <1>1, <1>3, <1>4 DEF NttInv, NttInBounds, Others
<1>6. CASE InvLayer
  <2>1. layer \in 1 .. LAYERS
    BY <1>0, <1>6 DEF InvLayer, InverseBounds, NttIndices
  <2> DEFINE d == Distance(layer)
  <2>2. /\ d \in Nat /\ d >= 1 /\ Pow[layer - 1] \in Nat /\ N = 2 * d * Pow[layer - 1]
        /\ Pow[layer] \in Nat /\ Pow[layer] * d = N
    BY <2>1, LayerFacts
  <2>3. k' = Pow[layer] - 1 /\ start' = 0 /\ npc' = "invblock"
        /\ UNCHANGED <<kind, f, op, layer, j, zeta, i, l, sum, h, given>>
    BY <1>6 DEF InvLayer
  <2>4. AbsBound(h, 0, N, d * Q)
    BY <1>0, <1>6 DEF InvLayer, InverseBounds
  <2> HIDE DEF d
  <2>5. k' \in Int /\ 2 * d * k' + 0 = 2 * N - 2 * d
    <3> DEFINE P == Pow[layer]
    <3>1. P \in Nat /\ P * d = N /\ k' = P - 1  BY <2>2, <2>3
    <3> HIDE DEF P
    <3>2. 2 * d * (P - 1) = 2 * (P * d) - 2 * d  BY <2>2, <3>1, SMT
    <3> QED  BY <2>2, <3>1, <3>2, SMT
  <2>6. NttIndices'
    BY <1>0, <1>2, <2>3, <2>5 DEF NttIndices
  <2>7. InverseBounds'
    <3>1. AbsBound(h, 0, 0, 2 * d * Q)  BY DEF AbsBound, Coefficients
    <3> QED  BY <2>1, <2>3, <2>4, <2>5, <3>1 DEF InverseBounds, d
  <2>8. k' \in Coefficients
    <3>1. InvFactorOf(N, d, Pow[layer - 1], k', 0)
      BY <2>2, <2>5 DEF InvFactorOf
    <3>2. 0 <= k' /\ k' < N
      BY ONLY <2>2, <2>5, <3>1, DegreeFact, InverseBlock
    <3> QED  BY <2>5, <3>2 DEF Coefficients
  <2> QED  BY <2>3, <2>6, <2>7, <2>8 DEF ScaleBounds
<1>7. CASE InvBlock
  <2>1. layer \in 1 .. LAYERS
    BY <1>0, <1>7 DEF InvBlock, InverseBounds, NttIndices
  <2> DEFINE d == Distance(layer)
  <2>2. /\ d \in Nat /\ d >= 1 /\ Pow[layer - 1] \in Nat /\ N = 2 * d * Pow[layer - 1]
    BY <2>1, LayerFacts
  <2>3. /\ zeta' = -Zetas[k] /\ k' = k - 1 /\ j' = start /\ npc' = "invbutterfly"
        /\ UNCHANGED <<kind, f, op, layer, start, i, l, sum, h, given>>
    BY <1>7 DEF InvBlock
  <2>4. start \in Nat /\ start < N /\ k \in Int /\ 2 * d * k + start = 2 * N - 2 * d
    BY <1>0, <1>7 DEF InvBlock, InverseBounds, NttIndices
  <2>5. AbsBound(h, 0, start, 2 * d * Q) /\ AbsBound(h, start, N, d * Q)
    BY <1>0, <1>7 DEF InvBlock, InverseBounds
  <2> HIDE DEF d
  <2>6. start + 2 * d <= N /\ 0 <= k /\ k < N
    <3>1. InvFactorOf(N, d, Pow[layer - 1], k, start)
      BY <2>2, <2>4 DEF InvFactorOf
    <3> QED  BY ONLY <2>2, <2>4, <3>1, DegreeFact, InverseBlock
  <2>7. 2 * d * (k - 1) + start = 2 * N - 4 * d
    <3>1. 2 * d * (k - 1) = 2 * d * k - 2 * d /\ 2 * d * k \in Int
      BY ONLY <2>2, <2>4, SMT
    <3> QED  BY ONLY <2>2, <2>4, <3>1, DegreeFact, SMT
  <2>8. zeta' \in Int /\ -Q < 2 * zeta' /\ 2 * zeta' < Q
    <3>1. k \in Coefficients  BY <2>4, <2>6 DEF Coefficients
    <3>2. Zetas[k] \in Int /\ -Q < 2 * Zetas[k] /\ 2 * Zetas[k] < Q
      BY <3>1, NttAssumption
    <3> QED  BY <2>3, <3>2
  <2>9. NttIndices'
    BY <1>0, <1>2, <2>3, <2>4, <2>8 DEF NttIndices
  <2>10. InverseBounds'
    <3>1. AbsBound(h, start, start + d, d * Q) /\ AbsBound(h, start + d, N, d * Q)
      BY <2>2, <2>4, <2>5, <2>6 DEF AbsBound, Coefficients
    <3>2. AbsBound(h, start + d, start + d, 2 * d * Q)
      BY <2>2, <2>4 DEF AbsBound, Coefficients
    <3> QED
      BY <2>1, <2>2, <2>3, <2>4, <2>5, <2>6, <2>7, <2>8, <3>1, <3>2 DEF InverseBounds, d
  <2> QED  BY <2>3, <2>9, <2>10 DEF ScaleBounds
<1>8. CASE InvButterfly
  <2>1. layer \in 1 .. LAYERS
    BY <1>0, <1>8 DEF InvButterfly, InverseBounds, NttIndices
  <2> DEFINE d == Distance(layer)
             old == d * Q
             new == 2 * d * Q
             t == h[j]
             u == h[j + d]
             x == t + u
             y == MontgomeryReduce((t - u) * zeta)
  <2>2. d \in Nat /\ d >= 1 /\ 2 * d <= N
    BY <2>1, LayerFacts
  <2>3. old \in Int /\ new = old + old /\ new <= Half /\ new >= Q
    <3> HIDE DEF d
    <3>1. (N - 2 * d) * Q >= 0  BY <2>2, SMT
    <3>2. (N - 2 * d) * Q = N * Q - 2 * d * Q  BY <2>2, SMT
    <3>3. 2 * d * Q = d * Q + d * Q /\ d * Q \in Int  BY <2>2, SMT
    <3>4. (d - 1) * Q >= 0 /\ (d - 1) * Q = d * Q - Q  BY <2>2, SMT
    <3>5. N * Q \in Int  OBVIOUS
    <3> HIDE DEF old, new
    <3>6. old = d * Q /\ new = 2 * d * Q  BY DEF old, new
    <3> QED  BY <3>1, <3>2, <3>3, <3>4, <3>5, <3>6, HalfFact
  <2>4. start \in Nat /\ j \in Nat /\ h \in Polynomial /\ zeta \in Int
    BY <1>0 DEF NttIndices
  <2>5. /\ start + 2 * d <= N /\ start <= j /\ j < start + d
        /\ 2 * d * k + start = 2 * N - 4 * d
        /\ -Q < 2 * zeta /\ 2 * zeta < Q
        /\ AbsBound(h, 0, j, new) /\ AbsBound(h, j, start + d, old)
        /\ AbsBound(h, start + d, j + d, new) /\ AbsBound(h, j + d, N, old)
    BY <1>0, <1>8 DEF InvButterfly, InverseBounds
  <2>6. h' = [h EXCEPT ![j] = x, ![j + d] = y] /\ j' = j + 1
        /\ UNCHANGED <<npc, kind, f, op, layer, start, k, zeta, i, l, sum, given>>
    BY <1>8 DEF InvButterfly
  <2> HIDE DEF d, old, new, x, y
  <2>7. /\ t \in Int /\ u \in Int
        /\ -old < t /\ t < old /\ -old < u /\ u < old
    BY <2>2, <2>3, <2>4, <2>5, PairRead, Zenon
  <2> HIDE DEF t, u
  <2>8. x \in Int /\ -new < x /\ x < new
    BY <2>3, <2>7 DEF x
  <2>9. y \in Int /\ -new < y /\ y < new
    <3>1. t - u \in Int /\ -Half <= t - u /\ t - u <= Half
      BY <2>3, <2>7, HalfFact
    <3>2. y \in Int /\ -Q < y /\ y < Q
      BY <2>4, <2>5, <3>1, TwiddleProduct DEF y
    <3> QED  BY <2>3, <3>2
  <2>10. /\ h' \in Polynomial
         /\ AbsBound(h', 0, j + 1, new) /\ AbsBound(h', j + 1, start + d, old)
         /\ AbsBound(h', start + d, j + 1 + d, new) /\ AbsBound(h', j + 1 + d, N, old)
    <3>1. new \in Int  BY <2>3
    <3>2. \A q : q = [h EXCEPT ![j] = x, ![j + d] = y] =>
             /\ q \in Polynomial
             /\ AbsBound(q, 0, j + 1, new) /\ AbsBound(q, j + 1, start + d, old)
             /\ AbsBound(q, start + d, j + 1 + d, new) /\ AbsBound(q, j + 1 + d, N, old)
      BY ONLY <2>2, <2>3, <2>4, <2>5, <2>8, <2>9, <3>1, PairWritten
    <3> QED  BY <2>6, <3>2, Zenon
  <2>11. NttIndices'
    BY <1>0, <1>2, <2>4, <2>6, <2>10 DEF NttIndices
  <2>12. InverseBounds'
    <3>1. npc = "invbutterfly"  BY <1>8 DEF InvButterfly
    <3>2. Distance(layer)' = d /\ (d * Q)' = old /\ (2 * d * Q)' = new
      BY <2>6 DEF d, old, new, Distance
    <3> QED
      BY <2>1, <2>2, <2>4, <2>5, <2>6, <2>10, <3>1, <3>2 DEF InverseBounds, old, new, d
  <2>13. npc' = "invbutterfly"
    BY <1>8 DEF InvButterfly
  <2> QED  BY <2>11, <2>12, <2>13 DEF ScaleBounds
<1>9. CASE InvBlockEnd
  <2>1. layer \in 1 .. LAYERS
    BY <1>0, <1>9 DEF InvBlockEnd, InverseBounds, NttIndices
  <2> DEFINE d == Distance(layer)
  <2>2. /\ d \in Nat /\ d >= 1 /\ Pow[layer - 1] \in Nat /\ N = 2 * d * Pow[layer - 1]
    BY <2>1, LayerFacts
  <2>3. /\ start \in Nat /\ j \in Nat /\ k \in Int /\ start + 2 * d <= N /\ j = start + d
        /\ 2 * d * k + start = 2 * N - 4 * d
        /\ AbsBound(h, 0, j, 2 * d * Q)
        /\ AbsBound(h, start + d, j + d, 2 * d * Q)
        /\ AbsBound(h, j + d, N, d * Q)
    <3>1. start \in Nat /\ j \in Nat /\ k \in Int
      BY <1>0 DEF NttIndices
    <3>2. /\ start + 2 * d <= N /\ j <= start + d /\ j >= start + d
          /\ 2 * d * k + start = 2 * N - 4 * d
          /\ AbsBound(h, 0, j, 2 * d * Q)
          /\ AbsBound(h, start + d, j + d, 2 * d * Q)
          /\ AbsBound(h, j + d, N, d * Q)
      BY <1>0, <1>9 DEF InvBlockEnd, InverseBounds
    <3> HIDE DEF d
    <3> QED  BY <2>2, <3>1, <3>2
  <2>4. /\ start' = start + 2 * d /\ npc' = "invblock"
        /\ UNCHANGED <<kind, f, op, layer, j, k, zeta, i, l, sum, h, given>>
    BY <1>9 DEF InvBlockEnd
  <2> HIDE DEF d
  <2>5. NttIndices'
    BY <1>0, <1>2, <2>2, <2>3, <2>4 DEF NttIndices
  <2>6. AbsBound(h, 0, start', 2 * d * Q) /\ AbsBound(h, start', N, d * Q)
    BY <2>2, <2>3, <2>4 DEF AbsBound, Coefficients
  <2>7. start' \in Nat /\ start' <= N /\ 2 * d * k + start' = 2 * N - 2 * d
    <3> DEFINE w == 2 * d * k
    <3>1. w \in Int /\ d \in Nat /\ start \in Nat  BY ONLY <2>2, <2>3, SMT
    <3>2. start + 2 * d <= N /\ w + start = 2 * N - 4 * d /\ start' = start + 2 * d
      BY <2>3, <2>4
    <3> HIDE DEF w
    <3>3. start' \in Nat /\ start' <= N /\ w + start' = 2 * N - 2 * d
      BY ONLY <3>1, <3>2, DegreeFact
    <3> QED  BY <3>3 DEF w
  <2>8. InverseBounds'
    BY <2>1, <2>4, <2>6, <2>7 DEF InverseBounds, d
  <2>9. start' < N => k' \in Coefficients
    <3> SUFFICES ASSUME start' < N PROVE k' \in Coefficients
      OBVIOUS
    <3>1. InvFactorOf(N, d, Pow[layer - 1], k, start')
      BY <2>2, <2>7 DEF InvFactorOf
    <3>2. 0 <= k /\ k < N
      BY ONLY <2>2, <2>3, <2>7, <3>1, DegreeFact, InverseBlock
    <3> QED  BY <2>3, <2>4, <3>2 DEF Coefficients
  <2> QED  BY <2>4, <2>5, <2>8, <2>9 DEF ScaleBounds
<1>10. CASE InvLayerEnd
  <2>1. layer \in 1 .. LAYERS /\ start = N /\ AbsBound(h, 0, start, 2 * Distance(layer) * Q)
    BY <1>0, <1>10 DEF InvLayerEnd, InverseBounds, NttIndices
  <2>2. layer' = layer - 1 /\ npc' = "invlayer"
        /\ UNCHANGED <<kind, f, op, start, j, k, zeta, i, l, sum, h, given>>
    BY <1>10 DEF InvLayerEnd
  <2>3. Distance(layer - 1) = 2 * Distance(layer)
    BY <2>1, LayerFacts
  <2>4. Distance(layer)' = 2 * Distance(layer)
    BY <2>2, <2>3 DEF Distance
  <2>5. NttIndices'
    BY <1>0, <1>2, <2>1, <2>2 DEF NttIndices
  <2>6. InverseBounds'
    BY <2>1, <2>2, <2>4 DEF InverseBounds
  <2> QED  BY <2>2, <2>5, <2>6 DEF ScaleBounds
<1>11. CASE InvEnd
  <2>1. layer = 0 /\ AbsBound(h, 0, N, Distance(layer) * Q)
    BY <1>0, <1>11 DEF InvEnd, InverseBounds, NttIndices
  <2>2. Distance(layer) = N
    BY <2>1 DEF Distance, N
  <2>3. j' = 0 /\ npc' = "scale"
        /\ UNCHANGED <<kind, f, op, layer, start, k, zeta, i, l, sum, h, given>>
    BY <1>11 DEF InvEnd
  <2>4. NttIndices'
    BY <1>0, <1>2, <2>3 DEF NttIndices
  <2>5. ScaleBounds'
    <3>1. AbsBound(h, 0, 0, MLD_INTT_BOUND)  BY DEF AbsBound, Coefficients
    <3> QED  BY <2>1, <2>2, <2>3, <3>1 DEF ScaleBounds
  <2> QED  BY <2>3, <2>4, <2>5 DEF InverseBounds
<1> QED  BY <1>6, <1>7, <1>8, <1>9, <1>10, <1>11

LEMMA ScaleSteps ==
  ASSUME NttInv, Scale \/ ScaleEnd
  PROVE  NttInv'
<1> USE BoundFacts, DegreeFact
<1>0. NttIndices /\ Others /\ ScaleBounds /\ (kind = "acc" => op >= L)
  BY DEF NttInv, NttInBounds, Others
<1>1. /\ npc = "scale" /\ npc' \in {"scale", "end"}
      /\ UNCHANGED <<kind, f, op, layer, start, k, zeta, i, l, sum, given>>
  BY DEF Scale, ScaleEnd
<1>2. Operands' = Operands /\ Pairs' = Pairs
  BY <1>1 DEF Operands, Pairs
<1>3. Others'
  <2>1. ~Forward /\ ~Forward'  BY <1>1 DEF Forward
  <2> QED  BY <1>0, <1>1, <2>1, OthersReady
<1>4. ForwardBounds' /\ ProductBounds' /\ InverseBounds' /\ npc' # "block" /\ npc' # "invblock"
  BY <1>1 DEF ForwardBounds, ProductBounds, InverseBounds
<1>5. SUFFICES NttIndices' /\ ScaleBounds'
  BY <1>0, <1>1, <1>3, <1>4 DEF NttInv, NttInBounds, Others
<1>6. j \in Nat /\ j <= N /\ h \in Polynomial /\ AbsBound(h, j, N, N * Q)
      /\ AbsBound(h, 0, j, MLD_INTT_BOUND)
  BY <1>0, <1>1 DEF NttIndices, ScaleBounds
<1>7. CASE Scale
  <2> DEFINE t == MontgomeryReduce(h[j] * F)
  <2>1. /\ j < N /\ h' = [h EXCEPT ![j] = t] /\ j' = j + 1 /\ npc' = "scale"
    BY <1>7 DEF Scale
  <2>2. j \in Coefficients /\ h[j] \in Int
    BY <1>6, <2>1 DEF Polynomial, Coefficients
  <2>3. t \in Int /\ -MLD_INTT_BOUND < t /\ t < MLD_INTT_BOUND
    <3>1. -(N * Q) < h[j] /\ h[j] < N * Q
      BY <1>6, <2>1, <2>2 DEF AbsBound
    <3> QED  BY <2>2, <3>1, ScaleProduct
  <2> HIDE DEF t
  <2>4. h' \in Polynomial
    BY <1>6, <2>1, <2>3 DEF Polynomial
  <2>5. \A c \in Coefficients : c \in Int /\ h'[c] = IF c = j THEN t ELSE h[c]
    BY <1>6, <2>1 DEF Polynomial, Coefficients
  <2>6. AbsBound(h', j + 1, N, N * Q)
    BY <1>6, <2>5 DEF AbsBound
  <2>7. AbsBound(h', 0, j + 1, MLD_INTT_BOUND)
    BY <1>6, <2>3, <2>5 DEF AbsBound
  <2> QED
    BY <1>0, <1>1, <1>2, <1>6, <2>1, <2>4, <2>6, <2>7 DEF NttIndices, ScaleBounds
<1>8. CASE ScaleEnd
  <2>1. j = N /\ npc' = "end" /\ UNCHANGED <<h, j>>
    BY <1>6, <1>8 DEF ScaleEnd
  <2> QED
    BY <1>0, <1>1, <1>2, <1>6, <2>1 DEF NttIndices, ScaleBounds
<1> QED  BY <1>7, <1>8

LEMMA NttInvStep ==
  ASSUME NttInv, [NttNext]_nvars
  PROVE  NttInv'
<1>1. CASE NttLayer \/ NttBlock \/ NttButterfly \/ NttBlockEnd \/ NttLayerEnd
  BY <1>1, ForwardSteps
<1>2. CASE NttEnd
  BY <1>2, EndStep
<1>3. CASE Accumulate64 \/ ReduceSum \/ ProductEnd
  BY <1>3, ProductSteps
<1>4. CASE InvLayer \/ InvBlock \/ InvButterfly \/ InvBlockEnd \/ InvLayerEnd \/ InvEnd
  BY <1>4, InverseSteps
<1>5. CASE Scale \/ ScaleEnd
  BY <1>5, ScaleSteps
<1>6. CASE UNCHANGED nvars
  BY <1>6 DEF nvars, NttInv, NttInBounds, NttIndices, Operands, Pairs, Forward, Ready,
              Canonical, AbsBound, ForwardBounds, ProductBounds, InverseBounds, ScaleBounds,
              Distance
<1> QED  BY <1>1, <1>2, <1>3, <1>4, <1>5, <1>6 DEF NttNext

-------------------------------------------------------------------------------
\* NttInBounds: the transforms and products stay within the bounds that ntt.c and
\* polyvec.c state, whatever the operands, the roots and the number of layers.
THEOREM CoefficientsStayBounded == NttSpec => []NttInBounds
<1>1. NttInit => NttInv
  BY NttInitInv
<1>2. NttInv /\ [NttNext]_nvars => NttInv'
  BY NttInvStep
<1>3. NttInv => NttInBounds
  BY DEF NttInv
<1> QED
  BY <1>1, <1>2, <1>3, PTL DEF NttSpec

-------------------------------------------------------------------------------
(***************************************************************************)
(* How far a transform takes the coefficients of its operand: what         *)
(* NttInterval of Intervals says, for each end of the interval on its own. *)
(* g is what the layers behind may have added.                             *)
(***************************************************************************)
Grown(p, lo, hi, from, to, g) ==
  \A x \in Coefficients : from <= x /\ x < to => lo - g <= p[x] /\ p[x] <= hi + g

Growth(lo, hi) ==
  LET p == f[op]
      len == Distance(layer)
      old == (layer - 1) * (Q - 1)
      new == layer * (Q - 1)
  IN  /\ npc = "layer" => Grown(p, lo, hi, 0, N, old)
      /\ npc = "block" => Grown(p, lo, hi, 0, start, new) /\ Grown(p, lo, hi, start, N, old)
      /\ npc = "butterfly" =>
           /\ Grown(p, lo, hi, 0, j, new) /\ Grown(p, lo, hi, j, start + len, old)
           /\ Grown(p, lo, hi, start + len, j + len, new) /\ Grown(p, lo, hi, j + len, N, old)

OperandWithin(lo, hi) == \A x \in Coefficients : lo <= given[op][x] /\ given[op][x] <= hi

GrowthInv ==
  /\ Forward => \A o \in Operands : o > op => f[o] = given[o]
  /\ \A lo \in Int, hi \in Int : Forward /\ OperandWithin(lo, hi) => Growth(lo, hi)

NttGrowth ==
  npc = "layer" /\ layer > LAYERS =>
    \A lo \in Int, hi \in Int : OperandWithin(lo, hi) =>
      \A x \in Coefficients : /\ lo - LAYERS * (Q - 1) <= f[op][x]
                              /\ f[op][x] <= hi + LAYERS * (Q - 1)

LEMMA GrowthStart == NttInit => GrowthInv
<1> SUFFICES ASSUME NttInit PROVE GrowthInv
  OBVIOUS
<1>1. npc = "layer" /\ layer = 1 /\ f = given
  BY DEF NttInit
<1>2. NttIndices
  BY NttInitInv DEF NttInv, NttInBounds
<1>3. f[op] \in Polynomial /\ (layer - 1) * (Q - 1) = 0
  BY <1>1, <1>2, BoundFacts DEF NttIndices
<1>4. ASSUME NEW lo \in Int, NEW hi \in Int, OperandWithin(lo, hi) PROVE Growth(lo, hi)
  <2>1. Grown(f[op], lo, hi, 0, N, 0)
    BY <1>1, <1>3, <1>4 DEF OperandWithin, Grown, Polynomial
  <2>2. QED  BY <1>1, <1>3, <2>1 DEF Growth
<1>5. QED  BY <1>1, <1>4 DEF GrowthInv

\* A butterfly adds less than Q to each coefficient of its pair.
LEMMA GrownPair ==
  ASSUME NEW p \in Polynomial, NEW lo \in Int, NEW hi \in Int, NEW s \in Nat, NEW c \in Nat,
         NEW d \in Nat, NEW old \in Int, NEW new \in Int, NEW x \in Int, NEW y \in Int,
         d >= 1, s + 2 * d <= N, s <= c, c < s + d,
         Grown(p, lo, hi, 0, c, new), Grown(p, lo, hi, c, s + d, old),
         Grown(p, lo, hi, s + d, c + d, new), Grown(p, lo, hi, c + d, N, old),
         lo - new <= x, x <= hi + new, lo - new <= y, y <= hi + new
  PROVE  \A r : r = [p EXCEPT ![c] = x, ![c + d] = y] =>
         /\ Grown(r, lo, hi, 0, c + 1, new) /\ Grown(r, lo, hi, c + 1, s + d, old)
         /\ Grown(r, lo, hi, s + d, c + 1 + d, new) /\ Grown(r, lo, hi, c + 1 + d, N, old)
<1> DEFINE r == [p EXCEPT ![c] = x, ![c + d] = y]
<1>1. c \in Coefficients /\ c + d \in Coefficients
  BY DegreeFact DEF Coefficients
<1>2. \A z \in Coefficients : /\ z \in Int /\ p[z] \in Int
                              /\ r[z] = IF z = c + d THEN y ELSE IF z = c THEN x ELSE p[z]
  BY <1>1, DegreeFact DEF Polynomial, Coefficients
<1> HIDE DEF r
<1>3. Grown(r, lo, hi, 0, c + 1, new)  BY <1>2 DEF Grown
<1>4. Grown(r, lo, hi, c + 1, s + d, old)  BY <1>2 DEF Grown
<1>5. Grown(r, lo, hi, s + d, c + 1 + d, new)  BY <1>2 DEF Grown
<1>6. Grown(r, lo, hi, c + 1 + d, N, old)  BY <1>2 DEF Grown
<1>7. QED  BY <1>3, <1>4, <1>5, <1>6 DEF r

LEMMA GrowthAcross ==
  ASSUME NttInv, GrowthInv, NttLayer \/ NttBlock \/ NttButterfly \/ NttBlockEnd \/ NttLayerEnd,
         NEW lo \in Int, NEW hi \in Int, OperandWithin(lo, hi)
  PROVE  Growth(lo, hi)'
<1> USE BoundFacts, DegreeFact
<1>0. NttIndices /\ ForwardBounds
  BY DEF NttInv, NttInBounds
<1>1. Growth(lo, hi)
  BY DEF GrowthInv, Forward, NttLayer, NttBlock, NttButterfly, NttBlockEnd, NttLayerEnd
<1> DEFINE old == (layer - 1) * (Q - 1)
           new == layer * (Q - 1)
           d == Distance(layer)
<1>2. old \in Int /\ new \in Int /\ new = old + (Q - 1)
  BY <1>0, SMT DEF NttIndices
<1>3. start \in Nat /\ j \in Nat /\ f[op] \in Polynomial
  BY <1>0 DEF NttIndices
<1>4. CASE NttLayer
  <2>1. Grown(f[op], lo, hi, 0, N, old)
    BY <1>1, <1>4 DEF NttLayer, Growth
  <2>2. Grown(f[op], lo, hi, 0, 0, new)
    BY DEF Grown, Coefficients
  <2> HIDE DEF old, new
  <2>3. QED  BY <1>4, <2>1, <2>2 DEF NttLayer, Growth, old, new
<1>5. CASE NttBlock
  <2>1. layer \in 1 .. LAYERS
    BY <1>0, <1>5 DEF NttBlock, ForwardBounds
  <2>2. d \in Nat
    BY <1>0, <2>1, LayerTypes
  <2>3. Grown(f[op], lo, hi, 0, start, new) /\ Grown(f[op], lo, hi, start, N, old)
    BY <1>1, <1>5 DEF NttBlock, Growth
  <2> HIDE DEF old, new, d
  <2>4. /\ Grown(f[op], lo, hi, start, start + d, old)
        /\ Grown(f[op], lo, hi, start + d, start + d, new)
        /\ Grown(f[op], lo, hi, start + d, N, old)
    BY <1>3, <2>2, <2>3 DEF Grown, Coefficients
  <2>5. /\ npc' = "butterfly" /\ j' = start /\ start' = start /\ f' = f /\ op' = op
        /\ Distance(layer)' = d /\ ((layer - 1) * (Q - 1))' = old /\ (layer * (Q - 1))' = new
    BY <1>5 DEF NttBlock, Distance, old, new, d
  <2>6. QED  BY <2>3, <2>4, <2>5 DEF Growth
<1>6. CASE NttButterfly
  <2> DEFINE p == f[op]
             t == MontgomeryReduce(p[j + d] * zeta)
             r == [p EXCEPT ![j] = p[j] + t, ![j + d] = p[j] - t]
  <2>1. layer \in 1 .. LAYERS
    BY <1>0, <1>6 DEF NttButterfly, ForwardBounds
  <2>2. d \in Nat /\ d >= 1
    BY <1>0, <2>1, LayerTypes
  <2>3. zeta \in Int /\ op \in Operands /\ f \in [Operands -> Polynomial]
    BY <1>0 DEF NttIndices
  <2>4. /\ start + 2 * d <= N /\ start <= j /\ j < start + d
        /\ -Q < 2 * zeta /\ 2 * zeta < Q
        /\ AbsBound(p, j + d, N, layer * Q)
    BY <1>0, <1>6 DEF NttButterfly, ForwardBounds
  <2>5. /\ Grown(p, lo, hi, 0, j, new) /\ Grown(p, lo, hi, j, start + d, old)
        /\ Grown(p, lo, hi, start + d, j + d, new) /\ Grown(p, lo, hi, j + d, N, old)
    BY <1>1, <1>6 DEF NttButterfly, Growth
  <2>6. f' = [f EXCEPT ![op] = r] /\ j' = j + 1 /\ UNCHANGED <<npc, op, layer, start>>
        /\ npc = "butterfly"
    BY <1>6 DEF NttButterfly
  <2>7. layer * Q \in Int /\ layer * Q <= Half
    <3>1. (LAYERS + 1 - layer) * Q >= 0  BY <2>1, SMT
    <3>2. (LAYERS + 1 - layer) * Q = (LAYERS + 1) * Q - layer * Q  BY <2>1, SMT
    <3>3. layer * Q \in Int  BY <2>1
    <3> QED  BY <3>1, <3>2, <3>3, HalfFact
  <2> HIDE DEF old, new, d, p, t, r
  <2>8. j \in Coefficients /\ j + d \in Coefficients
    BY <1>3, <2>2, <2>4 DEF Coefficients
  <2>9. p \in Polynomial /\ p[j] \in Int /\ p[j + d] \in Int
    BY <1>3, <2>8 DEF p, Polynomial
  <2>10. lo - old <= p[j] /\ p[j] <= hi + old
    BY <1>3, <2>2, <2>4, <2>5, <2>8 DEF Grown
  <2>11. -Half <= p[j + d] /\ p[j + d] <= Half
    <3>1. -(layer * Q) < p[j + d] /\ p[j + d] < layer * Q
      BY <1>3, <2>2, <2>4, <2>8 DEF AbsBound, Coefficients
    <3> QED  BY <2>7, <2>9, <3>1, HalfFact
  <2>12. t \in Int /\ -Q < t /\ t < Q
    BY <2>3, <2>4, <2>9, <2>11, TwiddleProduct DEF t
  <2> DEFINE x == p[j] + t
             y == p[j] - t
  <2>13. /\ x \in Int /\ y \in Int
         /\ lo - new <= x /\ x <= hi + new /\ lo - new <= y /\ y <= hi + new
    BY <1>2, <2>9, <2>10, <2>12
  <2>14. r = [p EXCEPT ![j] = x, ![j + d] = y]
    BY DEF r
  <2> HIDE DEF x, y
  <2>15. \A q : q = [p EXCEPT ![j] = x, ![j + d] = y] =>
           /\ Grown(q, lo, hi, 0, j + 1, new) /\ Grown(q, lo, hi, j + 1, start + d, old)
           /\ Grown(q, lo, hi, start + d, j + 1 + d, new) /\ Grown(q, lo, hi, j + 1 + d, N, old)
    BY ONLY <1>2, <1>3, <2>2, <2>4, <2>5, <2>9, <2>12, <2>13, GrownPair
  <2>16. /\ Grown(r, lo, hi, 0, j + 1, new) /\ Grown(r, lo, hi, j + 1, start + d, old)
         /\ Grown(r, lo, hi, start + d, j + 1 + d, new) /\ Grown(r, lo, hi, j + 1 + d, N, old)
    BY <2>14, <2>15, Zenon
  <2>17. /\ f'[op'] = r /\ Distance(layer)' = d
         /\ ((layer - 1) * (Q - 1))' = old /\ (layer * (Q - 1))' = new
    BY <2>3, <2>6 DEF Distance, old, new, d
  <2>18. QED  BY <2>6, <2>16, <2>17 DEF Growth
<1>7. CASE NttBlockEnd
  <2>1. layer \in 1 .. LAYERS
    BY <1>0, <1>7 DEF NttBlockEnd, ForwardBounds
  <2>2. d \in Nat
    BY <1>0, <2>1, LayerTypes
  <2>3. /\ Grown(f[op], lo, hi, 0, j, new) /\ Grown(f[op], lo, hi, start + d, j + d, new)
        /\ Grown(f[op], lo, hi, j + d, N, old)
    BY <1>1, <1>7 DEF NttBlockEnd, Growth
  <2>4. j <= start + d /\ j >= start + d /\ start' = start + 2 * d /\ npc' = "block"
        /\ UNCHANGED <<f, op, layer>>
    BY <1>0, <1>7 DEF NttBlockEnd, ForwardBounds
  <2> HIDE DEF old, new, d
  <2>5. j = start + d
    BY <1>3, <2>2, <2>4
  <2>6. Grown(f[op], lo, hi, 0, start', new) /\ Grown(f[op], lo, hi, start', N, old)
    BY <1>3, <2>2, <2>3, <2>4, <2>5 DEF Grown, Coefficients
  <2>7. ((layer - 1) * (Q - 1))' = old /\ (layer * (Q - 1))' = new
    BY <2>4 DEF old, new
  <2>8. QED  BY <2>4, <2>6, <2>7 DEF Growth
<1>8. CASE NttLayerEnd
  <2>1. start = N /\ Grown(f[op], lo, hi, 0, start, new)
    BY <1>0, <1>1, <1>8 DEF NttLayerEnd, ForwardBounds, Growth, NttIndices
  <2>2. npc' = "layer" /\ f' = f /\ op' = op /\ layer' - 1 = layer
    BY <1>0, <1>8 DEF NttLayerEnd, NttIndices
  <2>3. ((layer - 1) * (Q - 1))' = new
    BY <2>2
  <2> HIDE DEF new
  <2>4. QED  BY <2>1, <2>2, <2>3 DEF Growth
<1>9. QED  BY <1>4, <1>5, <1>6, <1>7, <1>8

LEMMA GrowthStep ==
  ASSUME NttInv, GrowthInv, [NttNext]_nvars
  PROVE  GrowthInv'
<1> USE BoundFacts
<1>0. NttIndices
  BY DEF NttInv, NttInBounds
<1>1. CASE NttLayer \/ NttBlock \/ NttButterfly \/ NttBlockEnd \/ NttLayerEnd
  <2>1. Forward /\ UNCHANGED <<kind, op, given>>
        /\ (f' = f \/ \E r : f' = [f EXCEPT ![op] = r])
    BY <1>1 DEF Forward, NttLayer, NttBlock, NttButterfly, NttBlockEnd, NttLayerEnd
  <2>2. Operands' = Operands /\ \A o \in Operands : o # op => f'[o] = f[o]
    BY <1>0, <2>1 DEF Operands, Pairs, NttIndices
  <2>3. \A o \in Operands : o \in Int
    BY DEF Operands
  <2>4. \A o \in Operands' : o > op' => f'[o] = given'[o]
    BY <1>0, <2>1, <2>2, <2>3 DEF GrowthInv, NttIndices
  <2>5. ASSUME NEW lo \in Int, NEW hi \in Int, OperandWithin(lo, hi)' PROVE Growth(lo, hi)'
    <3>1. OperandWithin(lo, hi)
      BY <2>1, <2>5 DEF OperandWithin
    <3>2. QED  BY <1>1, <3>1, GrowthAcross
  <2>6. QED  BY <2>4, <2>5 DEF GrowthInv
<1>2. CASE NttEnd
  <2>1. /\ Forward /\ UNCHANGED <<kind, f, given>> /\ layer' = 1
        /\ \/ op + 1 < 2 * Pairs /\ op' = op + 1 /\ npc' = "layer"
           \/ npc' = "product"
    BY <1>2 DEF NttEnd, Forward
  <2>2. CASE npc' = "product"
    BY <2>2 DEF GrowthInv, Forward
  <2>3. CASE op + 1 < 2 * Pairs /\ op' = op + 1 /\ npc' = "layer"
    <3>1. op + 1 \in Operands /\ op \in Int /\ Operands' = Operands /\ \A o \in Operands : o \in Int
      BY <1>0, <2>1, <2>3 DEF NttIndices, Operands, Pairs
    <3>2. f[op + 1] = given[op + 1] /\ f[op + 1] \in Polynomial
      BY <1>0, <2>1, <3>1 DEF GrowthInv, NttIndices
    <3>3. \A o \in Operands' : o > op' => f'[o] = given'[o]
      BY <2>1, <2>3, <3>1 DEF GrowthInv
    <3>4. ASSUME NEW lo \in Int, NEW hi \in Int, OperandWithin(lo, hi)' PROVE Growth(lo, hi)'
      <4>1. ((layer - 1) * (Q - 1))' = 0
        BY <2>1
      <4>2. f'[op'] \in Polynomial /\ f'[op'] = given'[op']
        BY <2>1, <2>3, <3>2
      <4>3. Grown(f'[op'], lo, hi, 0, N, 0)
        BY <3>4, <4>2 DEF OperandWithin, Grown, Polynomial
      <4>4. QED  BY <2>3, <4>1, <4>3 DEF Growth
    <3>5. QED  BY <3>3, <3>4 DEF GrowthInv
  <2>4. QED  BY <2>1, <2>2, <2>3
<1>3. CASE Accumulate64 \/ ReduceSum \/ ProductEnd \/ InvLayer \/ InvBlock \/ InvButterfly
           \/ InvBlockEnd \/ InvLayerEnd \/ InvEnd \/ Scale \/ ScaleEnd
  <2>1. ~Forward'
    BY <1>3 DEF Forward, Accumulate64, ReduceSum, ProductEnd, InvLayer, InvBlock, InvButterfly,
                InvBlockEnd, InvLayerEnd, InvEnd, Scale, ScaleEnd
  <2>2. QED  BY <2>1 DEF GrowthInv
<1>4. CASE UNCHANGED nvars
  <2>1. /\ npc' = npc /\ kind' = kind /\ f' = f /\ op' = op /\ layer' = layer /\ start' = start
        /\ j' = j /\ given' = given
    BY <1>4 DEF nvars
  <2>2. Forward' = Forward /\ Operands' = Operands
    BY <2>1 DEF Forward, Operands, Pairs
  <2>3. Forward' => \A o \in Operands' : o > op' => f'[o] = given'[o]
    BY <2>1, <2>2 DEF GrowthInv
  <2>4. ASSUME NEW lo \in Int, NEW hi \in Int, Forward', OperandWithin(lo, hi)'
        PROVE  Growth(lo, hi)'
    <3>1. Growth(lo, hi)
      BY <2>1, <2>2, <2>4 DEF GrowthInv, OperandWithin
    <3>2. Distance(layer)' = Distance(layer)
      BY <2>1 DEF Distance
    <3>3. QED  BY <2>1, <3>1, <3>2 DEF Growth
  <2>5. QED  BY <2>3, <2>4 DEF GrowthInv
<1>5. QED  BY <1>1, <1>2, <1>3, <1>4 DEF NttNext

\* NttInterval: a forward transform moves no coefficient by more than Q - 1 in a layer, below
\* the least and above the greatest coefficient of its operand, for every number of layers.
THEOREM TransformGrowth == NttSpec => []NttGrowth
<1>1. NttInit => NttInv /\ GrowthInv
  BY NttInitInv, GrowthStart
<1>2. NttInv /\ GrowthInv /\ [NttNext]_nvars => (NttInv /\ GrowthInv)'
  BY NttInvStep, GrowthStep
<1>3. NttInv /\ GrowthInv => NttGrowth
  <2> SUFFICES ASSUME NttInv, GrowthInv, npc = "layer", layer > LAYERS,
                      NEW lo \in Int, NEW hi \in Int, OperandWithin(lo, hi)
               PROVE  \A x \in Coefficients : /\ lo - LAYERS * (Q - 1) <= f[op][x]
                                              /\ f[op][x] <= hi + LAYERS * (Q - 1)
    BY DEF NttGrowth
  <2>1. layer - 1 = LAYERS
    BY BoundFacts DEF NttInv, NttInBounds, NttIndices
  <2>2. Grown(f[op], lo, hi, 0, N, LAYERS * (Q - 1))
    BY <2>1 DEF GrowthInv, Growth, Forward
  <2>3. QED  BY <2>2, DegreeFact DEF Grown, Coefficients
<1>4. QED  BY <1>1, <1>2, <1>3, PTL DEF NttSpec

-------------------------------------------------------------------------------
(***************************************************************************)
(* Sums over a range, which are defined as Total by recursion: what holds  *)
(* of all of them follows by induction.                                    *)
(***************************************************************************)
\* Mathematical induction, for a set.
LEMMA Induction ==
  ASSUME NEW T, 0 \in T, \A n \in Nat : n \in T => n + 1 \in T
  PROVE  Nat \subseteq T
<1> DEFINE X == {n \in Nat : n \notin T}
<1>1. SUFFICES ASSUME X # {} PROVE FALSE
  OBVIOUS
<1>2. \E m \in X : \A y \in X : ~(<<y, m>> \in OpToRel(<, Nat))
  <2>1. X \subseteq Nat
    OBVIOUS
  <2> HIDE DEF X
  <2>2. QED  BY <1>1, <2>1, WFMin, NatLessThanWellFounded, Zenon
<1>3. PICK m \in X : \A y \in X : ~(<<y, m>> \in OpToRel(<, Nat))
  BY <1>2
<1>4. m \in Nat /\ m # 0
  OBVIOUS
<1>5. m - 1 \in Nat /\ m - 1 < m /\ m = (m - 1) + 1
  BY <1>4
<1>6. m - 1 \notin X
  BY <1>3, <1>4, <1>5 DEF OpToRel
<1>7. QED  BY <1>4, <1>5, <1>6

-------------------------------------------------------------------------------
\* The partial sums up to n.
Sums(g, n, w) == w = [m \in 0 .. n |-> IF m = 0 THEN 0 ELSE w[m - 1] + g[m - 1]]

LEMMA SumsExist ==
  ASSUME NEW g, NEW n \in Nat
  PROVE  \E w : Sums(g, n, w)
<1> DEFINE T == {m \in Nat : \E w : Sums(g, m, w)}
<1>1. 0 \in T
  <2>1. Sums(g, 0, [m \in 0 .. 0 |-> 0])
    BY DEF Sums
  <2>2. QED  BY <2>1
<1>2. ASSUME NEW m \in Nat, m \in T PROVE m + 1 \in T
  <2>1. PICK w : Sums(g, m, w)
    BY <1>2
  <2> DEFINE v == [c \in 0 .. m + 1 |-> IF c <= m THEN w[c] ELSE w[m] + g[m]]
  <2>2. \A c \in 0 .. m : v[c] = w[c] /\ w[c] = IF c = 0 THEN 0 ELSE w[c - 1] + g[c - 1]
    BY <2>1 DEF Sums
  <2>3. v[m + 1] = w[m] + g[m] /\ (m + 1) - 1 = m /\ m + 1 # 0
    OBVIOUS
  <2>4. v = [c \in 0 .. m + 1 |-> v[c]]
    OBVIOUS
  <2> HIDE DEF v
  <2>5. ASSUME NEW c \in 0 .. m + 1 PROVE v[c] = IF c = 0 THEN 0 ELSE v[c - 1] + g[c - 1]
    <3>1. CASE c = m + 1
      <4>1. m \in 0 .. m
        OBVIOUS
      <4>2. v[m] = w[m] /\ v[c] = w[m] + g[m] /\ c - 1 = m /\ c # 0
        BY <2>2, <2>3, <3>1, <4>1
      <4>3. QED  BY <4>2
    <3>2. CASE c # m + 1
      <4>1. c \in 0 .. m /\ (c # 0 => c - 1 \in 0 .. m)
        BY <3>2
      <4>2. QED  BY <2>2, <4>1
    <3>3. QED  BY <3>1, <3>2
  <2>6. v = [c \in 0 .. m + 1 |-> IF c = 0 THEN 0 ELSE v[c - 1] + g[c - 1]]
    BY <2>4, <2>5
  <2>7. Sums(g, m + 1, v)
    BY <2>6 DEF Sums
  <2>8. QED  BY <2>7
<1> HIDE DEF T
<1>3. Nat \subseteq T
  BY <1>1, <1>2, Induction
<1>4. QED  BY <1>3 DEF T

LEMMA SumsAgree ==
  ASSUME NEW g, NEW n \in Nat, NEW m \in Nat, NEW w, NEW v, Sums(g, n, w), Sums(g, m, v)
  PROVE  \A c \in Nat : c <= n /\ c <= m => w[c] = v[c]
<1> DEFINE T == {c \in Nat : c <= n /\ c <= m => w[c] = v[c]}
<1>0. /\ \A c \in 0 .. n : w[c] = IF c = 0 THEN 0 ELSE w[c - 1] + g[c - 1]
      /\ \A c \in 0 .. m : v[c] = IF c = 0 THEN 0 ELSE v[c - 1] + g[c - 1]
  BY DEF Sums
<1>1. 0 \in T
  BY <1>0
<1>2. ASSUME NEW c \in Nat, c \in T PROVE c + 1 \in T
  <2>1. SUFFICES ASSUME c + 1 <= n, c + 1 <= m PROVE w[c + 1] = v[c + 1]
    OBVIOUS
  <2>2. w[c] = v[c]
    BY <1>2, <2>1
  <2>3. c + 1 \in 0 .. n /\ c + 1 \in 0 .. m /\ c + 1 # 0 /\ (c + 1) - 1 = c
    BY <2>1
  <2>4. w[c + 1] = w[c] + g[c] /\ v[c + 1] = v[c] + g[c]
    <3>1. w[c + 1] = w[(c + 1) - 1] + g[(c + 1) - 1] /\ v[c + 1] = v[(c + 1) - 1] + g[(c + 1) - 1]
      BY <1>0, <2>3
    <3>2. QED  BY <2>3, <3>1
  <2>5. QED  BY <2>2, <2>4
<1> HIDE DEF T
<1>3. Nat \subseteq T
  BY <1>1, <1>2, Induction
<1>4. QED  BY <1>3 DEF T

AllSums(g, s) == s = [m \in Nat |-> IF m = 0 THEN 0 ELSE s[m - 1] + g[m - 1]]

LEMMA AllSumsExist ==
  ASSUME NEW g
  PROVE  \E s : AllSums(g, s)
<1> DEFINE part(n) == CHOOSE w : Sums(g, n, w)
           s == [n \in Nat |-> part(n)[n]]
<1>1. \A n \in Nat : Sums(g, n, part(n))
  BY SumsExist
<1> HIDE DEF part
<1>2. ASSUME NEW n \in Nat PROVE s[n] = IF n = 0 THEN 0 ELSE s[n - 1] + g[n - 1]
  <2>1. Sums(g, n, part(n)) /\ n \in 0 .. n
    BY <1>1
  <2>2. part(n)[n] = IF n = 0 THEN 0 ELSE part(n)[n - 1] + g[n - 1]
    BY <2>1 DEF Sums
  <2>3. CASE n = 0
    BY <2>2, <2>3
  <2>4. CASE n # 0
    <3>1. n - 1 \in Nat /\ n - 1 <= n /\ n - 1 <= n - 1
      BY <2>4
    <3>2. Sums(g, n - 1, part(n - 1))
      BY <1>1, <3>1
    <3>3. part(n)[n - 1] = part(n - 1)[n - 1]
      BY <2>1, <3>1, <3>2, SumsAgree
    <3>4. s[n - 1] = part(n - 1)[n - 1] /\ s[n] = part(n)[n]
      BY <3>1
    <3>5. QED  BY <2>2, <2>4, <3>3, <3>4
  <2>5. QED  BY <2>3, <2>4
<1>3. s = [n \in Nat |-> s[n]]
  OBVIOUS
<1> HIDE DEF s
<1>4. s = [n \in Nat |-> IF n = 0 THEN 0 ELSE s[n - 1] + g[n - 1]]
  BY <1>2, <1>3
<1>5. QED  BY <1>4 DEF AllSums

\* The sums as the definition of Total has them.
LEMMA TotalNext ==
  ASSUME NEW g
  PROVE  /\ Total(0, g) = 0
         /\ \A n \in Nat : Total(n + 1, g) = Total(n, g) + g[n]
<1> DEFINE s == CHOOSE s : AllSums(g, s)
<1>1. AllSums(g, s)
  BY AllSumsExist
<1>2. \A n : Total(n, g) = s[n]
  BY DEF Total, AllSums
<1> HIDE DEF s
<1>3. \A n \in Nat : s[n] = IF n = 0 THEN 0 ELSE s[n - 1] + g[n - 1]
  BY <1>1 DEF AllSums
<1>4. s[0] = 0
  BY <1>3
<1>5. ASSUME NEW n \in Nat PROVE s[n + 1] = s[n] + g[n]
  <2>1. n + 1 \in Nat /\ n + 1 # 0 /\ (n + 1) - 1 = n
    OBVIOUS
  <2>2. s[n + 1] = s[(n + 1) - 1] + g[(n + 1) - 1]
    BY <1>3, <2>1
  <2>3. QED  BY <2>1, <2>2
<1>6. QED  BY <1>2, <1>4, <1>5

LEMMA TotalInt ==
  ASSUME NEW g, NEW n \in Nat, \A m \in Nat : m < n => g[m] \in Int
  PROVE  Total(n, g) \in Int
<1> DEFINE T == {m \in Nat : m <= n => Total(m, g) \in Int}
<1>1. 0 \in T
  BY TotalNext
<1>2. ASSUME NEW m \in Nat, m \in T PROVE m + 1 \in T
  <2>1. SUFFICES ASSUME m + 1 <= n PROVE Total(m + 1, g) \in Int
    OBVIOUS
  <2>2. m < n /\ Total(m, g) \in Int
    BY <1>2, <2>1
  <2>3. Total(m + 1, g) = Total(m, g) + g[m] /\ g[m] \in Int
    BY <2>2, TotalNext
  <2>4. QED  BY <2>2, <2>3
<1> HIDE DEF T
<1>3. Nat \subseteq T
  BY <1>1, <1>2, Induction
<1>4. QED  BY <1>3 DEF T

LEMMA TotalEqual ==
  ASSUME NEW g, NEW w, NEW n \in Nat, \A m \in Nat : m < n => g[m] = w[m]
  PROVE  Total(n, g) = Total(n, w)
<1> DEFINE T == {m \in Nat : m <= n => Total(m, g) = Total(m, w)}
<1>1. 0 \in T
  BY TotalNext
<1>2. ASSUME NEW m \in Nat, m \in T PROVE m + 1 \in T
  <2>1. SUFFICES ASSUME m + 1 <= n PROVE Total(m + 1, g) = Total(m + 1, w)
    OBVIOUS
  <2>2. m < n /\ Total(m, g) = Total(m, w)
    BY <1>2, <2>1
  <2>3. Total(m + 1, g) = Total(m, g) + g[m] /\ Total(m + 1, w) = Total(m, w) + w[m] /\ g[m] = w[m]
    BY <2>2, TotalNext
  <2>4. QED  BY <2>2, <2>3
<1> HIDE DEF T
<1>3. Nat \subseteq T
  BY <1>1, <1>2, Induction
<1>4. QED  BY <1>3 DEF T

LEMMA TotalPlus ==
  ASSUME NEW g, NEW w, NEW u, NEW n \in Nat,
         \A m \in Nat : m < n => g[m] \in Int /\ w[m] \in Int /\ u[m] = g[m] + w[m]
  PROVE  Total(n, u) = Total(n, g) + Total(n, w)
<1> DEFINE T == {m \in Nat : m <= n => Total(m, u) = Total(m, g) + Total(m, w)}
<1>1. 0 \in T
  BY TotalNext
<1>2. ASSUME NEW m \in Nat, m \in T PROVE m + 1 \in T
  <2>1. SUFFICES ASSUME m + 1 <= n PROVE Total(m + 1, u) = Total(m + 1, g) + Total(m + 1, w)
    OBVIOUS
  <2>2. m < n /\ Total(m, u) = Total(m, g) + Total(m, w)
    BY <1>2, <2>1
  <2>3. /\ Total(m + 1, g) = Total(m, g) + g[m] /\ Total(m + 1, w) = Total(m, w) + w[m]
        /\ Total(m + 1, u) = Total(m, u) + u[m] /\ u[m] = g[m] + w[m]
        /\ g[m] \in Int /\ w[m] \in Int
    BY <2>2, TotalNext
  <2>4. Total(m, g) \in Int /\ Total(m, w) \in Int
    <3>1. \A c \in Nat : c < m => g[c] \in Int /\ w[c] \in Int
      BY <2>2
    <3>2. QED  BY <3>1, TotalInt
  <2>5. QED  BY <2>2, <2>3, <2>4
<1> HIDE DEF T
<1>3. Nat \subseteq T
  BY <1>1, <1>2, Induction
<1>4. QED  BY <1>3 DEF T

LEMMA TotalTimes ==
  ASSUME NEW g, NEW u, NEW a \in Int, NEW n \in Nat,
         \A m \in Nat : m < n => g[m] \in Int /\ u[m] = a * g[m]
  PROVE  Total(n, u) = a * Total(n, g)
<1> DEFINE T == {m \in Nat : m <= n => Total(m, u) = a * Total(m, g)}
<1>1. 0 \in T
  BY TotalNext
<1>2. ASSUME NEW m \in Nat, m \in T PROVE m + 1 \in T
  <2>1. SUFFICES ASSUME m + 1 <= n PROVE Total(m + 1, u) = a * Total(m + 1, g)
    OBVIOUS
  <2>2. m < n /\ Total(m, u) = a * Total(m, g)
    BY <1>2, <2>1
  <2>3. /\ Total(m + 1, g) = Total(m, g) + g[m]
        /\ Total(m + 1, u) = Total(m, u) + u[m] /\ u[m] = a * g[m]
        /\ g[m] \in Int
    BY <2>2, TotalNext
  <2>4. Total(m, g) \in Int
    <3>1. \A c \in Nat : c < m => g[c] \in Int
      BY <2>2
    <3>2. QED  BY <3>1, TotalInt
  <2>5. PICK s \in Int, e \in Int : s = Total(m, g) /\ e = g[m]
    BY <2>3, <2>4
  <2>6. a * (s + e) = a * s + a * e
    BY <2>5
  <2>7. QED  BY <2>2, <2>3, <2>5, <2>6
<1> HIDE DEF T
<1>3. Nat \subseteq T
  BY <1>1, <1>2, Induction
<1>4. QED  BY <1>3 DEF T

LEMMA TotalSplit ==
  ASSUME NEW g, NEW w, NEW a \in Nat, NEW n \in Nat,
         \A m \in Nat : m < a + n => g[m] \in Int, \A m \in Nat : m < n => w[m] = g[a + m]
  PROVE  Total(a + n, g) = Total(a, g) + Total(n, w)
<1> DEFINE T == {m \in Nat : m <= n => Total(a + m, g) = Total(a, g) + Total(m, w)}
<1>1. 0 \in T
  BY TotalNext, TotalInt
<1>2. ASSUME NEW m \in Nat, m \in T PROVE m + 1 \in T
  <2>1. SUFFICES ASSUME m + 1 <= n PROVE Total(a + (m + 1), g) = Total(a, g) + Total(m + 1, w)
    OBVIOUS
  <2>2. m < n /\ Total(a + m, g) = Total(a, g) + Total(m, w)
    BY <1>2, <2>1
  <2>3. /\ Total(m + 1, w) = Total(m, w) + w[m] /\ w[m] = g[a + m]
    BY <2>2, TotalNext
  <2>4. Total((a + m) + 1, g) = Total(a + m, g) + g[a + m] /\ g[a + m] \in Int
    BY <2>2, TotalNext
  <2>5. Total(a, g) \in Int
    <3>1. \A c \in Nat : c < a => g[c] \in Int
      OBVIOUS
    <3>2. QED  BY <3>1, TotalInt
  <2>6. Total(m, w) \in Int
    <3>1. \A c \in Nat : c < m => w[c] \in Int
      BY <2>2
    <3>2. QED  BY <3>1, TotalInt
  <2>7. a + (m + 1) = (a + m) + 1
    OBVIOUS
  <2>8. QED  BY <2>2, <2>3, <2>4, <2>5, <2>6, <2>7
<1> HIDE DEF T
<1>3. Nat \subseteq T
  BY <1>1, <1>2, Induction
<1>4. QED  BY <1>3 DEF T

LEMMA TotalZero ==
  ASSUME NEW g, NEW n \in Nat, \A m \in Nat : m < n => g[m] = 0
  PROVE  Total(n, g) = 0
<1>1. \A m \in Nat : m < n => g[m] \in Int /\ g[m] = 0 * g[m]
  OBVIOUS
<1>2. Total(n, g) \in Int
  BY <1>1, TotalInt
<1>3. Total(n, g) = 0 * Total(n, g)
  BY <1>1, TotalTimes
<1>4. QED  BY <1>2, <1>3

Rows(G, H, u, v, n, b) ==
  /\ n \in Nat /\ b \in Nat
  /\ \A m, c \in Nat : m < n /\ c < b => G[m][c] \in Int /\ H[c][m] = G[m][c]
  /\ \A m \in Nat : m < n => u[m] = Total(b, G[m])
  /\ \A c \in Nat : c < b => v[c] = Total(n, H[c])

LEMMA TotalSwap ==
  ASSUME NEW G, NEW H, NEW u, NEW v, NEW n, NEW b, Rows(G, H, u, v, n, b)
  PROVE  Total(n, u) = Total(b, v)
<1> SUFFICES ASSUME n \in Nat, b \in Nat,
         \A m, c \in Nat : m < n /\ c < b => G[m][c] \in Int /\ H[c][m] = G[m][c],
         \A m \in Nat : m < n => u[m] = Total(b, G[m]),
         \A c \in Nat : c < b => v[c] = Total(n, H[c])
    PROVE  Total(n, u) = Total(b, v)
  BY DEF Rows
<1> DEFINE T == {m \in Nat : m <= n => Total(m, u) = Total(b, [c \in 0 .. b - 1 |-> Total(m, H[c])])}
<1>1. 0 \in T
  <2> DEFINE z == [c \in 0 .. b - 1 |-> Total(0, H[c])]
  <2>1. \A c \in Nat : c < b => z[c] = 0
    BY TotalNext
  <2> HIDE DEF z
  <2>2. Total(b, z) = 0 /\ Total(0, u) = 0
    BY <2>1, TotalZero, TotalNext
  <2>3. QED  BY <2>2 DEF z
<1>2. ASSUME NEW m \in Nat, m \in T PROVE m + 1 \in T
  <2>1. SUFFICES ASSUME m + 1 <= n PROVE Total(m + 1, u) = Total(b, [c \in 0 .. b - 1 |-> Total(m + 1, H[c])])
    OBVIOUS
  <2>2. m < n /\ Total(m, u) = Total(b, [c \in 0 .. b - 1 |-> Total(m, H[c])])
    BY <1>2, <2>1
  <2> DEFINE v0 == [c \in 0 .. b - 1 |-> Total(m, H[c])]
             v1 == [c \in 0 .. b - 1 |-> Total(m + 1, H[c])]
  <2>3. Total(m + 1, u) = Total(m, u) + Total(b, G[m])
    <3>1. u[m] = Total(b, G[m])
      BY <2>2
    <3>2. Total(m + 1, u) = Total(m, u) + u[m]
      BY TotalNext
    <3>3. QED  BY <3>1, <3>2
  <2>4. ASSUME NEW c \in Nat, c < b
        PROVE  v0[c] \in Int /\ G[m][c] \in Int /\ v1[c] = v0[c] + G[m][c]
    <3>1. \A d \in Nat : d < m => H[c][d] \in Int
      BY <2>2, <2>4
    <3>2. Total(m, H[c]) \in Int
      BY <3>1, TotalInt
    <3>3. Total(m + 1, H[c]) = Total(m, H[c]) + H[c][m] /\ H[c][m] = G[m][c] /\ G[m][c] \in Int
      BY <2>2, <2>4, TotalNext
    <3>4. c \in 0 .. b - 1
      BY <2>4
    <3>5. QED  BY <3>2, <3>3, <3>4
  <2> HIDE DEF v0, v1
  <2>5. Total(b, v1) = Total(b, v0) + Total(b, G[m])
    BY <2>4, TotalPlus
  <2>6. Total(m, u) = Total(b, v0)
    BY <2>2 DEF v0
  <2>7. QED  BY <2>3, <2>5, <2>6 DEF v1
<1> HIDE DEF T
<1>3. Nat \subseteq T
  BY <1>1, <1>2, Induction
<1>4. Total(n, u) = Total(b, [c \in 0 .. b - 1 |-> Total(n, H[c])])
  BY <1>3 DEF T
<1> DEFINE v2 == [c \in 0 .. b - 1 |-> Total(n, H[c])]
<1>5. \A c \in Nat : c < b => v2[c] = v[c]
  OBVIOUS
<1> HIDE DEF v2
<1>6. Total(b, v2) = Total(b, v)
  BY <1>5, TotalEqual
<1>7. QED  BY <1>4, <1>6 DEF v2

-------------------------------------------------------------------------------
(***************************************************************************)
(* Arithmetic modulo Q.                                                    *)
(***************************************************************************)
\* Equal modulo Q.
Same(x, y) == \E c \in Int : x - y = Q * c

LEMMA QFact == Q \in Int /\ Q >= 2 /\ Q \in Nat
BY NttAssumption

LEMMA SameRefl ==
  ASSUME NEW x \in Int
  PROVE  Same(x, x)
<1>1. x - x = Q * 0 /\ 0 \in Int
  BY QFact
<1>2. QED  BY <1>1 DEF Same

LEMMA SameSym ==
  ASSUME NEW x \in Int, NEW y \in Int, Same(x, y)
  PROVE  Same(y, x)
<1>1. PICK c \in Int : x - y = Q * c
  BY DEF Same
<1>2. y - x = Q * (-c) /\ -c \in Int
  BY <1>1, QFact
<1>3. QED  BY <1>2 DEF Same

LEMMA SameTrans ==
  ASSUME NEW x \in Int, NEW y \in Int, NEW z \in Int, Same(x, y), Same(y, z)
  PROVE  Same(x, z)
<1>1. PICK c \in Int : x - y = Q * c
  BY DEF Same
<1>2. PICK d \in Int : y - z = Q * d
  BY DEF Same
<1>3. Q * (c + d) = Q * c + Q * d /\ c + d \in Int
  BY QFact
<1>4. Q * c \in Int /\ Q * d \in Int
  BY QFact
<1>5. x - z = Q * (c + d)
  BY <1>1, <1>2, <1>3, <1>4
<1>6. QED  BY <1>3, <1>5 DEF Same

LEMMA SamePlus ==
  ASSUME NEW x \in Int, NEW y \in Int, NEW u \in Int, NEW v \in Int, Same(x, y), Same(u, v)
  PROVE  Same(x + u, y + v) /\ Same(x - u, y - v)
<1>1. PICK c \in Int : x - y = Q * c
  BY DEF Same
<1>2. PICK d \in Int : u - v = Q * d
  BY DEF Same
<1>3. Q * (c + d) = Q * c + Q * d /\ Q * (c - d) = Q * c - Q * d
  BY QFact
<1>4. Q * c \in Int /\ Q * d \in Int /\ c + d \in Int /\ c - d \in Int
  BY QFact
<1>5. (x + u) - (y + v) = Q * (c + d) /\ (x - u) - (y - v) = Q * (c - d)
  BY <1>1, <1>2, <1>3, <1>4
<1>6. QED  BY <1>4, <1>5 DEF Same

LEMMA SameTimes ==
  ASSUME NEW x \in Int, NEW y \in Int, NEW u \in Int, NEW v \in Int, Same(x, y), Same(u, v)
  PROVE  Same(x * u, y * v)
<1>1. PICK c \in Int : x - y = Q * c
  BY DEF Same
<1>2. PICK d \in Int : u - v = Q * d
  BY DEF Same
<1>3. x * u - y * v = (x - y) * u + y * (u - v)
  OBVIOUS
<1>4. (Q * c) * u + y * (Q * d) = Q * (c * u + y * d)
  BY QFact
<1>5. c * u + y * d \in Int
  OBVIOUS
<1>6. x * u - y * v = Q * (c * u + y * d)
  BY <1>1, <1>2, <1>3, <1>4
<1>7. QED  BY <1>5, <1>6 DEF Same

LEMMA DivModQ ==
  ASSUME NEW x \in Int
  PROVE  /\ x \div Q \in Int /\ x % Q \in Int /\ 0 <= x % Q /\ x % Q < Q
         /\ x = Q * (x \div Q) + (x % Q)
BY QFact, SMT

LEMMA SameMod ==
  ASSUME NEW x \in Int
  PROVE  x % Q \in Int /\ Same(x % Q, x) /\ Same(x, x % Q)
<1>1. PICK d \in Int, r \in Int : x = Q * d + r /\ r = x % Q
  BY DivModQ
<1>2. x - r = Q * d
  BY <1>1, QFact
<1>3. Same(x, r)
  BY <1>2 DEF Same
<1>4. QED  BY <1>1, <1>3, SameSym

LEMMA SameIsMod ==
  ASSUME NEW x \in Int, NEW y \in Int, Same(x, y)
  PROVE  x % Q = y % Q
<1>1. PICK d \in Int, r \in Int : x = Q * d + r /\ r = x % Q /\ 0 <= r /\ r < Q
  BY DivModQ
<1>2. PICK e \in Int, s \in Int : y = Q * e + s /\ s = y % Q /\ 0 <= s /\ s < Q
  BY DivModQ
<1>3. PICK c \in Int : x - y = Q * c
  BY DEF Same
<1>4. PICK m \in Int : m = c - d + e
  OBVIOUS
<1>5. r - s = Q * m
  <2>1. Q * (c - d + e) = Q * c - Q * d + Q * e /\ Q * c \in Int /\ Q * d \in Int /\ Q * e \in Int
    BY QFact
  <2>2. QED  BY <1>1, <1>2, <1>3, <1>4, <2>1
<1>6. ~(m >= 1)
  <2>1. m >= 1 => Q * (m - 1) >= 0
    BY QFact
  <2>2. Q * (m - 1) = Q * m - Q /\ Q * m \in Int
    BY QFact
  <2>3. QED  BY <1>1, <1>2, <1>5, <2>1, <2>2, QFact
<1>7. ~(m <= -1)
  <2>1. m <= -1 => Q * (-1 - m) >= 0
    BY QFact
  <2>2. Q * (-1 - m) = -Q - Q * m /\ Q * m \in Int
    BY QFact
  <2>3. QED  BY <1>1, <1>2, <1>5, <2>1, <2>2, QFact
<1>8. m = 0
  BY <1>6, <1>7
<1>9. QED  BY <1>1, <1>2, <1>5, <1>8, QFact

LEMMA ModIsSame ==
  ASSUME NEW x \in Int, NEW y \in Int, x % Q = y % Q
  PROVE  Same(x, y)
<1>1. Same(x, x % Q) /\ Same(x % Q, y) /\ x % Q \in Int
  BY SameMod
<1>2. QED  BY <1>1, SameTrans

\* Sums of equal numbers are equal.
LEMMA TotalSame ==
  ASSUME NEW g, NEW w, NEW n \in Nat,
         \A m \in Nat : m < n => g[m] \in Int /\ w[m] \in Int /\ Same(g[m], w[m])
  PROVE  Same(Total(n, g), Total(n, w))
<1> DEFINE T == {m \in Nat : m <= n => Same(Total(m, g), Total(m, w))}
<1>1. 0 \in T
  <2>1. Total(0, g) = 0 /\ Total(0, w) = 0 /\ Same(0, 0)
    BY TotalNext, SameRefl
  <2>2. QED  BY <2>1
<1>2. ASSUME NEW m \in Nat, m \in T PROVE m + 1 \in T
  <2>1. SUFFICES ASSUME m + 1 <= n PROVE Same(Total(m + 1, g), Total(m + 1, w))
    OBVIOUS
  <2>2. m < n /\ Same(Total(m, g), Total(m, w))
    BY <1>2, <2>1
  <2>3. /\ Total(m + 1, g) = Total(m, g) + g[m] /\ Total(m + 1, w) = Total(m, w) + w[m]
        /\ g[m] \in Int /\ w[m] \in Int /\ Same(g[m], w[m])
    BY <2>2, TotalNext
  <2>4. Total(m, g) \in Int /\ Total(m, w) \in Int
    <3>1. \A c \in Nat : c < m => g[c] \in Int /\ w[c] \in Int
      BY <2>2
    <3>2. QED  BY <3>1, TotalInt
  <2>5. Same(Total(m, g) + g[m], Total(m, w) + w[m])
    BY <2>2, <2>3, <2>4, SamePlus
  <2>6. QED  BY <2>3, <2>5
<1> HIDE DEF T
<1>3. Nat \subseteq T
  BY <1>1, <1>2, Induction
<1>4. QED  BY <1>3 DEF T

LEMMA SameIs ==
  ASSUME NEW x \in Int, NEW y \in Int
  PROVE  /\ Same(x, y) => \E c \in Int : x = y + Q * c
         /\ \A c \in Int : x = y + Q * c => Same(x, y)
<1>1. ASSUME Same(x, y) PROVE \E c \in Int : x = y + Q * c
  <2>1. PICK c \in Int : x - y = Q * c
    BY <1>1 DEF Same
  <2>2. Q * c \in Int
    BY QFact
  <2>3. x = y + Q * c
    BY <2>1, <2>2
  <2>4. QED  BY <2>3
<1>2. ASSUME NEW c \in Int, x = y + Q * c PROVE Same(x, y)
  <2>1. Q * c \in Int
    BY QFact
  <2>2. x - y = Q * c
    BY <1>2, <2>1
  <2>3. QED  BY <2>2 DEF Same
<1>3. QED  BY <1>1, <1>2

-------------------------------------------------------------------------------
(***************************************************************************)
(* The powers of the root: N more is the negative, 2N more the same.       *)
(***************************************************************************)
Powers(n, w) == w = [e \in 0 .. n |-> IF e = 0 THEN 1 ELSE (w[e - 1] * ROOT) % Q]

LEMMA PowersExist ==
  ASSUME NEW n \in Nat
  PROVE  \E w : Powers(n, w)
<1> DEFINE T == {m \in Nat : \E w : Powers(m, w)}
<1>1. 0 \in T
  <2>1. Powers(0, [m \in 0 .. 0 |-> 1])
    BY DEF Powers
  <2>2. QED  BY <2>1
<1>2. ASSUME NEW m \in Nat, m \in T PROVE m + 1 \in T
  <2>1. PICK w : Powers(m, w)
    BY <1>2
  <2> DEFINE next == (w[m] * ROOT) % Q
             v == [c \in 0 .. m + 1 |-> IF c <= m THEN w[c] ELSE next]
  <2>2. \A c \in 0 .. m : v[c] = w[c] /\ w[c] = IF c = 0 THEN 1 ELSE (w[c - 1] * ROOT) % Q
    BY <2>1 DEF Powers
  <2>3. v[m + 1] = next
    OBVIOUS
  <2>4. v = [c \in 0 .. m + 1 |-> v[c]]
    OBVIOUS
  <2> HIDE DEF v
  <2>5. ASSUME NEW c \in 0 .. m + 1 PROVE v[c] = IF c = 0 THEN 1 ELSE (v[c - 1] * ROOT) % Q
    <3>1. CASE c = m + 1
      <4>1. m \in 0 .. m
        OBVIOUS
      <4>2. v[m] = w[m] /\ v[c] = next /\ c - 1 = m /\ c # 0
        BY <2>2, <2>3, <3>1, <4>1
      <4>3. v[c] = (v[c - 1] * ROOT) % Q
        BY <4>2
      <4>4. QED  BY <4>2, <4>3
    <3>2. CASE c # m + 1
      <4>1. c \in 0 .. m /\ (c # 0 => c - 1 \in 0 .. m)
        BY <3>2
      <4>2. v[c] = w[c] /\ (c # 0 => v[c - 1] = w[c - 1])
        BY <2>2, <4>1
      <4>3. w[c] = IF c = 0 THEN 1 ELSE (w[c - 1] * ROOT) % Q
        BY <2>2, <4>1
      <4>4. QED  BY <4>2, <4>3
    <3>3. QED  BY <3>1, <3>2
  <2>6. v = [c \in 0 .. m + 1 |-> IF c = 0 THEN 1 ELSE (v[c - 1] * ROOT) % Q]
    BY <2>4, <2>5
  <2>7. Powers(m + 1, v)
    BY <2>6 DEF Powers
  <2>8. QED  BY <2>7
<1> HIDE DEF T
<1>3. Nat \subseteq T
  BY <1>1, <1>2, Induction
<1>4. QED  BY <1>3 DEF T

LEMMA RootPowerIs ==
  ASSUME NEW e \in 0 .. 2 * N - 1
  PROVE  RootPower[e] = IF e = 0 THEN 1 ELSE (RootPower[e - 1] * ROOT) % Q
<1>1. 2 * N - 1 \in Nat
  BY DegreeFact
<1> DEFINE w == CHOOSE w : Powers(2 * N - 1, w)
<1>2. Powers(2 * N - 1, w)
  BY <1>1, PowersExist
<1>3. RootPower = w
  BY DEF RootPower, Powers
<1> HIDE DEF w
<1>4. QED  BY <1>2, <1>3 DEF Powers

LEMMA RootPowerNext ==
  /\ RootPower[0] = 1
  /\ \A e \in Nat : e < 2 * N => RootPower[e] \in Int
  /\ \A e \in Nat : e + 1 < 2 * N => Same(RootPower[e + 1], RootPower[e] * ROOT)
<1>1. RootPower[0] = 1
  BY RootPowerIs, DegreeFact
<1>2. ROOT \in Int
  BY RootAssumption
<1> DEFINE T == {e \in Nat : e < 2 * N => RootPower[e] \in Int}
<1>3. 0 \in T
  BY <1>1
<1>4. ASSUME NEW e \in Nat, e + 1 < 2 * N, RootPower[e] \in Int
      PROVE  RootPower[e + 1] \in Int /\ Same(RootPower[e + 1], RootPower[e] * ROOT)
  <2>1. e + 1 \in 0 .. 2 * N - 1 /\ e + 1 # 0 /\ (e + 1) - 1 = e
    BY <1>4, DegreeFact
  <2>2. RootPower[e + 1] = (RootPower[(e + 1) - 1] * ROOT) % Q
    BY <2>1, RootPowerIs
  <2>3. PICK x \in Int : x = RootPower[e] * ROOT
    BY <1>2, <1>4
  <2>4. RootPower[e + 1] = x % Q
    BY <2>1, <2>2, <2>3
  <2>5. QED  BY <2>3, <2>4, SameMod
<1>5. ASSUME NEW e \in Nat, e \in T PROVE e + 1 \in T
  <2>1. e + 1 < 2 * N => RootPower[e] \in Int
    BY <1>5, DegreeFact
  <2>2. QED  BY <2>1, <1>4
<1> HIDE DEF T
<1>6. Nat \subseteq T
  BY <1>3, <1>5, Induction
<1>7. \A e \in Nat : e < 2 * N => RootPower[e] \in Int
  BY <1>6 DEF T
<1>8. ASSUME NEW e \in Nat, e + 1 < 2 * N PROVE Same(RootPower[e + 1], RootPower[e] * ROOT)
  <2>1. RootPower[e] \in Int
    BY <1>7, <1>8, DegreeFact
  <2>2. QED  BY <2>1, <1>4, <1>8
<1>9. QED  BY <1>1, <1>7, <1>8

\* The root to the N is -1.
LEMMA HalfTurn ==
  /\ Same(RootPower[N], -1)
  /\ \A e \in Nat : e < N => Same(RootPower[N + e], -RootPower[e])
<1>1. Same(Q - 1, -1)
  <2>1. (Q - 1) - (-1) = Q * 1
    BY QFact
  <2>2. QED  BY <2>1 DEF Same
<1>2. Same(RootPower[N], -1) /\ RootPower[N] \in Int /\ ROOT \in Int
  BY <1>1, RootAssumption, QFact
<1> DEFINE T == {e \in Nat : e < N => Same(RootPower[N + e], -RootPower[e])}
<1>3. 0 \in T
  <2>1. N + 0 = N /\ -RootPower[0] = -1
    BY RootPowerNext, DegreeFact
  <2>2. QED  BY <1>2, <2>1
<1>4. ASSUME NEW e \in Nat, e \in T PROVE e + 1 \in T
  <2>1. SUFFICES ASSUME e + 1 < N PROVE Same(RootPower[N + (e + 1)], -RootPower[e + 1])
    OBVIOUS
  <2>2. N + e \in Nat /\ N + e + 1 < 2 * N /\ N + (e + 1) = (N + e) + 1 /\ e + 1 < 2 * N
    BY <2>1, DegreeFact
  <2>3. PICK x \in Int, x1 \in Int, y \in Int, y1 \in Int :
          x = RootPower[e] /\ x1 = RootPower[e + 1] /\ y = RootPower[N + e] /\ y1 = RootPower[(N + e) + 1]
    <3>1. e < 2 * N /\ N + e < 2 * N /\ (N + e) + 1 \in Nat /\ (N + e) + 1 < 2 * N
      BY <2>1, DegreeFact
    <3>2. RootPower[e] \in Int /\ RootPower[e + 1] \in Int /\ RootPower[N + e] \in Int
          /\ RootPower[(N + e) + 1] \in Int
      BY <2>2, <3>1, RootPowerNext
    <3>3. QED  BY <3>2
  <2>4. Same(x1, x * ROOT) /\ Same(y1, y * ROOT)
    BY <2>2, <2>3, RootPowerNext
  <2>5. Same(y, -x)
    BY <1>4, <2>1, <2>3, DegreeFact
  <2>6. Same(y * ROOT, (-x) * ROOT)
    <3>1. -x \in Int /\ Same(ROOT, ROOT)
      BY <1>2, SameRefl
    <3>2. QED  BY <1>2, <2>5, <3>1, SameTimes
  <2>7. (-x) * ROOT = 0 - x * ROOT /\ x * ROOT \in Int /\ y * ROOT \in Int /\ 0 - x1 = -x1
    BY <1>2
  <2>8. Same(0 - x * ROOT, 0 - x1)
    <3>1. Same(x * ROOT, x1) /\ Same(0, 0)
      BY <2>4, <2>7, SameSym, SameRefl
    <3>2. QED  BY <2>7, <3>1, SamePlus
  <2>9. Same(y1, -x1)
    <3>1. 0 - x * ROOT \in Int /\ -x1 \in Int
      BY <2>7
    <3>2. Same(y1, 0 - x * ROOT)
      BY <2>4, <2>6, <2>7, <3>1, SameTrans
    <3>3. QED  BY <2>7, <2>8, <3>1, <3>2, SameTrans
  <2>10. QED  BY <2>2, <2>3, <2>9
<1> HIDE DEF T
<1>5. Nat \subseteq T
  BY <1>3, <1>4, Induction
<1>6. QED  BY <1>2, <1>5 DEF T

\* The powers, for every exponent.
Root(e) == RootPower[e % (2 * N)]

LEMMA ModOrder ==
  ASSUME NEW e \in Nat
  PROVE  /\ e % (2 * N) \in Nat /\ e % (2 * N) < 2 * N
         /\ \E d \in Nat : e = 2 * N * d + (e % (2 * N))
<1>1. PICK n \in Nat : n = 2 * N /\ n >= 2
  BY DegreeFact
<1>2. PICK d \in Int, r \in Nat : e = n * d + r /\ r < n /\ r = e % n
  <2>1. e % n \in Nat /\ e % n < n /\ e \div n \in Int /\ e = n * (e \div n) + (e % n)
    BY <1>1, SMT
  <2>2. QED  BY <2>1
<1>3. d >= 0
  <2>1. d <= -1 => n * (-1 - d) >= 0
    BY <1>1
  <2>2. n * (-1 - d) = -n - n * d /\ n * d \in Int
    BY <1>1
  <2>3. QED  BY <1>1, <1>2, <2>1, <2>2
<1>4. d \in Nat
  BY <1>3
<1>5. e = 2 * N * d + r /\ r = e % (2 * N)
  BY <1>1, <1>2
<1>6. e = 2 * N * d + (e % (2 * N))
  BY <1>5
<1>7. r < 2 * N
  BY <1>1, <1>2
<1>8. QED  BY <1>4, <1>5, <1>6, <1>7

LEMMA ModOrderIs ==
  ASSUME NEW e \in Nat, NEW d \in Int, NEW r \in Nat, r < 2 * N, e = 2 * N * d + r
  PROVE  e % (2 * N) = r
<1>1. PICK n \in Nat : n = 2 * N /\ n >= 2
  BY DegreeFact
<1>2. e = n * d + r /\ r < n
  BY <1>1
<1>3. PICK q \in Nat, s \in Nat : e = n * q + s /\ s < n /\ s = e % n
  BY <1>1, ModOrder
<1>5. PICK m \in Int : m = d - q
  OBVIOUS
<1>4. n * m = s - r
  <2>1. n * (d - q) = n * d - n * q /\ n * d \in Int /\ n * q \in Int
    BY <1>1
  <2>2. PICK nd \in Int, nq \in Int : nd = n * d /\ nq = n * q
    BY <2>1
  <2>3. n * m = nd - nq
    BY <1>5, <2>1, <2>2
  <2>4. e = nd + r /\ e = nq + s
    BY <1>2, <1>3, <2>2
  <2>5. QED  BY <2>2, <2>3, <2>4
<1>6. ~(m >= 1)
  <2>1. m >= 1 => n * (m - 1) >= 0
    BY <1>1
  <2>2. n * (m - 1) = n * m - n /\ n * m \in Int
    BY <1>1
  <2>3. QED  BY <1>2, <1>3, <1>4, <1>5, <2>1, <2>2
<1>7. ~(m <= -1)
  <2>1. m <= -1 => n * (-1 - m) >= 0
    BY <1>1
  <2>2. n * (-1 - m) = -n - n * m /\ n * m \in Int
    BY <1>1
  <2>3. QED  BY <1>2, <1>3, <1>4, <1>5, <2>1, <2>2
<1>8. m = 0
  BY <1>6, <1>7
<1>9. s = r
  BY <1>1, <1>4, <1>8
<1>10. QED  BY <1>1, <1>3, <1>9

LEMMA RootType == \A e \in Nat : Root(e) \in Int
BY ModOrder, RootPowerNext DEF Root

LEMMA RootSmall ==
  ASSUME NEW e \in Nat, e < 2 * N
  PROVE  Root(e) = RootPower[e]
<1>1. e = 2 * N * 0 + e
  BY DegreeFact
<1>2. e % (2 * N) = e
  BY <1>1, ModOrderIs
<1>3. QED  BY <1>2 DEF Root

LEMMA RootPeriod ==
  ASSUME NEW a \in Nat, NEW b \in Nat, NEW c \in Int, a = b + 2 * N * c
  PROVE  Root(a) = Root(b)
<1>1. PICK d \in Nat, r \in Nat : b = 2 * N * d + r /\ r < 2 * N /\ r = b % (2 * N)
  <2>1. b % (2 * N) \in Nat /\ b % (2 * N) < 2 * N /\ \E d \in Nat : b = 2 * N * d + (b % (2 * N))
    BY ModOrder
  <2>2. PICK d \in Nat : b = 2 * N * d + (b % (2 * N))
    BY <2>1
  <2>3. PICK r \in Nat : r = b % (2 * N)
    BY <2>1
  <2>4. b = 2 * N * d + r /\ r < 2 * N
    BY <2>1, <2>2, <2>3
  <2>5. QED  BY <2>3, <2>4
<1>2. a = 2 * N * (d + c) + r /\ d + c \in Int
  BY <1>1, DegreeFact
<1>3. a % (2 * N) = r
  BY <1>1, <1>2, ModOrderIs
<1>4. QED  BY <1>1, <1>3 DEF Root

LEMMA RootNext ==
  ASSUME NEW e \in Nat
  PROVE  Same(Root(e + 1), Root(e) * ROOT)
<1>1. PICK d \in Nat, r \in Nat : e = 2 * N * d + r /\ r < 2 * N /\ r = e % (2 * N)
  <2>1. e % (2 * N) \in Nat /\ e % (2 * N) < 2 * N /\ \E d \in Nat : e = 2 * N * d + (e % (2 * N))
    BY ModOrder
  <2>2. PICK d \in Nat : e = 2 * N * d + (e % (2 * N))
    BY <2>1
  <2>3. PICK r \in Nat : r = e % (2 * N)
    BY <2>1
  <2>4. e = 2 * N * d + r /\ r < 2 * N
    BY <2>1, <2>2, <2>3
  <2>5. QED  BY <2>3, <2>4
<1>2. Root(e) = RootPower[r] /\ RootPower[r] \in Int /\ ROOT \in Int
  BY <1>1, RootPowerNext, RootAssumption DEF Root
<1>3. CASE r + 1 < 2 * N
  <2>1. e + 1 = 2 * N * d + (r + 1)
    BY <1>1, DegreeFact
  <2>2. Root(e + 1) = RootPower[r + 1]
    <3>1. e + 1 \in Nat /\ r + 1 \in Nat /\ d \in Int
      OBVIOUS
    <3>2. (e + 1) % (2 * N) = r + 1
      BY <1>3, <2>1, <3>1, ModOrderIs
    <3>3. QED  BY <3>2 DEF Root
  <2>3. QED  BY <1>2, <1>3, <2>2, RootPowerNext
<1>4. CASE r + 1 = 2 * N
  <2>1. e + 1 = 2 * N * (d + 1) + 0 /\ 0 < 2 * N /\ d + 1 \in Int
    BY <1>1, <1>4, DegreeFact
  <2>2. Root(e + 1) = 1
    <3>1. (e + 1) % (2 * N) = 0
      BY <2>1, ModOrderIs
    <3>2. QED  BY <3>1, RootPowerNext DEF Root
  <2>3. N - 1 \in Nat /\ N - 1 < N /\ r = N + (N - 1) /\ (N - 1) + 1 = N /\ N < 2 * N
    BY <1>4, DegreeFact
  <2>4. PICK x \in Int, y \in Int, z \in Int :
          x = RootPower[r] /\ y = RootPower[N - 1] /\ z = RootPower[N]
    BY <1>2, <2>3, RootPowerNext, DegreeFact
  <2>5. Same(x, -y)
    BY <2>3, <2>4, HalfTurn
  <2>6. Same(z, y * ROOT) /\ Same(z, -1)
    BY <2>3, <2>4, RootPowerNext, HalfTurn
  <2>7. Same(x * ROOT, (-y) * ROOT)
    <3>1. -y \in Int /\ Same(ROOT, ROOT)
      BY <1>2, SameRefl
    <3>2. QED  BY <1>2, <2>5, <3>1, SameTimes
  <2>8. Same(y * ROOT, -1)
    <3>1. y * ROOT \in Int
      BY <1>2
    <3>2. QED  BY <2>6, <3>1, SameSym, SameTrans
  <2>9. Same(0 - y * ROOT, 0 - (-1)) /\ (-y) * ROOT = 0 - y * ROOT /\ 0 - (-1) = 1
    <3>1. y * ROOT \in Int /\ Same(0, 0)
      BY <1>2, SameRefl
    <3>2. Same(0 - y * ROOT, 0 - (-1))
      BY <2>8, <3>1, SamePlus
    <3>3. QED  BY <1>2, <3>2
  <2>10. Same(x * ROOT, 1)
    <3>1. x * ROOT \in Int /\ 0 - y * ROOT \in Int /\ (-y) * ROOT \in Int
      BY <1>2
    <3>2. QED  BY <2>7, <2>9, <3>1, SameTrans
  <2>11. Same(1, x * ROOT)
    <3>1. x * ROOT \in Int
      BY <1>2
    <3>2. QED  BY <2>10, <3>1, SameSym
  <2>12. QED  BY <1>2, <2>2, <2>4, <2>11
<1>5. QED  BY <1>1, <1>3, <1>4, DegreeFact

\* Exponents add up.
LEMMA RootPlus ==
  ASSUME NEW a \in Nat, NEW b \in Nat
  PROVE  Same(Root(a + b), Root(a) * Root(b))
<1> DEFINE T == {m \in Nat : Same(Root(a + m), Root(a) * Root(m))}
<1>0. Root(0) = 1 /\ Root(a) \in Int /\ ROOT \in Int
  BY RootSmall, RootPowerNext, RootType, DegreeFact, RootAssumption
<1>1. 0 \in T
  <2>1. Root(a) * Root(0) = Root(a) /\ a + 0 = a /\ Same(Root(a), Root(a))
    BY <1>0, SameRefl
  <2>2. QED  BY <2>1
<1>2. ASSUME NEW m \in Nat, m \in T PROVE m + 1 \in T
  <2>1. a + m \in Nat /\ a + (m + 1) = (a + m) + 1
    OBVIOUS
  <2>2. PICK x \in Int, y \in Int, y1 \in Int, z \in Int, z1 \in Int :
          x = Root(a) /\ y = Root(m) /\ y1 = Root(m + 1) /\ z = Root(a + m) /\ z1 = Root((a + m) + 1)
    BY <2>1, RootType
  <2>3. Same(y1, y * ROOT) /\ Same(z1, z * ROOT) /\ Same(z, x * y)
    BY <1>2, <2>1, <2>2, RootNext
  <2>4. x * y \in Int /\ z * ROOT \in Int /\ y * ROOT \in Int /\ (x * y) * ROOT = x * (y * ROOT)
        /\ x * y1 \in Int /\ x * (y * ROOT) \in Int
    BY <1>0
  <2>5. Same(z * ROOT, (x * y) * ROOT)
    BY <1>0, <2>3, <2>4, SameTimes, SameRefl
  <2>6. Same(x * (y * ROOT), x * y1)
    <3>1. Same(y * ROOT, y1) /\ Same(x, x)
      BY <2>3, <2>4, SameSym, SameRefl
    <3>2. QED  BY <2>4, <3>1, SameTimes
  <2>7. Same(z1, x * (y * ROOT))
    BY <2>3, <2>4, <2>5, SameTrans
  <2>8. Same(z1, x * y1)
    BY <2>4, <2>6, <2>7, SameTrans
  <2>9. QED  BY <2>1, <2>2, <2>8
<1> HIDE DEF T
<1>3. Nat \subseteq T
  BY <1>1, <1>2, Induction
<1>4. QED  BY <1>3 DEF T

LEMMA RootHalfTurn ==
  ASSUME NEW a \in Nat
  PROVE  Same(Root(a + N), -Root(a))
<1>1. PICK x \in Int, y \in Int, z \in Int : x = Root(a) /\ y = Root(N) /\ z = Root(a + N)
  BY RootType, DegreeFact
<1>2. Same(z, x * y)
  BY <1>1, RootPlus, DegreeFact
<1>3. Same(y, -1)
  BY <1>1, RootSmall, HalfTurn, DegreeFact
<1>4. Same(x * y, x * (-1))
  BY <1>3, SameTimes, SameRefl
<1>5. x * y \in Int /\ x * (-1) = -x
  BY <1>1
<1>6. Same(z, -x)
  BY <1>2, <1>4, <1>5, SameTrans
<1>7. QED  BY <1>1, <1>6

-------------------------------------------------------------------------------
(***************************************************************************)
(* Remainders.                                                             *)
(***************************************************************************)
\* Remainders modulo Q, which are equal for what is equal modulo Q.
Mod(x) == x % Q

LEMMA ModFact ==
  ASSUME NEW x \in Int, NEW y \in Int
  PROVE  Mod(x) = Mod(y) <=> Same(x, y)
BY SameIsMod, ModIsSame DEF Mod

LEMMA ModPlus ==
  ASSUME NEW x \in Int, NEW y \in Int, NEW u \in Int, NEW v \in Int,
         Mod(x) = Mod(y), Mod(u) = Mod(v)
  PROVE  Mod(x + u) = Mod(y + v) /\ Mod(x - u) = Mod(y - v)
<1>1. Same(x, y) /\ Same(u, v)
  BY ModFact
<1>2. Same(x + u, y + v) /\ Same(x - u, y - v)
  BY <1>1, SamePlus
<1>3. x + u \in Int /\ y + v \in Int /\ x - u \in Int /\ y - v \in Int
  OBVIOUS
<1>4. QED  BY <1>2, <1>3, ModFact

LEMMA ModTimes ==
  ASSUME NEW x \in Int, NEW y \in Int, NEW u \in Int, NEW v \in Int,
         Mod(x) = Mod(y), Mod(u) = Mod(v)
  PROVE  Mod(x * u) = Mod(y * v)
<1>1. Same(x, y) /\ Same(u, v)
  BY ModFact
<1>2. Same(x * u, y * v)
  BY <1>1, SameTimes
<1>3. x * u \in Int /\ y * v \in Int
  OBVIOUS
<1>4. QED  BY <1>2, <1>3, ModFact

LEMMA TotalMod ==
  ASSUME NEW g, NEW w, NEW n \in Nat,
         \A m \in Nat : m < n => g[m] \in Int /\ w[m] \in Int /\ Mod(g[m]) = Mod(w[m])
  PROVE  Mod(Total(n, g)) = Mod(Total(n, w))
<1>1. \A m \in Nat : m < n => g[m] \in Int /\ w[m] \in Int /\ Same(g[m], w[m])
  BY ModFact
<1>2. Same(Total(n, g), Total(n, w))
  BY <1>1, TotalSame
<1>3. Total(n, g) \in Int /\ Total(n, w) \in Int
  BY TotalInt
<1>4. QED  BY <1>2, <1>3, ModFact

-------------------------------------------------------------------------------
(***************************************************************************)
(* Bits.                                                                   *)
(***************************************************************************)
LEMMA DivOf ==
  ASSUME NEW x \in Nat, NEW m \in Nat, m >= 1
  PROVE  /\ x \div m \in Nat /\ x % m \in Nat /\ x % m < m
         /\ x = m * (x \div m) + (x % m)
<1>1. PICK d \in Int, r \in Nat : d = x \div m /\ r = x % m /\ x = m * d + r /\ r < m
  <2>1. x % m \in Nat /\ x % m < m /\ x \div m \in Int /\ x = m * (x \div m) + (x % m)
    BY SMT
  <2>2. QED  BY <2>1
<1>2. d >= 0
  <2>1. d <= -1 => m * (-1 - d) >= 0
    OBVIOUS
  <2>2. m * (-1 - d) = -m - m * d /\ m * d \in Int
    OBVIOUS
  <2>3. QED  BY <1>1, <2>1, <2>2
<1>3. d \in Nat
  BY <1>2
<1>4. x = m * (x \div m) + (x % m)
  BY <1>1
<1>5. QED  BY <1>1, <1>3, <1>4

LEMMA DivIs ==
  ASSUME NEW x \in Nat, NEW m \in Nat, NEW d \in Int, NEW r \in Nat, x = m * d + r, r < m
  PROVE  x \div m = d /\ x % m = r
<1>1. PICK q \in Nat, s \in Nat : q = x \div m /\ s = x % m /\ x = m * q + s /\ s < m
  BY DivOf
<1>2. PICK c \in Int : c = d - q
  OBVIOUS
<1>3. m * c = s - r
  <2>1. m * (d - q) = m * d - m * q /\ m * d \in Int /\ m * q \in Int
    OBVIOUS
  <2>2. PICK nd \in Int, nq \in Int : nd = m * d /\ nq = m * q
    BY <2>1
  <2>3. m * c = nd - nq
    BY <1>2, <2>1, <2>2
  <2>4. x = nd + r /\ x = nq + s
    BY <1>1, <2>2
  <2>5. QED  BY <2>3, <2>4
<1>4. ~(c >= 1)
  <2>1. c >= 1 => m * (c - 1) >= 0
    OBVIOUS
  <2>2. m * (c - 1) = m * c - m /\ m * c \in Int
    OBVIOUS
  <2>3. QED  BY <1>1, <1>3, <2>1, <2>2
<1>5. ~(c <= -1)
  <2>1. c <= -1 => m * (-1 - c) >= 0
    OBVIOUS
  <2>2. m * (-1 - c) = -m - m * c /\ m * c \in Int
    OBVIOUS
  <2>3. QED  BY <1>1, <1>3, <2>1, <2>2
<1>6. c = 0
  BY <1>4, <1>5
<1>7. m * c = 0
  BY <1>6
<1>8. QED  BY <1>1, <1>2, <1>3, <1>6, <1>7

LEMMA PowFact ==
  /\ LAYERS \in Nat /\ LAYERS >= 1 /\ Pow[0] = 1 /\ Pow[LAYERS] = N
  /\ \A a \in Nat : a <= LAYERS => Pow[a] \in Nat /\ Pow[a] >= 1
  /\ \A a \in Nat : a < LAYERS => Pow[a + 1] = 2 * Pow[a]
<1>1. \A a \in Nat : a <= LAYERS => a \in 0 .. LAYERS
  BY NttAssumption
<1>2. \A a \in Nat : a < LAYERS => a \in 0 .. LAYERS - 1
  BY NttAssumption
<1>3. QED  BY <1>1, <1>2, NttAssumption DEF N

LEMMA PowPlus ==
  \A a, b \in Nat : a + b <= LAYERS => Pow[a + b] = Pow[a] * Pow[b]
<1> SUFFICES ASSUME NEW a \in Nat
             PROVE  \A b \in Nat : a + b <= LAYERS => Pow[a + b] = Pow[a] * Pow[b]
  OBVIOUS
<1> DEFINE T == {b \in Nat : a + b <= LAYERS => Pow[a + b] = Pow[a] * Pow[b]}
<1>1. 0 \in T
  <2>1. a + 0 = a
    OBVIOUS
  <2>2. a <= LAYERS => Pow[a] = Pow[a] * Pow[0]
    BY PowFact
  <2>3. QED  BY <2>1, <2>2
<1>2. ASSUME NEW b \in Nat, b \in T PROVE b + 1 \in T
  <2>1. SUFFICES ASSUME a + (b + 1) <= LAYERS PROVE Pow[a + (b + 1)] = Pow[a] * Pow[b + 1]
    OBVIOUS
  <2>2. a + b \in Nat /\ a + b < LAYERS /\ a + (b + 1) = (a + b) + 1 /\ b < LAYERS /\ a <= LAYERS
    BY <2>1, PowFact
  <2>3. PICK x \in Nat, y \in Nat, z \in Nat : x = Pow[a] /\ y = Pow[b] /\ z = Pow[a + b]
    BY <2>2, PowFact
  <2>4. z = x * y /\ Pow[(a + b) + 1] = 2 * z /\ Pow[b + 1] = 2 * y
    BY <1>2, <2>2, <2>3, PowFact
  <2>5. 2 * (x * y) = x * (2 * y)
    OBVIOUS
  <2>6. QED  BY <2>2, <2>3, <2>4, <2>5
<1> HIDE DEF T
<1>3. Nat \subseteq T
  BY <1>1, <1>2, Induction
<1>4. QED  BY <1>3 DEF T

LEMMA PowRises ==
  ASSUME NEW a \in Nat, NEW b \in Nat, a <= b, b <= LAYERS
  PROVE  Pow[a] <= Pow[b]
<1>1. PICK c \in Nat : b = a + c
  <2>1. b - a \in Nat /\ b = a + (b - a)
    OBVIOUS
  <2>2. QED  BY <2>1
<1>2. PICK x \in Nat, y \in Nat : x = Pow[a] /\ y = Pow[c] /\ x >= 1 /\ y >= 1
  <2>1. a <= LAYERS /\ c <= LAYERS
    BY <1>1, PowFact
  <2>2. QED  BY <2>1, PowFact
<1>3. Pow[b] = x * y
  BY <1>1, <1>2, PowPlus
<1>4. x * (y - 1) >= 0 /\ x * (y - 1) = x * y - x /\ x * y \in Int
  BY <1>2
<1>5. QED  BY <1>2, <1>3, <1>4

Bit(x, b) == (x \div Pow[b]) % 2

LEMMA Parity ==
  ASSUME NEW d \in Nat
  PROVE  /\ d % 2 \in {0, 1}
         /\ \A c \in Nat : (2 * c + d) % 2 = d % 2
         /\ \A c \in Int : 2 * c - 1 - d \in Nat => (2 * c - 1 - d) % 2 = 1 - (d % 2)
BY SMT

LEMMA BitType ==
  ASSUME NEW x \in Nat, NEW b \in Nat, b < LAYERS
  PROVE  Bit(x, b) \in {0, 1} /\ Bit(x, b) \in Int
<1>1. Pow[b] \in Nat /\ Pow[b] >= 1
  BY PowFact
<1>2. x \div Pow[b] \in Nat
  BY <1>1, DivOf
<1>3. QED  BY <1>2, Parity DEF Bit

LEMMA BitBeyond ==
  ASSUME NEW n \in Nat, NEW y \in Nat, n <= LAYERS, y < Pow[n], NEW b \in Nat, n <= b, b < LAYERS
  PROVE  Bit(y, b) = 0
<1>1. PICK m \in Nat : m = Pow[b] /\ y < m
  BY PowFact, PowRises
<1>2. y = m * 0 + y
  BY <1>1
<1>3. y \div m = 0
  BY <1>1, <1>2, DivIs
<1>4. 0 % 2 = 0
  OBVIOUS
<1>5. QED  BY <1>1, <1>3, <1>4 DEF Bit

LEMMA BitOfBlock ==
  ASSUME NEW n \in Nat, NEW B \in Nat, NEW y \in Nat, NEW b \in Nat, n + b < LAYERS, y < Pow[n]
  PROVE  Bit(Pow[n] * B + y, n + b) = Bit(B, b)
<1>1. PICK u \in Nat, v \in Nat : u = Pow[n] /\ v = Pow[b] /\ v >= 1 /\ Pow[n + b] = u * v
  <2>1. n <= LAYERS /\ b <= LAYERS /\ n + b <= LAYERS
    BY PowFact
  <2>2. Pow[n + b] = Pow[n] * Pow[b]
    BY <2>1, PowPlus
  <2>3. Pow[n] \in Nat /\ Pow[b] \in Nat /\ Pow[b] >= 1
    BY <2>1, PowFact
  <2>4. QED  BY <2>2, <2>3
<1>2. PICK d \in Nat, r \in Nat : d = B \div v /\ B = v * d + r /\ r < v
  <2>1. B \div v \in Nat /\ B % v \in Nat /\ B % v < v /\ B = v * (B \div v) + (B % v)
    BY <1>1, DivOf
  <2>2. QED  BY <2>1
<1>3. u * B = (u * v) * d + u * r
  <2>1. u * (v * d + r) = (u * v) * d + u * r
    BY <1>1, <1>2
  <2>2. QED  BY <1>2, <2>1
<1>4. u * r + y < u * v
  <2>0. v - 1 - r \in Nat /\ v * u = u * v /\ r * u = u * r
    BY <1>1, <1>2
  <2>1. u * (v - 1 - r) >= 0 /\ u * (v - 1 - r) = u * v - u - u * r
    <3>1. PICK e \in Nat : e = v - 1 - r
      BY <2>0
    <3>2. u * e >= 0
      OBVIOUS
    <3>3. u * (v - 1 - r) = u * v - u - u * r
      OBVIOUS
    <3>4. QED  BY <3>1, <3>2, <3>3
  <2>2. u * v \in Int /\ u * r \in Int /\ y < u
    BY <1>1
  <2>3. QED  BY <2>1, <2>2
<1>5. (u * B + y) \div (u * v) = d
  <2>1. PICK m \in Nat, s \in Nat, x \in Nat : m = u * v /\ s = u * r + y /\ x = u * B + y
    OBVIOUS
  <2>2. x = m * d + s /\ s < m
    <3>1. m * d \in Int /\ u * r \in Int
      OBVIOUS
    <3>2. QED  BY <1>3, <1>4, <2>1, <3>1
  <2>3. x \div m = d
    BY <2>2, DivIs
  <2>4. QED  BY <2>1, <2>3
<1>6. QED  BY <1>1, <1>2, <1>5 DEF Bit

LEMMA BitInBlock ==
  ASSUME NEW n \in Nat, NEW c \in Nat, NEW y \in Nat, NEW b \in Nat, b < n, n <= LAYERS
  PROVE  Bit(Pow[n] * c + y, b) = Bit(y, b)
<1>1. PICK v \in Nat, w \in Nat : v = Pow[b] /\ v >= 1 /\ Pow[n] = v * (2 * w)
  <2>1. n - b - 1 \in Nat /\ n - b - 1 < LAYERS /\ b + ((n - b - 1) + 1) = n /\ b <= LAYERS
        /\ (n - b - 1) + 1 \in Nat /\ n - b - 1 <= LAYERS
    BY PowFact
  <2>2. Pow[n] = Pow[b] * Pow[(n - b - 1) + 1]
    BY <2>1, PowPlus
  <2>3. Pow[(n - b - 1) + 1] = 2 * Pow[n - b - 1] /\ Pow[n - b - 1] \in Nat
    BY <2>1, PowFact
  <2>4. QED  BY <2>1, <2>2, <2>3, PowFact
<1>2. PICK d \in Nat, r \in Nat : d = y \div v /\ y = v * d + r /\ r < v
  <2>1. y \div v \in Nat /\ y % v \in Nat /\ y % v < v /\ y = v * (y \div v) + (y % v)
    BY <1>1, DivOf
  <2>2. QED  BY <2>1
<1>3. PICK g \in Nat, x \in Nat : g = w * c /\ x = Pow[n] * c + y
  <2>1. Pow[n] * c \in Nat
    <3>1. Pow[n] \in Nat
      BY PowFact
    <3>2. QED  BY <3>1
  <2>2. w * c \in Nat /\ Pow[n] * c + y \in Nat
    BY <2>1
  <2>3. QED  BY <2>2
<1>4. x = v * (2 * g + d) + r
  <2>1. (v * (2 * w)) * c = v * (2 * (w * c))
    BY <1>1
  <2>2. v * (2 * g + d) = v * (2 * g) + v * d
    BY <1>2
  <2>3. v * (2 * g) \in Int /\ v * d \in Int
    BY <1>2
  <2>4. x = v * (2 * g) + y
    BY <1>1, <1>3, <2>1
  <2>5. QED  BY <1>2, <2>2, <2>3, <2>4
<1>5. x \div v = 2 * g + d
  <2>1. 2 * g + d \in Int
    OBVIOUS
  <2>2. QED  BY <1>2, <1>4, <2>1, DivIs
<1>6. (2 * g + d) % 2 = d % 2
  BY Parity
<1>7. QED  BY <1>1, <1>2, <1>3, <1>5, <1>6 DEF Bit

\* The bits of the number that is as far from the end as y from the start.
LEMMA BitOfMirror ==
  ASSUME NEW n \in Nat, NEW y \in Nat, n <= LAYERS, y < Pow[n], NEW b \in Nat, b < n
  PROVE  Bit(Pow[n] - 1 - y, b) = 1 - Bit(y, b)
<1>1. PICK v \in Nat, w \in Nat : v = Pow[b] /\ v >= 1 /\ Pow[n] = v * (2 * w)
  <2>1. n - b - 1 \in Nat /\ n - b - 1 < LAYERS /\ b + ((n - b - 1) + 1) = n /\ b <= LAYERS
        /\ (n - b - 1) + 1 \in Nat /\ n - b - 1 <= LAYERS
    BY PowFact
  <2>2. Pow[n] = Pow[b] * Pow[(n - b - 1) + 1]
    BY <2>1, PowPlus
  <2>3. Pow[(n - b - 1) + 1] = 2 * Pow[n - b - 1] /\ Pow[n - b - 1] \in Nat
    BY <2>1, PowFact
  <2>4. QED  BY <2>1, <2>2, <2>3, PowFact
<1>2. PICK d \in Nat, r \in Nat : d = y \div v /\ y = v * d + r /\ r < v
  <2>1. y \div v \in Nat /\ y % v \in Nat /\ y % v < v /\ y = v * (y \div v) + (y % v)
    BY <1>1, DivOf
  <2>2. QED  BY <2>1
<1>3. PICK x \in Nat, m \in Int : x = Pow[n] - 1 - y /\ m = 2 * w - 1 - d
  <2>1. Pow[n] \in Nat
    BY PowFact
  <2>2. QED  BY <2>1
<1>4. x = v * m + (v - 1 - r) /\ v - 1 - r \in Nat /\ v - 1 - r < v
  <2>1. v * (2 * w - 1 - d) = v * (2 * w) - v - v * d
    BY <1>1, <1>2
  <2>2. v * (2 * w) \in Int /\ v * d \in Int
    BY <1>1, <1>2
  <2>3. PICK vw \in Int, vd \in Int : vw = v * (2 * w) /\ vd = v * d
    BY <2>2
  <2>4. v * m = vw - v - vd /\ x = vw - 1 - y /\ y = vd + r
    BY <1>1, <1>2, <1>3, <2>1, <2>3
  <2>5. PICK vm \in Int : vm = v * m
    OBVIOUS
  <2>6. x = vm + (v - 1 - r)
    BY <2>4, <2>5
  <2>7. QED  BY <1>2, <2>5, <2>6
<1>5. x \div v = m
  BY <1>4, DivIs
<1>6. m \in Nat
  BY <1>1, <1>5, DivOf
<1>7. m % 2 = 1 - (d % 2)
  BY <1>3, <1>6, Parity
<1>8. QED  BY <1>1, <1>2, <1>3, <1>5, <1>7 DEF Bit

-------------------------------------------------------------------------------
(***************************************************************************)
(* Bit reversal.                                                           *)
(***************************************************************************)
\* The terms of BitRev.
Rev(x) == [b \in 0 .. LAYERS - 1 |-> ((x \div Pow[b]) % 2) * Pow[LAYERS - 1 - b]]

LEMMA RevAt ==
  ASSUME NEW x \in Nat, NEW b \in Nat, b < LAYERS
  PROVE  Rev(x)[b] = Bit(x, b) * Pow[LAYERS - 1 - b] /\ Rev(x)[b] \in Nat
         /\ Pow[LAYERS - 1 - b] \in Nat
<1>1. b \in 0 .. LAYERS - 1 /\ LAYERS - 1 - b \in Nat /\ LAYERS - 1 - b <= LAYERS
  BY PowFact
<1>2. Rev(x)[b] = Bit(x, b) * Pow[LAYERS - 1 - b]
  BY <1>1 DEF Rev, Bit
<1>3. Bit(x, b) \in Nat /\ Pow[LAYERS - 1 - b] \in Nat
  BY <1>1, PowFact, BitType
<1>4. QED  BY <1>2, <1>3

LEMMA TotalNat ==
  ASSUME NEW g, NEW n \in Nat, \A m \in Nat : m < n => g[m] \in Nat
  PROVE  Total(n, g) \in Nat
<1> DEFINE T == {m \in Nat : m <= n => Total(m, g) \in Nat}
<1>1. 0 \in T
  BY TotalNext
<1>2. ASSUME NEW m \in Nat, m \in T PROVE m + 1 \in T
  <2>1. SUFFICES ASSUME m + 1 <= n PROVE Total(m + 1, g) \in Nat
    OBVIOUS
  <2>2. Total(m, g) \in Nat /\ g[m] \in Nat
    BY <1>2, <2>1
  <2>3. QED  BY <2>2, TotalNext
<1> HIDE DEF T
<1>3. Nat \subseteq T
  BY <1>1, <1>2, Induction
<1>4. QED  BY <1>3 DEF T

LEMMA RevSmall ==
  ASSUME NEW n \in Nat, n <= LAYERS, NEW x \in Nat, x < Pow[n]
  PROVE  BitRev(x) = Total(n, Rev(x)) /\ BitRev(x) \in Nat
<1>1. \A m \in Nat : m < LAYERS => Rev(x)[m] \in Nat
  BY RevAt
<1>2. PICK c \in Nat : LAYERS = n + c
  <2>1. LAYERS - n \in Nat /\ LAYERS = n + (LAYERS - n)
    BY PowFact
  <2>2. QED  BY <2>1
<1> DEFINE w == [m \in 0 .. LAYERS |-> Rev(x)[n + m]]
<1>3. \A m \in Nat : m < c => w[m] = Rev(x)[n + m] /\ w[m] = 0
  <2>1. SUFFICES ASSUME NEW m \in Nat, m < c PROVE w[m] = Rev(x)[n + m] /\ w[m] = 0
    OBVIOUS
  <2>2. m \in 0 .. LAYERS /\ n + m \in Nat /\ n <= n + m /\ n + m < LAYERS
    BY <1>2, <2>1
  <2>3. Bit(x, n + m) = 0 /\ Pow[LAYERS - 1 - (n + m)] \in Nat
    BY <2>2, BitBeyond, RevAt
  <2>4. Rev(x)[n + m] = Bit(x, n + m) * Pow[LAYERS - 1 - (n + m)]
    BY <2>2, RevAt
  <2>5. Rev(x)[n + m] = 0
    BY <2>3, <2>4
  <2>6. QED  BY <2>2, <2>5
<1> HIDE DEF w
<1>4. Total(c, w) = 0
  BY <1>3, TotalZero
<1>5. Total(n + c, Rev(x)) = Total(n, Rev(x)) + Total(c, w)
  <2>1. \A m \in Nat : m < n + c => Rev(x)[m] \in Int
    BY <1>1, <1>2
  <2>2. QED  BY <1>3, <2>1, TotalSplit
<1>6. Total(n, Rev(x)) \in Nat
  <2>1. \A m \in Nat : m < n => Rev(x)[m] \in Nat
    BY <1>1, PowFact
  <2>2. QED  BY <2>1, TotalNat
<1>7. BitRev(x) = Total(n + c, Rev(x))
  BY <1>2 DEF BitRev, Rev
<1>8. QED  BY <1>4, <1>5, <1>6, <1>7

LEMMA RevType ==
  ASSUME NEW x \in Nat, x < N
  PROVE  BitRev(x) \in Nat
BY PowFact, RevSmall

\* The reversed number without its first bit.
LEMMA RevParts ==
  ASSUME NEW a \in Nat, NEW n \in Nat, a + 1 + n = LAYERS, NEW x \in Nat, x < N, NEW w,
         \A m \in Nat : m < n => w[m] = Rev(x)[a + 1 + m]
  PROVE  /\ Total(a, Rev(x)) \in Nat /\ Total(n, w) \in Nat
         /\ BitRev(x) = Total(a, Rev(x)) + Rev(x)[a] + Total(n, w)
<1>0. LAYERS = (a + 1) + n /\ a < LAYERS /\ a + 1 \in Nat
  OBVIOUS
<1>1. \A m \in Nat : m < LAYERS => Rev(x)[m] \in Nat
  BY RevAt
<1>2. \A m \in Nat : m < n => w[m] = Rev(x)[(a + 1) + m] /\ w[m] \in Nat
  <2>1. \A m \in Nat : m < n => (a + 1) + m \in Nat /\ (a + 1) + m < LAYERS /\ (a + 1) + m = a + 1 + m
    BY <1>0
  <2>2. QED  BY <1>1, <2>1
<1>3. Total((a + 1) + n, Rev(x)) = Total(a + 1, Rev(x)) + Total(n, w)
  <2>1. \A m \in Nat : m < (a + 1) + n => Rev(x)[m] \in Int
    BY <1>0, <1>1
  <2>2. PICK a1 \in Nat : a1 = a + 1
    OBVIOUS
  <2>3. \A m \in Nat : m < a1 + n => Rev(x)[m] \in Int
    BY <2>1, <2>2
  <2>4. \A m \in Nat : m < n => w[m] = Rev(x)[a1 + m]
    BY <1>2, <2>2
  <2>5. Total(a1 + n, Rev(x)) = Total(a1, Rev(x)) + Total(n, w)
    BY <2>3, <2>4, TotalSplit
  <2>6. QED  BY <2>2, <2>5
<1>4. Total(a + 1, Rev(x)) = Total(a, Rev(x)) + Rev(x)[a]
  BY TotalNext
<1>5. Total(a, Rev(x)) \in Nat /\ Total(n, w) \in Nat
  <2>1. \A m \in Nat : m < a => Rev(x)[m] \in Nat
    BY <1>0, <1>1
  <2>2. QED  BY <1>2, <2>1, TotalNat
<1>6. BitRev(x) = Total((a + 1) + n, Rev(x))
  BY <1>0 DEF BitRev, Rev
<1>7. QED  BY <1>3, <1>4, <1>5, <1>6

\* Shifting the reversed number to the left: the bits up to a leave it, bit a becomes the
\* first, and the rest is the reversed number of the block of x.
LEMMA RevShifted ==
  ASSUME NEW a \in Nat, NEW n \in Nat, a + 1 + n = LAYERS,
         NEW B \in Nat, B < Pow[n], NEW y \in Nat, y < Pow[a + 1], NEW x \in Nat, x < N,
         x = Pow[a + 1] * B + y
  PROVE  \E c \in Nat : Pow[a + 1] * BitRev(x) = 2 * N * c + N * Bit(x, a) + BitRev(B)
<1>0. a + 1 \in Nat /\ a + 1 <= LAYERS /\ a < LAYERS /\ n <= LAYERS /\ LAYERS - 1 - a = n
  OBVIOUS
<1>1. PICK u \in Nat : u = Pow[a + 1]
  BY <1>0, PowFact
<1>2. u * Pow[n] = N /\ Pow[n] \in Nat
  <2>1. (a + 1) + n = LAYERS /\ (a + 1) + n <= LAYERS
    BY <1>0
  <2>2. Pow[(a + 1) + n] = Pow[a + 1] * Pow[n]
    BY <1>0, <2>1, PowPlus
  <2>3. QED  BY <1>0, <1>1, <2>1, <2>2, PowFact
<1> DEFINE w == [m \in 0 .. LAYERS |-> Rev(x)[a + 1 + m]]
           v == [m \in 0 .. LAYERS |-> Bit(x, m) * Pow[a - 1 - m]]
<1>3. \A m \in Nat : m < n => w[m] = Rev(x)[a + 1 + m]
  BY <1>0
<1>4. \A m \in Nat : m < n => w[m] \in Int /\ Rev(B)[m] = u * w[m]
  <2>1. SUFFICES ASSUME NEW m \in Nat, m < n PROVE w[m] \in Int /\ Rev(B)[m] = u * w[m]
    OBVIOUS
  <2>2. m < LAYERS /\ (a + 1) + m \in Nat /\ (a + 1) + m < LAYERS
        /\ LAYERS - 1 - ((a + 1) + m) \in Nat
        /\ (a + 1) + (LAYERS - 1 - ((a + 1) + m)) = LAYERS - 1 - m
        /\ (a + 1) + (LAYERS - 1 - ((a + 1) + m)) <= LAYERS
    BY <1>0, <2>1
  <2>3. Pow[LAYERS - 1 - m] = u * Pow[LAYERS - 1 - ((a + 1) + m)]
    BY <1>0, <1>1, <2>2, PowPlus
  <2>4. Bit(x, (a + 1) + m) = Bit(B, m)
    BY <1>0, <2>2, BitOfBlock
  <2>5. PICK e \in Int, p \in Int : e = Bit(B, m) /\ p = Pow[LAYERS - 1 - ((a + 1) + m)]
    BY <2>2, BitType, RevAt
  <2>6. Rev(x)[(a + 1) + m] = e * p /\ Rev(B)[m] = e * (u * p)
    <3>1. Rev(x)[(a + 1) + m] = Bit(x, (a + 1) + m) * Pow[LAYERS - 1 - ((a + 1) + m)]
      BY <2>2, RevAt
    <3>2. Rev(B)[m] = Bit(B, m) * Pow[LAYERS - 1 - m]
      BY <2>2, RevAt
    <3>3. QED  BY <2>3, <2>4, <2>5, <3>1, <3>2
  <2>7. w[m] = Rev(x)[(a + 1) + m]
    BY <1>3, <2>1
  <2>8. e * (u * p) = u * (e * p) /\ e * p \in Int
    BY <2>5
  <2>9. QED  BY <2>6, <2>7, <2>8
<1>5. \A m \in Nat : m < a => v[m] \in Nat /\ u * Rev(x)[m] = (2 * N) * v[m]
  <2>1. SUFFICES ASSUME NEW m \in Nat, m < a PROVE v[m] \in Nat /\ u * Rev(x)[m] = (2 * N) * v[m]
    OBVIOUS
  <2>2. m < LAYERS /\ a - 1 - m \in Nat /\ a - 1 - m < LAYERS /\ (a - 1 - m) + 1 \in Nat
        /\ LAYERS - 1 - m = n + ((a - 1 - m) + 1) /\ LAYERS - 1 - m <= LAYERS /\ a - 1 - m <= LAYERS
    BY <1>0, <2>1
  <2>3. Pow[LAYERS - 1 - m] = Pow[n] * (2 * Pow[a - 1 - m])
    <3>1. Pow[n + ((a - 1 - m) + 1)] = Pow[n] * Pow[(a - 1 - m) + 1]
      BY <2>2, PowPlus
    <3>2. Pow[(a - 1 - m) + 1] = 2 * Pow[a - 1 - m]
      BY <2>2, PowFact
    <3>3. QED  BY <2>2, <3>1, <3>2
  <2>4. PICK e \in Nat, p \in Nat, s \in Nat : e = Bit(x, m) /\ p = Pow[a - 1 - m] /\ s = Pow[n]
    <3>1. Bit(x, m) \in Nat
      <4>1. Bit(x, m) \in {0, 1}
        BY <2>2, BitType
      <4>2. QED  BY <4>1
    <3>2. QED  BY <1>2, <2>2, <3>1, PowFact
  <2>5. Rev(x)[m] = e * (s * (2 * p))
    BY <2>2, <2>3, <2>4, RevAt
  <2>6. v[m] = e * p
    BY <2>2, <2>4
  <2>7. u * (e * (s * (2 * p))) = (2 * (u * s)) * (e * p)
    OBVIOUS
  <2>8. u * s = N
    BY <1>2, <2>4
  <2>9. e * p \in Nat
    OBVIOUS
  <2>10. QED  BY <2>5, <2>6, <2>7, <2>8, <2>9
<1> HIDE DEF w, v
<1>6. /\ Total(a, Rev(x)) \in Nat /\ Total(n, w) \in Nat
      /\ BitRev(x) = Total(a, Rev(x)) + Rev(x)[a] + Total(n, w)
  BY <1>3, RevParts
<1>7. Total(n, Rev(B)) = u * Total(n, w)
  BY <1>4, TotalTimes
<1>8. BitRev(B) = Total(n, Rev(B))
  BY <1>0, RevSmall
<1>9. u * Total(a, Rev(x)) = (2 * N) * Total(a, v)
  <2> DEFINE z == [m \in 0 .. LAYERS |-> u * Rev(x)[m]]
  <2>1. \A m \in Nat : m < a => Rev(x)[m] \in Int /\ z[m] = u * Rev(x)[m]
    <3>1. SUFFICES ASSUME NEW m \in Nat, m < a PROVE Rev(x)[m] \in Int /\ z[m] = u * Rev(x)[m]
      OBVIOUS
    <3>2. m < LAYERS /\ m \in 0 .. LAYERS
      BY <1>0, <3>1
    <3>3. QED  BY <3>2, RevAt
  <2>2. \A m \in Nat : m < a => v[m] \in Int /\ z[m] = (2 * N) * v[m]
    <3>1. SUFFICES ASSUME NEW m \in Nat, m < a PROVE v[m] \in Int /\ z[m] = (2 * N) * v[m]
      OBVIOUS
    <3>2. v[m] \in Nat /\ u * Rev(x)[m] = (2 * N) * v[m] /\ z[m] = u * Rev(x)[m]
      BY <1>5, <2>1, <3>1
    <3>3. v[m] \in Int
      BY <3>2
    <3>4. z[m] = (2 * N) * v[m]
      BY <3>2, Zenon
    <3>5. QED  BY <3>3, <3>4
  <2> HIDE DEF z
  <2>3. Total(a, z) = u * Total(a, Rev(x))
    BY <2>1, TotalTimes
  <2>4. 2 * N \in Int
    BY DegreeFact
  <2>5. Total(a, z) = (2 * N) * Total(a, v)
    BY <2>2, <2>4, TotalTimes
  <2>6. QED  BY <2>3, <2>5
<1>10. Total(a, v) \in Nat
  BY <1>5, TotalNat
<1>11. u * Rev(x)[a] = N * Bit(x, a)
  <2>1. Rev(x)[a] = Bit(x, a) * Pow[n] /\ Bit(x, a) \in Int
    BY <1>0, RevAt, BitType
  <2>2. PICK e \in Int, s \in Int : e = Bit(x, a) /\ s = Pow[n]
    BY <1>2, <2>1
  <2>3. u * (e * s) = (u * s) * e
    OBVIOUS
  <2>4. QED  BY <1>2, <2>1, <2>2, <2>3
<1>12. PICK t1 \in Nat, t2 \in Nat, t3 \in Nat :
         t1 = Total(a, Rev(x)) /\ t2 = Rev(x)[a] /\ t3 = Total(n, w)
  BY <1>0, <1>6, RevAt
<1>13. u * (t1 + t2 + t3) = u * t1 + u * t2 + u * t3
  OBVIOUS
<1>14. u * BitRev(x) = 2 * N * Total(a, v) + N * Bit(x, a) + BitRev(B)
  BY <1>6, <1>7, <1>8, <1>9, <1>11, <1>12, <1>13
<1>15. QED  BY <1>1, <1>10, <1>14

\* A number with one more bit.
LEMMA RevOneMore ==
  ASSUME NEW n \in Nat, n < LAYERS, NEW B \in Nat, B < Pow[n]
  PROVE  /\ Pow[n] + B \in Nat /\ Pow[n] + B < Pow[n + 1] /\ Pow[n] + B < N
         /\ BitRev(Pow[n] + B) = BitRev(B) + Pow[LAYERS - 1 - n]
<1>1. PICK s \in Nat : s = Pow[n] /\ s >= 1 /\ Pow[n + 1] = 2 * s
  BY PowFact
<1>2. PICK x \in Nat : x = s + B /\ x = Pow[n] * 1 + B /\ x < Pow[n + 1]
  BY <1>1
<1>3. n + 1 \in Nat /\ n + 1 <= LAYERS /\ n <= LAYERS /\ Pow[n + 1] <= N
  <2>1. n + 1 \in Nat /\ n + 1 <= LAYERS /\ n <= LAYERS
    BY PowFact
  <2>2. Pow[n + 1] <= Pow[LAYERS]
    BY <2>1, PowFact, PowRises
  <2>3. QED  BY <2>1, <2>2, PowFact
<1>4. BitRev(x) = Total(n + 1, Rev(x)) /\ BitRev(B) = Total(n, Rev(B))
  BY <1>2, <1>3, RevSmall
<1>5. Total(n + 1, Rev(x)) = Total(n, Rev(x)) + Rev(x)[n]
  BY TotalNext
<1>6. Total(n, Rev(x)) = Total(n, Rev(B))
  <2>1. \A m \in Nat : m < n => Rev(x)[m] = Rev(B)[m]
    <3>1. SUFFICES ASSUME NEW m \in Nat, m < n PROVE Rev(x)[m] = Rev(B)[m]
      OBVIOUS
    <3>2. m < LAYERS
      BY <3>1, PowFact
    <3>3. Bit(x, m) = Bit(B, m)
      BY <1>2, <1>3, <3>1, BitInBlock
    <3>4. QED  BY <3>2, <3>3, RevAt
  <2>2. QED  BY <2>1, TotalEqual
<1>7. Rev(x)[n] = Pow[LAYERS - 1 - n] /\ Pow[LAYERS - 1 - n] \in Nat
  <2>1. x \div s = 1
    <3>1. x = s * 1 + B
      BY <1>2
    <3>2. QED  BY <1>1, <3>1, DivIs
  <2>2. Bit(x, n) = 1
    BY <1>1, <2>1 DEF Bit
  <2>3. Rev(x)[n] = 1 * Pow[LAYERS - 1 - n] /\ Pow[LAYERS - 1 - n] \in Nat
    BY <2>2, RevAt
  <2>4. QED  BY <2>3
<1>8. x = Pow[n] + B /\ x < N
  BY <1>1, <1>2, <1>3, PowFact
<1>9. QED  BY <1>2, <1>4, <1>5, <1>6, <1>7, <1>8

\* The terms of all bits.
LEMMA AllBits ==
  ASSUME NEW g, NEW n \in Nat, n <= LAYERS,
         \A m \in Nat : m < n => g[m] = Pow[LAYERS - 1 - m]
  PROVE  Total(n, g) = N - Pow[LAYERS - n]
<1> DEFINE T == {m \in Nat : m <= n => Total(m, g) = N - Pow[LAYERS - m]}
<1>1. 0 \in T
  <2>1. LAYERS - 0 = LAYERS /\ N - N = 0
    BY PowFact, DegreeFact
  <2>2. QED  BY <2>1, TotalNext, PowFact
<1>2. ASSUME NEW m \in Nat, m \in T PROVE m + 1 \in T
  <2>1. SUFFICES ASSUME m + 1 <= n PROVE Total(m + 1, g) = N - Pow[LAYERS - (m + 1)]
    OBVIOUS
  <2>2. PICK b \in Nat : b = LAYERS - 1 - m /\ b < LAYERS /\ b + 1 = LAYERS - m /\ b = LAYERS - (m + 1)
                         /\ b <= LAYERS
    BY <2>1, PowFact
  <2>3. Total(m + 1, g) = Total(m, g) + g[m]
    BY TotalNext
  <2>4. Total(m, g) = N - Pow[b + 1] /\ g[m] = Pow[b]
    BY <1>2, <2>1, <2>2
  <2>5. Pow[b + 1] = 2 * Pow[b] /\ Pow[b] \in Nat
    BY <2>2, PowFact
  <2>6. Total(m + 1, g) = N - Pow[b]
    BY <2>3, <2>4, <2>5, DegreeFact
  <2>7. QED  BY <2>2, <2>6
<1> HIDE DEF T
<1>3. Nat \subseteq T
  BY <1>1, <1>2, Induction
<1>4. QED  BY <1>3 DEF T

LEMMA RevOfMirror ==
  ASSUME NEW n \in Nat, n <= LAYERS, NEW B \in Nat, B < Pow[n]
  PROVE  /\ Pow[n] - 1 - B \in Nat /\ Pow[n] - 1 - B < Pow[n]
         /\ BitRev(B) + BitRev(Pow[n] - 1 - B) = N - Pow[LAYERS - n]
<1>1. PICK s \in Nat : s = Pow[n]
  BY PowFact
<1>2. PICK x \in Nat : x = Pow[n] - 1 - B /\ x < Pow[n]
  BY <1>1
<1>3. BitRev(x) = Total(n, Rev(x)) /\ BitRev(B) = Total(n, Rev(B))
  BY <1>2, RevSmall
<1> DEFINE g == [m \in 0 .. LAYERS |-> Pow[LAYERS - 1 - m]]
<1>4. \A m \in Nat : m < n => g[m] = Pow[LAYERS - 1 - m]
  BY PowFact
<1>5. \A m \in Nat : m < n => Rev(x)[m] \in Int /\ Rev(B)[m] \in Int /\ g[m] = Rev(B)[m] + Rev(x)[m]
  <2>1. SUFFICES ASSUME NEW m \in Nat, m < n
                 PROVE  Rev(x)[m] \in Int /\ Rev(B)[m] \in Int /\ g[m] = Rev(B)[m] + Rev(x)[m]
    OBVIOUS
  <2>2. m < LAYERS
    BY <2>1, PowFact
  <2>3. PICK e \in Int, p \in Int : e = Bit(B, m) /\ p = Pow[LAYERS - 1 - m]
    BY <2>2, BitType, RevAt
  <2>4. Bit(x, m) = 1 - e
    BY <1>2, <2>1, <2>3, BitOfMirror
  <2>5. Rev(B)[m] = e * p /\ Rev(x)[m] = (1 - e) * p
    BY <2>2, <2>3, <2>4, RevAt
  <2>6. (1 - e) * p = p - e * p /\ e * p \in Int
    OBVIOUS
  <2>7. g[m] = p
    BY <1>4, <2>1, <2>3
  <2>8. QED  BY <2>5, <2>6, <2>7
<1> HIDE DEF g
<1>6. Total(n, g) = Total(n, Rev(B)) + Total(n, Rev(x))
  BY <1>5, TotalPlus
<1>7. Total(n, g) = N - Pow[LAYERS - n]
  BY <1>4, AllBits
<1>8. QED  BY <1>2, <1>3, <1>6, <1>7

-------------------------------------------------------------------------------
(***************************************************************************)
(* The weights of the transform: powers of the N primitive 2N-th roots.    *)
(***************************************************************************)
LEMMA WeightIs ==
  ASSUME NEW x \in Nat, x < N, NEW n \in Nat
  PROVE  /\ BitRev(x) \in Nat /\ n * (2 * BitRev(x) + 1) \in Nat
         /\ Weight(x, n) = Root(n * (2 * BitRev(x) + 1)) /\ Weight(x, n) \in Int
<1>1. BitRev(x) \in Nat
  BY RevType
<1>2. n * (2 * BitRev(x) + 1) \in Nat
  BY <1>1
<1>3. Weight(x, n) = Root(n * (2 * BitRev(x) + 1))
  BY DEF Weight, Root
<1>4. QED  BY <1>1, <1>2, <1>3, RootType

LEMMA WeightZero ==
  ASSUME NEW x \in Nat, x < N
  PROVE  Weight(x, 0) = 1
<1>1. 0 * (2 * BitRev(x) + 1) = 0
  BY RevType
<1>2. Root(0) = 1
  BY RootSmall, RootPowerNext, DegreeFact
<1>3. QED  BY <1>1, <1>2, WeightIs

LEMMA WeightPlus ==
  ASSUME NEW x \in Nat, x < N, NEW a \in Nat, NEW b \in Nat
  PROVE  Mod(Weight(x, a + b)) = Mod(Weight(x, a) * Weight(x, b))
<1>1. PICK e \in Nat : e = 2 * BitRev(x) + 1
  BY RevType
<1>2. a * e \in Nat /\ b * e \in Nat /\ (a + b) * e = a * e + b * e /\ a + b \in Nat
  OBVIOUS
<1>3. Weight(x, a) = Root(a * e) /\ Weight(x, b) = Root(b * e) /\ Weight(x, a + b) = Root(a * e + b * e)
  BY <1>1, <1>2, WeightIs
<1>4. Same(Root(a * e + b * e), Root(a * e) * Root(b * e))
  BY <1>2, RootPlus
<1>5. PICK y \in Int, z \in Int, s \in Int : y = Root(a * e) /\ z = Root(b * e) /\ s = Root(a * e + b * e)
  <2>1. a * e + b * e \in Nat
    BY <1>2
  <2>2. QED  BY <1>2, <2>1, RootType
<1>6. Same(s, y * z) /\ y * z \in Int
  BY <1>4, <1>5
<1>7. Mod(s) = Mod(y * z)
  BY <1>6, ModFact
<1>8. QED  BY <1>3, <1>5, <1>7

LEMMA WeightDegree ==
  ASSUME NEW x \in Nat, x < N, NEW a \in Nat
  PROVE  Mod(Weight(x, a + N)) = Mod(-Weight(x, a))
<1>1. PICK b \in Nat, e \in Nat : b = BitRev(x) /\ e = 2 * b + 1
  BY RevType
<1>2. a * e \in Nat /\ (a + N) * e = (a * e + N) + 2 * N * b /\ a * e + N \in Nat /\ (a + N) * e \in Nat
      /\ a + N \in Nat
  <2>1. PICK n \in Nat : n = N
    BY DegreeFact
  <2>2. (a + n) * e = a * e + n * e /\ n * e = n + 2 * n * b /\ a * e \in Nat /\ n * e \in Nat
        /\ 2 * n * b \in Nat
    BY <1>1
  <2>3. a * e + n \in Nat /\ (a + n) * e \in Nat /\ a + n \in Nat
    BY <2>2
  <2>4. (a + n) * e = (a * e + n) + 2 * n * b
    BY <2>2
  <2>5. QED  BY <2>1, <2>2, <2>3, <2>4
<1>3. Weight(x, a) = Root(a * e) /\ Weight(x, a + N) = Root((a + N) * e)
  BY <1>1, <1>2, WeightIs
<1>4. Root((a + N) * e) = Root(a * e + N)
  BY <1>2, RootPeriod
<1>5. Same(Root(a * e + N), -Root(a * e))
  BY <1>2, RootHalfTurn
<1>6. PICK y \in Int, z \in Int : y = Root(a * e) /\ z = Root(a * e + N)
  BY <1>2, RootType
<1>7. Mod(z) = Mod(-y)
  BY <1>5, <1>6, ModFact
<1>8. QED  BY <1>3, <1>4, <1>6, <1>7

-------------------------------------------------------------------------------
(***************************************************************************)
(* Layer LAYERS - a, whose butterflies are Pow[a] apart.                   *)
(***************************************************************************)

\* The first coefficient of the block of m that has x.
First(x, m) == m * (x \div m)

\* The index of the twiddle factor of block B, forward and inverse.
Factor(a, B) == Pow[LAYERS - 1 - a] + B
InvFactor(a, B) == Pow[LAYERS - a] - 1 - B

LEMMA LengthFact ==
  ASSUME NEW a \in Nat, a < LAYERS
  PROVE  /\ Pow[a] \in Nat /\ Pow[a] >= 1 /\ Pow[a + 1] = 2 * Pow[a]
         /\ LAYERS - 1 - a \in Nat /\ LAYERS - 1 - a < LAYERS /\ Pow[LAYERS - 1 - a] \in Nat
         /\ 2 * Pow[a] * Pow[LAYERS - 1 - a] = N
<1>1. LAYERS - 1 - a \in Nat /\ LAYERS - 1 - a < LAYERS /\ a + 1 \in Nat
      /\ (a + 1) + (LAYERS - 1 - a) = LAYERS /\ (a + 1) + (LAYERS - 1 - a) <= LAYERS
  BY PowFact
<1>2. Pow[(a + 1) + (LAYERS - 1 - a)] = Pow[a + 1] * Pow[LAYERS - 1 - a]
  BY <1>1, PowPlus
<1>3. Pow[a] \in Nat /\ Pow[a] >= 1 /\ Pow[a + 1] = 2 * Pow[a] /\ Pow[LAYERS - 1 - a] \in Nat
  BY <1>1, PowFact
<1>4. QED  BY <1>1, <1>2, <1>3, PowFact

LEMMA PlaceFact ==
  ASSUME NEW a \in Nat, a < LAYERS, NEW x \in Nat, x < N
  PROVE  \E B \in Nat, y \in Nat :
           /\ B < Pow[LAYERS - 1 - a] /\ B = x \div (2 * Pow[a])
           /\ x = 2 * Pow[a] * B + y /\ y < 2 * Pow[a]
           /\ First(x, 2 * Pow[a]) = 2 * Pow[a] * B /\ 2 * Pow[a] * B \in Nat
           /\ 2 * Pow[a] * B + 2 * Pow[a] <= N
           /\ \/ Bit(x, a) = 0 /\ First(x, Pow[a]) = 2 * Pow[a] * B
              \/ Bit(x, a) = 1 /\ First(x, Pow[a]) = 2 * Pow[a] * B + Pow[a]
<1>1. PICK v \in Nat, s \in Nat : v = Pow[a] /\ s = Pow[LAYERS - 1 - a] /\ v >= 1 /\ 2 * v * s = N
  BY LengthFact
<1>2. PICK m \in Nat : m = 2 * v /\ m >= 1
  BY <1>1
<1>3. PICK B \in Nat, y \in Nat : B = x \div m /\ x = m * B + y /\ y < m
  <2>1. x \div m \in Nat /\ x % m \in Nat /\ x % m < m /\ x = m * (x \div m) + (x % m)
    BY <1>2, DivOf
  <2>2. QED  BY <2>1
<1>4. m * s = N /\ m * B \in Nat
  BY <1>1, <1>2
<1>5. B < s
  <2>1. B >= s => m * (B - s) >= 0
    <3>1. ASSUME B >= s PROVE m * (B - s) >= 0
      <4>1. PICK e \in Nat : e = B - s
        BY <3>1
      <4>2. m * e >= 0
        OBVIOUS
      <4>3. QED  BY <4>1, <4>2
    <3>2. QED  BY <3>1
  <2>2. m * (B - s) = m * B - m * s
    OBVIOUS
  <2>3. QED  BY <1>3, <1>4, <2>1, <2>2, DegreeFact
<1>6. m * B + m <= N
  <2>1. PICK e \in Nat : e = s - 1 - B
    BY <1>5
  <2>2. m * e >= 0 /\ m * (s - 1 - B) = m * s - m - m * B
    OBVIOUS
  <2>3. QED  BY <1>4, <2>1, <2>2, DegreeFact
<1>7. \/ Bit(x, a) = 0 /\ First(x, v) = m * B
      \/ Bit(x, a) = 1 /\ First(x, v) = m * B + v
  <2>1. m * B = v * (2 * B) /\ v * (2 * B + 1) = v * (2 * B) + v
    BY <1>2
  <2>2. CASE y < v
    <3>1. x = v * (2 * B) + y
      BY <1>3, <2>1
    <3>2. x \div v = 2 * B
      <4>1. 2 * B \in Int
        OBVIOUS
      <4>2. QED  BY <1>1, <2>2, <3>1, <4>1, DivIs
    <3>3. (2 * B + 0) % 2 = 0 % 2 /\ 0 % 2 = 0 /\ 2 * B + 0 = 2 * B
      BY Parity
    <3>4. QED  BY <1>1, <2>1, <3>2, <3>3 DEF Bit, First
  <2>3. CASE y >= v
    <3>1. PICK r \in Nat : r = y - v /\ r < v
      BY <1>2, <1>3, <2>3
    <3>2. x = v * (2 * B + 1) + r
      BY <1>3, <1>4, <2>1, <3>1
    <3>3. x \div v = 2 * B + 1
      <4>1. 2 * B + 1 \in Int
        OBVIOUS
      <4>2. QED  BY <1>1, <3>1, <3>2, <4>1, DivIs
    <3>4. (2 * B + 1) % 2 = 1 % 2 /\ 1 % 2 = 1
      BY Parity
    <3>5. QED  BY <1>1, <2>1, <3>3, <3>4 DEF Bit, First
  <2>4. QED  BY <2>2, <2>3
<1>8. First(x, m) = m * B
  BY <1>3 DEF First
<1>9. QED  BY <1>1, <1>2, <1>3, <1>4, <1>5, <1>6, <1>7, <1>8

\* The factors of a layer are the powers that are left of the weights: the weight of the
\* second half of a block is a power of the root of this block, up to a sign.
LEMMA FactorIsWeight ==
  ASSUME NEW a \in Nat, a < LAYERS, NEW x \in Nat, x < N
  PROVE  LET k1 == Factor(a, x \div (2 * Pow[a]))
         IN  /\ k1 \in Nat /\ k1 >= 1 /\ k1 < N /\ BitRev(k1) \in Nat
             /\ First(x, Pow[a]) = First(x, 2 * Pow[a]) => Mod(Weight(x, Pow[a])) = Mod(Root(BitRev(k1)))
             /\ First(x, Pow[a]) # First(x, 2 * Pow[a]) => Mod(Weight(x, Pow[a])) = Mod(-Root(BitRev(k1)))
<1>1. PICK B \in Nat, y \in Nat :
           /\ B < Pow[LAYERS - 1 - a] /\ B = x \div (2 * Pow[a])
           /\ x = 2 * Pow[a] * B + y /\ y < 2 * Pow[a]
           /\ First(x, 2 * Pow[a]) = 2 * Pow[a] * B /\ 2 * Pow[a] * B \in Nat
           /\ \/ Bit(x, a) = 0 /\ First(x, Pow[a]) = 2 * Pow[a] * B
              \/ Bit(x, a) = 1 /\ First(x, Pow[a]) = 2 * Pow[a] * B + Pow[a]
  BY PlaceFact
<1>2. PICK v \in Nat, n \in Nat : v = Pow[a] /\ n = LAYERS - 1 - a /\ v >= 1 /\ Pow[a + 1] = 2 * v /\ n < LAYERS
  BY LengthFact
<1>3. a + 1 + n = LAYERS /\ x = Pow[a + 1] * B + y /\ y < Pow[a + 1] /\ B < Pow[n] /\ LAYERS - 1 - n = a
  BY <1>1, <1>2, PowFact
<1>4. PICK c \in Nat : Pow[a + 1] * BitRev(x) = 2 * N * c + N * Bit(x, a) + BitRev(B)
  BY <1>3, RevShifted
<1>5. PICK k1 \in Nat : k1 = Pow[n] + B
  BY <1>2, PowFact
<1>6. k1 < N /\ BitRev(k1) = BitRev(B) + v
  BY <1>2, <1>3, <1>5, RevOneMore
<1>7. Pow[n] >= 1 /\ k1 >= 1
  BY <1>2, <1>5, PowFact
<1>8. PICK d \in Nat, b \in Nat, e \in Nat : d = BitRev(x) /\ b = BitRev(k1) /\ e = Bit(x, a)
  BY <1>1, <1>6, RevType
<1>9. BitRev(B) = b - v
  <2>1. BitRev(B) \in Nat
    <3>1. n <= LAYERS
      BY <1>2, PowFact
    <3>2. QED  BY <1>3, <3>1, RevSmall
  <2>2. QED  BY <1>6, <1>8, <2>1
<1>10. v * (2 * d + 1) = 2 * N * c + N * e + b
  <2>1. (2 * v) * d = 2 * N * c + N * e + (b - v)
    BY <1>2, <1>4, <1>8, <1>9
  <2>2. v * (2 * d + 1) = (2 * v) * d + v
    OBVIOUS
  <2>3. 2 * N * c \in Int /\ N * e \in Int
    BY DegreeFact
  <2>4. PICK w \in Int, t \in Int : w = 2 * N * c /\ t = N * e
    BY <2>3
  <2>5. PICK vd \in Int, u \in Int : vd = (2 * v) * d /\ u = v * (2 * d + 1)
    OBVIOUS
  <2>6. vd = w + t + (b - v) /\ u = vd + v
    BY <2>1, <2>2, <2>4, <2>5
  <2>7. u = w + t + b
    BY <2>6
  <2>8. QED  BY <2>4, <2>5, <2>7
<1>11. Weight(x, v) = Root(v * (2 * d + 1)) /\ v * (2 * d + 1) \in Nat
  BY <1>8, WeightIs
<1>12. PICK z \in Int : z = Root(b)
  BY RootType
<1>13. CASE e = 0
  <2>1. v * (2 * d + 1) = b + 2 * N * c
    BY <1>10, <1>13, DegreeFact
  <2>2. Root(v * (2 * d + 1)) = z
    BY <1>11, <1>12, <2>1, RootPeriod
  <2>3. First(x, v) = First(x, 2 * v)
    BY <1>1, <1>2, <1>8, <1>13
  <2>4. QED  BY <1>1, <1>2, <1>5, <1>6, <1>7, <1>8, <1>11, <1>12, <2>2, <2>3 DEF Factor
<1>14. CASE e = 1
  <2>1. v * (2 * d + 1) = (b + N) + 2 * N * c /\ b + N \in Nat
    BY <1>10, <1>14, DegreeFact
  <2>2. Root(v * (2 * d + 1)) = Root(b + N)
    BY <1>11, <2>1, RootPeriod
  <2>3. Same(Root(b + N), -z) /\ Root(b + N) \in Int /\ -z \in Int
    BY <1>12, <2>1, RootHalfTurn, RootType
  <2>4. Mod(Weight(x, v)) = Mod(-z)
    BY <1>11, <2>2, <2>3, ModFact
  <2>5. First(x, v) # First(x, 2 * v)
    BY <1>1, <1>2, <1>8, <1>14
  <2>6. QED  BY <1>1, <1>2, <1>5, <1>6, <1>7, <1>8, <1>12, <2>4, <2>5 DEF Factor
<1>15. QED  BY <1>1, <1>8, <1>13, <1>14

\* The inverse NTT's factor of a block undoes the forward one's.
LEMMA FactorsCancel ==
  ASSUME NEW a \in Nat, a < LAYERS, NEW B \in Nat, B < Pow[LAYERS - 1 - a]
  PROVE  /\ InvFactor(a, B) \in Nat /\ InvFactor(a, B) >= 1 /\ InvFactor(a, B) < N
         /\ BitRev(InvFactor(a, B)) \in Nat /\ BitRev(Factor(a, B)) \in Nat
         /\ Mod(Root(BitRev(Factor(a, B))) * Root(BitRev(InvFactor(a, B)))) = Mod(-1)
<1>1. PICK v \in Nat, n \in Nat, s \in Nat :
          v = Pow[a] /\ n = LAYERS - 1 - a /\ v >= 1 /\ Pow[a + 1] = 2 * v /\ n < LAYERS /\ s = Pow[n]
  BY LengthFact
<1>2. LAYERS - a = n + 1 /\ LAYERS - n = a + 1 /\ LAYERS - 1 - n = a /\ Pow[n + 1] = 2 * s /\ n <= LAYERS
      /\ B < Pow[n]
  BY <1>1, PowFact
<1>3. PICK C \in Nat : C = Pow[n] - 1 - B /\ C < Pow[n] /\ BitRev(B) + BitRev(C) = N - Pow[LAYERS - n]
  BY <1>2, RevOfMirror
<1>4. PICK k1 \in Nat, k2 \in Nat : k1 = Pow[n] + B /\ k2 = Pow[n] + C
  BY <1>1
<1>5. k1 < N /\ k2 < N /\ BitRev(k1) = BitRev(B) + v /\ BitRev(k2) = BitRev(C) + v
  BY <1>1, <1>2, <1>3, <1>4, RevOneMore
<1>6. Factor(a, B) = k1 /\ InvFactor(a, B) = k2 /\ k2 >= 1
  <2>1. Factor(a, B) = k1
    BY <1>1, <1>4 DEF Factor
  <2>2. InvFactor(a, B) = 2 * s - 1 - B
    BY <1>2 DEF InvFactor
  <2>3. s >= 1
    BY <1>1, PowFact
  <2>4. QED  BY <1>1, <1>3, <1>4, <2>1, <2>2, <2>3
<1>7. PICK b1 \in Nat, b2 \in Nat, c1 \in Nat, c2 \in Nat :
        b1 = BitRev(k1) /\ b2 = BitRev(k2) /\ c1 = BitRev(B) /\ c2 = BitRev(C)
  BY <1>2, <1>3, <1>5, RevType, RevSmall
<1>8. b1 + b2 = N
  BY <1>1, <1>2, <1>3, <1>5, <1>7, DegreeFact
<1>9. Same(Root(N), -1)
  BY HalfTurn, RootSmall, DegreeFact
<1>10. Same(Root(b1 + b2), Root(b1) * Root(b2))
  BY RootPlus
<1>11. PICK y \in Int, z \in Int, r \in Int : y = Root(b1) /\ z = Root(b2) /\ r = Root(N)
  BY RootType, DegreeFact
<1>12. Mod(y * z) = Mod(-1)
  <2>1. Same(r, y * z) /\ Same(r, -1) /\ y * z \in Int /\ -1 \in Int
    BY <1>8, <1>9, <1>10, <1>11
  <2>2. QED  BY <2>1, ModFact
<1>13. QED  BY <1>5, <1>6, <1>7, <1>11, <1>12

-------------------------------------------------------------------------------
(***************************************************************************)
(* The polynomial in blocks.  Before layer LAYERS - a of the forward       *)
(* transform, each block of 2 * Pow[a] coefficients is a polynomial that   *)
(* has at the roots of its coefficients the values wanted in the end; its  *)
(* butterflies make two polynomials of half the length out of it, for the  *)
(* two halves of these roots.  The inverse layer undoes that up to a factor*)
(* of 2.  Within the layer the pairs below u are done.                     *)
(***************************************************************************)
\* The terms of the value of block First(x, m) at the root that belongs to x.
BlockTerm(p, m, x) == [c \in Coefficients |-> p[First(x, m) + c] * Weight(x, c)]

\* The same for a block of 2 * v, its halves added up.
PairTerm(p, v, x) ==
  [c \in Coefficients |->
     p[First(x, 2 * v) + c] * Weight(x, c) + p[First(x, 2 * v) + v + c] * Weight(x, v + c)]

\* Every block of m is a polynomial with the values V at the roots of its coefficients.
Blocks(p, m, V) == \A x \in Coefficients : Mod(Total(m, BlockTerm(p, m, x))) = Mod(V[x])

\* A layer in the middle: the pairs before u are separated, respectively joined.
ForwardTerm(p, v, u, x) ==
  [c \in Coefficients |->
     IF First(x, 2 * v) + c < u THEN BlockTerm(p, v, x)[c] ELSE PairTerm(p, v, x)[c]]

InverseTerm(p, v, u, x) ==
  [c \in Coefficients |->
     IF First(x, 2 * v) + c < u THEN PairTerm(p, v, x)[c] ELSE 2 * BlockTerm(p, v, x)[c]]

Separated(p, v, u, V) == \A x \in Coefficients : Mod(Total(v, ForwardTerm(p, v, u, x))) = Mod(V[x])

Joined(p, v, u, V) == \A x \in Coefficients : Mod(Total(v, InverseTerm(p, v, u, x))) = Mod(V[x])

LEMMA CoefficientFact == \A x : x \in Coefficients <=> x \in Nat /\ x < N
BY DegreeFact DEF Coefficients

\* Coefficient c of the half blocks in layer LAYERS - a, and of the terms for x.
InHalf(a, v, p, x, c) ==
  /\ a \in Nat /\ a < LAYERS /\ v \in Nat /\ v = Pow[a]
  /\ p \in Polynomial /\ x \in Coefficients /\ c \in Nat /\ c < v

Terms(p, v, x, c, lo, at) ==
  /\ lo \in Nat /\ at \in Nat /\ (at = lo \/ at = lo + v)
  /\ c \in Coefficients /\ v + c \in Nat
  /\ lo + c \in Coefficients /\ lo + v + c \in Coefficients /\ at + c \in Coefficients
  /\ BlockTerm(p, v, x)[c] = p[at + c] * Weight(x, c) /\ BlockTerm(p, v, x)[c] \in Int
  /\ PairTerm(p, v, x)[c] = p[lo + c] * Weight(x, c) + p[lo + v + c] * Weight(x, v + c)
  /\ PairTerm(p, v, x)[c] \in Int
  /\ Weight(x, c) \in Int /\ Weight(x, v + c) \in Int
  /\ p[lo + c] \in Int /\ p[lo + v + c] \in Int /\ p[at + c] \in Int

\* The values of the terms.
LEMMA TermFact ==
  ASSUME NEW a, NEW v, NEW p, NEW x, NEW c, InHalf(a, v, p, x, c)
  PROVE  Terms(p, v, x, c, First(x, 2 * v), First(x, v))
<1> USE DEF InHalf
<1>0. a \in Nat /\ a < LAYERS /\ v \in Nat /\ v = Pow[a] /\ p \in Polynomial /\ x \in Coefficients
      /\ c \in Nat /\ c < v
  OBVIOUS
<1>1. x \in Nat /\ x < N
  BY CoefficientFact
<1>2. v \in Nat /\ v >= 1
  BY PowFact
<1>3. PICK B \in Nat, y \in Nat :
           /\ First(x, 2 * v) = 2 * v * B /\ 2 * v * B \in Nat /\ 2 * v * B + 2 * v <= N
           /\ \/ First(x, v) = 2 * v * B
              \/ First(x, v) = 2 * v * B + v
  <2>1. PICK B \in Nat, y \in Nat :
           /\ B < Pow[LAYERS - 1 - a] /\ B = x \div (2 * Pow[a])
           /\ x = 2 * Pow[a] * B + y /\ y < 2 * Pow[a]
           /\ First(x, 2 * Pow[a]) = 2 * Pow[a] * B /\ 2 * Pow[a] * B \in Nat
           /\ 2 * Pow[a] * B + 2 * Pow[a] <= N
           /\ \/ Bit(x, a) = 0 /\ First(x, Pow[a]) = 2 * Pow[a] * B
              \/ Bit(x, a) = 1 /\ First(x, Pow[a]) = 2 * Pow[a] * B + Pow[a]
    BY <1>0, <1>1, PlaceFact
  <2>2. QED  BY <1>0, <2>1
<1>4. PICK lo \in Nat, at \in Nat : lo = First(x, 2 * v) /\ at = First(x, v)
  BY <1>2, <1>3
<1>5. (at = lo \/ at = lo + v) /\ lo + 2 * v <= N
  BY <1>3, <1>4
<1>6. c \in Coefficients /\ v + c \in Nat /\ lo + c \in Coefficients /\ lo + v + c \in Coefficients
      /\ at + c \in Coefficients
  BY <1>2, <1>5, CoefficientFact, DegreeFact
<1>7. Weight(x, c) \in Int /\ Weight(x, v + c) \in Int
  BY <1>1, <1>6, WeightIs
<1>8. p[lo + c] \in Int /\ p[lo + v + c] \in Int /\ p[at + c] \in Int
  BY <1>6 DEF Polynomial
<1>9. BlockTerm(p, v, x)[c] = p[at + c] * Weight(x, c)
  BY <1>4, <1>6 DEF BlockTerm
<1>10. PairTerm(p, v, x)[c] = p[lo + c] * Weight(x, c) + p[lo + v + c] * Weight(x, v + c)
  BY <1>4, <1>6 DEF PairTerm
<1>11. BlockTerm(p, v, x)[c] \in Int /\ PairTerm(p, v, x)[c] \in Int
  BY <1>7, <1>8, <1>9, <1>10
<1>12. QED  BY <1>2, <1>4, <1>5, <1>6, <1>7, <1>8, <1>9, <1>10, <1>11 DEF Terms

\* A sum over a block is the sum over its pairs.
LEMMA PairsOfBlock ==
  ASSUME NEW a \in Nat, a < LAYERS, NEW v \in Nat, v = Pow[a], NEW p \in Polynomial, NEW x \in Coefficients
  PROVE  Total(2 * v, BlockTerm(p, 2 * v, x)) = Total(v, PairTerm(p, v, x))
<1>1. v \in Nat /\ v >= 1
  BY PowFact
<1> DEFINE g == BlockTerm(p, 2 * v, x)
           w == [c \in Coefficients |-> p[First(x, 2 * v) + v + c] * Weight(x, v + c)]
<1>2. ASSUME NEW c \in Nat, c < v
      PROVE  g[c] \in Int /\ w[c] = g[v + c] /\ w[c] \in Int /\ PairTerm(p, v, x)[c] = g[c] + w[c]
  <2>0. Terms(p, v, x, c, First(x, 2 * v), First(x, v))
    BY <1>2, TermFact DEF InHalf
  <2>1. PICK lo \in Nat :
             /\ lo = First(x, 2 * v) /\ c \in Coefficients
             /\ lo + c \in Coefficients /\ lo + v + c \in Coefficients
             /\ PairTerm(p, v, x)[c] = p[lo + c] * Weight(x, c) + p[lo + v + c] * Weight(x, v + c)
             /\ Weight(x, c) \in Int /\ Weight(x, v + c) \in Int
             /\ p[lo + c] \in Int /\ p[lo + v + c] \in Int
    BY <2>0 DEF Terms
  <2>2. v + c \in Coefficients /\ lo + v + c = lo + (v + c)
    BY <1>1, <2>1, CoefficientFact, DegreeFact
  <2>3. g[c] = p[lo + c] * Weight(x, c) /\ g[v + c] = p[lo + (v + c)] * Weight(x, v + c)
    BY <2>1, <2>2 DEF BlockTerm
  <2>4. w[c] = p[lo + v + c] * Weight(x, v + c)
    BY <2>1
  <2> HIDE DEF g, w
  <2>5. QED  BY <2>1, <2>2, <2>3, <2>4
<1> HIDE DEF g, w
<1>3. \A c \in Nat : c < v + v => g[c] \in Int
  <2>1. SUFFICES ASSUME NEW c \in Nat, c < v + v PROVE g[c] \in Int
    OBVIOUS
  <2>2. CASE c < v
    BY <2>2, <1>2
  <2>3. CASE c >= v
    <3>1. PICK d \in Nat : d = c - v /\ d < v /\ c = v + d
      BY <1>1, <2>1, <2>3
    <3>2. QED  BY <1>2, <3>1
  <2>4. QED  BY <1>1, <2>2, <2>3
<1>4. Total(v + v, g) = Total(v, g) + Total(v, w)
  <2>1. \A c \in Nat : c < v => w[c] = g[v + c]
    BY <1>2
  <2>2. QED  BY <1>1, <1>3, <2>1, TotalSplit
<1>5. Total(v, PairTerm(p, v, x)) = Total(v, g) + Total(v, w)
  BY <1>1, <1>2, TotalPlus
<1>6. v + v = 2 * v
  BY <1>1
<1>7. QED  BY <1>4, <1>5, <1>6 DEF g

LEMMA ForwardTermFact ==
  ASSUME NEW a \in Nat, a < LAYERS, NEW v \in Nat, v = Pow[a], NEW p \in Polynomial, NEW x \in Coefficients,
         NEW c \in Nat, c < v, NEW u \in Nat
  PROVE  /\ ForwardTerm(p, v, u, x)[c] =
              IF First(x, 2 * v) + c < u THEN BlockTerm(p, v, x)[c] ELSE PairTerm(p, v, x)[c]
         /\ ForwardTerm(p, v, u, x)[c] \in Int
         /\ InverseTerm(p, v, u, x)[c] =
              IF First(x, 2 * v) + c < u THEN PairTerm(p, v, x)[c] ELSE 2 * BlockTerm(p, v, x)[c]
         /\ InverseTerm(p, v, u, x)[c] \in Int
<1>1. c \in Coefficients /\ BlockTerm(p, v, x)[c] \in Int /\ PairTerm(p, v, x)[c] \in Int
      /\ 2 * BlockTerm(p, v, x)[c] \in Int
  <2>1. Terms(p, v, x, c, First(x, 2 * v), First(x, v))
    BY TermFact DEF InHalf
  <2>2. QED  BY <2>1 DEF Terms
<1>2. ForwardTerm(p, v, u, x)[c] =
        IF First(x, 2 * v) + c < u THEN BlockTerm(p, v, x)[c] ELSE PairTerm(p, v, x)[c]
  BY <1>1 DEF ForwardTerm
<1>3. InverseTerm(p, v, u, x)[c] =
        IF First(x, 2 * v) + c < u THEN PairTerm(p, v, x)[c] ELSE 2 * BlockTerm(p, v, x)[c]
  BY <1>1 DEF InverseTerm
<1>4. QED  BY <1>1, <1>2, <1>3

\* At the start and at the end of a layer.
LEMMA LayerStarts ==
  ASSUME NEW a \in Nat, a < LAYERS, NEW v \in Nat, v = Pow[a], NEW p \in Polynomial, NEW V
  PROVE  /\ Separated(p, v, 0, V) <=> Blocks(p, 2 * v, V)
         /\ \A W : Blocks(p, v, V) /\ (\A x \in Coefficients : V[x] \in Int /\ W[x] = 2 * V[x])
                      => Joined(p, v, 0, W)
<1>1. v \in Nat /\ v >= 1
  BY PowFact
<1>2. ASSUME NEW x \in Coefficients
      PROVE  /\ Total(v, ForwardTerm(p, v, 0, x)) = Total(2 * v, BlockTerm(p, 2 * v, x))
             /\ Total(v, InverseTerm(p, v, 0, x)) = 2 * Total(v, BlockTerm(p, v, x))
             /\ Total(v, BlockTerm(p, v, x)) \in Int
  <2>1. ASSUME NEW c \in Nat, c < v
        PROVE  /\ ForwardTerm(p, v, 0, x)[c] = PairTerm(p, v, x)[c]
               /\ InverseTerm(p, v, 0, x)[c] = 2 * BlockTerm(p, v, x)[c]
               /\ BlockTerm(p, v, x)[c] \in Int
    <3>1. First(x, 2 * v) \in Nat /\ BlockTerm(p, v, x)[c] \in Int
      <4>1. Terms(p, v, x, c, First(x, 2 * v), First(x, v))
        BY <2>1, TermFact DEF InHalf
      <4>2. QED  BY <4>1 DEF Terms
    <3>2. ~(First(x, 2 * v) + c < 0)
      BY <3>1
    <3>3. QED  BY <2>1, <3>1, <3>2, ForwardTermFact
  <2>2. Total(v, ForwardTerm(p, v, 0, x)) = Total(v, PairTerm(p, v, x))
    BY <1>1, <2>1, TotalEqual
  <2>3. Total(v, InverseTerm(p, v, 0, x)) = 2 * Total(v, BlockTerm(p, v, x))
    BY <1>1, <2>1, TotalTimes
  <2>4. Total(v, BlockTerm(p, v, x)) \in Int
    BY <1>1, <2>1, TotalInt
  <2>5. QED  BY <2>2, <2>3, <2>4, PairsOfBlock
<1>3. Separated(p, v, 0, V) <=> Blocks(p, 2 * v, V)
  BY <1>2 DEF Separated, Blocks
<1>4. ASSUME NEW W, Blocks(p, v, V), \A x \in Coefficients : V[x] \in Int /\ W[x] = 2 * V[x]
      PROVE  Joined(p, v, 0, W)
  <2>1. SUFFICES ASSUME NEW x \in Coefficients
                 PROVE  Mod(Total(v, InverseTerm(p, v, 0, x))) = Mod(W[x])
    BY DEF Joined
  <2>2. PICK s \in Int, t \in Int : s = Total(v, BlockTerm(p, v, x)) /\ t = V[x] /\ W[x] = 2 * t
                                    /\ Total(v, InverseTerm(p, v, 0, x)) = 2 * s
    BY <1>2, <1>4
  <2>3. Mod(s) = Mod(t)
    BY <1>4, <2>2 DEF Blocks
  <2>4. Mod(2 * s) = Mod(2 * t)
    <3>1. 2 \in Int /\ Mod(2) = Mod(2)
      OBVIOUS
    <3>2. QED  BY <2>3, <3>1, ModTimes
  <2>5. QED  BY <2>2, <2>4
<1>5. QED  BY <1>3, <1>4

LEMMA LayerEnds ==
  ASSUME NEW a \in Nat, a < LAYERS, NEW v \in Nat, v = Pow[a], NEW p \in Polynomial, NEW V, NEW u \in Nat, u >= N
  PROVE  /\ Separated(p, v, u, V) <=> Blocks(p, v, V)
         /\ Joined(p, v, u, V) <=> Blocks(p, 2 * v, V)
<1>1. v \in Nat /\ v >= 1
  BY PowFact
<1>2. ASSUME NEW x \in Coefficients
      PROVE  /\ Total(v, ForwardTerm(p, v, u, x)) = Total(v, BlockTerm(p, v, x))
             /\ Total(v, InverseTerm(p, v, u, x)) = Total(2 * v, BlockTerm(p, 2 * v, x))
  <2>1. ASSUME NEW c \in Nat, c < v
        PROVE  /\ ForwardTerm(p, v, u, x)[c] = BlockTerm(p, v, x)[c]
               /\ InverseTerm(p, v, u, x)[c] = PairTerm(p, v, x)[c]
    <3>1. First(x, 2 * v) + c \in Coefficients
      <4>1. Terms(p, v, x, c, First(x, 2 * v), First(x, v))
        BY <2>1, TermFact DEF InHalf
      <4>2. QED  BY <4>1 DEF Terms
    <3>2. First(x, 2 * v) + c < u
      BY <3>1, CoefficientFact, DegreeFact
    <3>3. QED  BY <2>1, <3>2, ForwardTermFact
  <2>2. Total(v, ForwardTerm(p, v, u, x)) = Total(v, BlockTerm(p, v, x))
    BY <1>1, <2>1, TotalEqual
  <2>3. Total(v, InverseTerm(p, v, u, x)) = Total(v, PairTerm(p, v, x))
    BY <1>1, <2>1, TotalEqual
  <2>4. QED  BY <2>2, <2>3, PairsOfBlock
<1>3. QED  BY <1>2 DEF Separated, Joined, Blocks

\* A pair of a block is in no other block.
Aligned(v, s, A) == v \in Nat /\ v >= 1 /\ s \in Nat /\ A \in Nat /\ s = 2 * v * A

LEMMA Apart ==
  ASSUME NEW v, NEW s, NEW t, NEW A, NEW B, NEW c \in Nat, NEW d \in Nat,
         Aligned(v, s, A), Aligned(v, t, B), c < v, d < v
  PROVE  s + c # t + d + v /\ (s + c = t + d => A = B)
<1>0. v \in Nat /\ A \in Nat /\ B \in Nat /\ s \in Nat /\ t \in Nat /\ s = 2 * v * A /\ t = 2 * v * B
  BY DEF Aligned
<1>1. PICK e \in Int, z \in Int : e = A - B /\ z = 2 * v * e
  BY <1>0
<1>3. z = s - t
  <2>1. 2 * v * (A - B) = 2 * v * A - 2 * v * B
    BY <1>0
  <2>2. QED  BY <1>0, <1>1, <2>1
<1>4. e >= 1 => z >= 2 * v
  <2>1. ASSUME e >= 1 PROVE z >= 2 * v
    <3>1. PICK m \in Nat : m = e - 1
      BY <2>1
    <3>2. 2 * v * m >= 0 /\ 2 * v * (e - 1) = 2 * v * e - 2 * v
      BY <1>0
    <3>3. QED  BY <1>0, <1>1, <3>1, <3>2
  <2>2. QED  BY <2>1
<1>5. e <= -1 => z <= -(2 * v)
  <2>1. ASSUME e <= -1 PROVE z <= -(2 * v)
    <3>1. PICK m \in Nat : m = -1 - e
      BY <2>1
    <3>2. 2 * v * m >= 0 /\ 2 * v * (-1 - e) = -(2 * v) - 2 * v * e
      BY <1>0
    <3>3. QED  BY <1>0, <1>1, <3>1, <3>2
  <2>2. QED  BY <2>1
<1>6. e = 0 => z = 0
  BY <1>0, <1>1
<1>7. s + c # t + d + v
  BY <1>0, <1>3, <1>4, <1>5, <1>6
<1>8. s + c = t + d => e = 0
  BY <1>0, <1>3, <1>4, <1>5, <1>6
<1>9. QED  BY <1>0, <1>1, <1>7, <1>8

\* A butterfly changes no other terms.
LEMMA OtherTerms ==
  ASSUME NEW a \in Nat, a < LAYERS, NEW v \in Nat, v = Pow[a], NEW p \in Polynomial, NEW p2 \in Polynomial,
         NEW B \in Nat, B < Pow[LAYERS - 1 - a],
         NEW jj \in Nat, 2 * v * B <= jj, jj < 2 * v * B + v,
         \A y \in Coefficients : y # jj /\ y # jj + v => p2[y] = p[y],
         NEW x \in Coefficients, NEW c \in Nat, c < v
  PROVE  /\ First(x, 2 * v) + c # jj => /\ BlockTerm(p2, v, x)[c] = BlockTerm(p, v, x)[c]
                                        /\ PairTerm(p2, v, x)[c] = PairTerm(p, v, x)[c]
         /\ First(x, 2 * v) + c = jj => x \div (2 * v) = B /\ First(x, 2 * v) = 2 * v * B
<1>1. v \in Nat /\ v >= 1
  BY PowFact
<1>2. x \in Nat /\ x < N
  BY CoefficientFact
<1>3. PICK A \in Nat : A = x \div (2 * v) /\ First(x, 2 * v) = 2 * v * A /\ 2 * v * A \in Nat
  BY <1>2, PlaceFact
<1>4. PICK d \in Nat, t \in Nat : d < v /\ t = 2 * v * B /\ jj = t + d
  <2>1. 2 * v * B \in Nat
    BY <1>1
  <2>2. jj - 2 * v * B \in Nat /\ jj - 2 * v * B < v
    BY <1>1, <2>1
  <2>3. QED  BY <2>1, <2>2
<1>5. PICK lo \in Nat : lo = First(x, 2 * v)
  BY <1>3
<1>a. Aligned(v, lo, A) /\ Aligned(v, t, B)
  BY <1>1, <1>3, <1>4, <1>5 DEF Aligned
<1>b. lo + c # t + d + v /\ t + d # lo + c + v /\ (lo + c = t + d => A = B)
  BY <1>4, <1>a, Apart
<1>6. lo + c # jj + v /\ jj # lo + c + v
  BY <1>4, <1>b
<1>7. ASSUME lo + c # jj
      PROVE  /\ BlockTerm(p2, v, x)[c] = BlockTerm(p, v, x)[c]
             /\ PairTerm(p2, v, x)[c] = PairTerm(p, v, x)[c]
  <2>0. Terms(p, v, x, c, lo, First(x, v)) /\ Terms(p2, v, x, c, lo, First(x, v))
    BY <1>5, TermFact DEF InHalf
  <2>1. PICK at \in Nat :
             /\ (at = lo \/ at = lo + v)
             /\ lo + c \in Coefficients /\ lo + v + c \in Coefficients /\ at + c \in Coefficients
             /\ BlockTerm(p, v, x)[c] = p[at + c] * Weight(x, c)
             /\ PairTerm(p, v, x)[c] = p[lo + c] * Weight(x, c) + p[lo + v + c] * Weight(x, v + c)
             /\ BlockTerm(p2, v, x)[c] = p2[at + c] * Weight(x, c)
             /\ PairTerm(p2, v, x)[c] = p2[lo + c] * Weight(x, c) + p2[lo + v + c] * Weight(x, v + c)
    BY <2>0 DEF Terms
  <2>3. lo + v + c # jj /\ lo + v + c # jj + v
    <3>1. PICK y \in Nat : y = lo + c
      OBVIOUS
    <3>2. y # jj /\ jj # y + v
      BY <1>6, <1>7, <3>1
    <3>3. y + v # jj /\ y + v # jj + v /\ lo + v + c = y + v
      BY <3>1, <3>2
    <3>4. QED  BY <3>3
  <2>4. p2[lo + c] = p[lo + c] /\ p2[lo + v + c] = p[lo + v + c]
    BY <1>6, <1>7, <2>1, <2>3
  <2>5. p2[at + c] = p[at + c]
    <3>1. CASE at = lo
      BY <2>4, <3>1
    <3>2. CASE at = lo + v
      BY <2>4, <3>2
    <3>3. QED  BY <2>1, <3>1, <3>2
  <2>6. QED  BY <2>1, <2>4, <2>5
<1>8. ASSUME lo + c = jj
      PROVE  x \div (2 * v) = B /\ First(x, 2 * v) = 2 * v * B
  <2>1. A = B
    BY <1>4, <1>8, <1>b
  <2>2. QED  BY <1>3, <1>5, <2>1
<1>9. QED  BY <1>5, <1>7, <1>8

\* A forward butterfly computes the values of a pair.
LEMMA PairForward ==
  ASSUME NEW p0 \in Int, NEW p1 \in Int, NEW t \in Int, NEW tw \in Int,
         NEW wv \in Int, NEW wc \in Int, NEW wvc \in Int,
         Same(t, p1 * tw), Same(wvc, wv * wc)
  PROVE  /\ Same(wv, tw) => Same((p0 + t) * wc, p0 * wc + p1 * wvc)
         /\ Same(wv, -tw) => Same((p0 - t) * wc, p0 * wc + p1 * wvc)
<1>0. Q \in Int /\ p1 * tw \in Int /\ wv * wc \in Int /\ -tw \in Int
  BY QFact
<1>1. PICK q \in Int : q = Q
  BY <1>0
<1>5. PICK c1 \in Int : t = p1 * tw + q * c1
  <2>1. \E c \in Int : t = p1 * tw + Q * c
    BY <1>0, SameIs
  <2>2. QED  BY <1>1, <2>1
<1>6. PICK c2 \in Int : wvc = wv * wc + q * c2
  <2>1. \E c \in Int : wvc = wv * wc + Q * c
    BY <1>0, SameIs
  <2>2. QED  BY <1>1, <2>1
<1>7. ASSUME NEW a1 \in Int, NEW b1 \in Int, NEW c \in Int, a1 = b1 + q * c PROVE Same(a1, b1)
  <2>1. a1 = b1 + Q * c
    BY <1>1, <1>7
  <2>2. QED  BY <2>1, SameIs
<1>2. ASSUME Same(wv, tw) PROVE Same((p0 + t) * wc, p0 * wc + p1 * wvc)
  <2>0. \E c \in Int : wv = tw + Q * c
    BY <1>2, SameIs
  <2>1. PICK c3 \in Int : wv = tw + q * c3
    BY <1>1, <2>0
  <2>2. PICK c \in Int : c = c1 * wc - p1 * (c3 * wc + c2)
    OBVIOUS
  <2>3. (p0 + t) * wc = (p0 * wc + p1 * wvc) + q * c
    BY <1>5, <1>6, <2>1, <2>2
  <2>4. (p0 + t) * wc \in Int /\ p0 * wc + p1 * wvc \in Int
    OBVIOUS
  <2>5. QED  BY <1>7, <2>3, <2>4
<1>3. ASSUME Same(wv, -tw) PROVE Same((p0 - t) * wc, p0 * wc + p1 * wvc)
  <2>0. \E c \in Int : wv = (-tw) + Q * c
    BY <1>0, <1>3, SameIs
  <2>1. PICK c3 \in Int : wv = (-tw) + q * c3
    BY <1>1, <2>0
  <2>2. PICK c \in Int : c = (0 - c1 * wc) - p1 * (c3 * wc + c2)
    <3>1. (0 - c1 * wc) - p1 * (c3 * wc + c2) \in Int
      OBVIOUS
    <3>2. QED  BY <3>1
  <2>3. (p0 - t) * wc = (p0 * wc + p1 * wvc) + q * c
    BY <1>5, <1>6, <2>1, <2>2
  <2>4. (p0 - t) * wc \in Int /\ p0 * wc + p1 * wvc \in Int
    OBVIOUS
  <2>5. QED  BY <1>7, <2>3, <2>4
<1>4. QED  BY <1>2, <1>3

\* An inverse butterfly undoes it, up to a factor of 2.
LEMMA PairInverse ==
  ASSUME NEW t \in Int, NEW u \in Int, NEW r \in Int, NEW tw \in Int, NEW ti \in Int,
         NEW wv \in Int, NEW wc \in Int, NEW wvc \in Int,
         Same(r, (t - u) * (-ti)), Same(tw * ti, -1), Same(wvc, wv * wc)
  PROVE  /\ Same(wv, tw) => Same((t + u) * wc + r * wvc, 2 * (t * wc))
         /\ Same(wv, -tw) => Same((t + u) * wc + r * wvc, 2 * (u * wc))
<1>0. /\ Q \in Int /\ (t - u) * (-ti) \in Int /\ wv * wc \in Int /\ tw * ti \in Int /\ -1 \in Int
      /\ -tw \in Int
  BY QFact
<1>6. PICK q \in Int : q = Q
  BY <1>0
<1>7. PICK c1 \in Int : r = (t - u) * (-ti) + q * c1
  <2>1. \E c \in Int : r = (t - u) * (-ti) + Q * c
    BY <1>0, SameIs
  <2>2. QED  BY <1>6, <2>1
<1>8. PICK c2 \in Int : tw * ti = -1 + q * c2
  <2>1. \E c \in Int : tw * ti = -1 + Q * c
    BY <1>0, SameIs
  <2>2. QED  BY <1>6, <2>1
<1>9. PICK c3 \in Int : wvc = wv * wc + q * c3
  <2>1. \E c \in Int : wvc = wv * wc + Q * c
    BY <1>0, SameIs
  <2>2. QED  BY <1>6, <2>1
<1>1. q = Q /\ r = (t - u) * (-ti) + q * c1 /\ tw * ti = -1 + q * c2 /\ wvc = wv * wc + q * c3
  BY <1>6, <1>7, <1>8, <1>9
<1>2. ASSUME NEW s \in Int, NEW e \in Int, s = 1 \/ s = -1, wv = s * tw + q * e
      PROVE  \E c \in Int : (t + u) * wc + r * wvc = (t + u) * wc + s * ((t - u) * wc) + q * c
  <2>1. PICK b \in Int, g \in Int : b = (t - u) * wc /\ g = e * wc + c3
    OBVIOUS
  <2>2. wvc = s * (tw * wc) + q * g
    BY <1>1, <1>2, <2>1
  <2>3. r * wvc = ((t - u) * (-ti)) * (s * (tw * wc)) + q * (((t - u) * (-ti)) * g + c1 * wvc)
    BY <1>1, <2>2
  <2>4. ((t - u) * (-ti)) * (s * (tw * wc)) = -((s * b) * (tw * ti))
    BY <2>1
  <2>5. -((s * b) * (tw * ti)) = s * b - q * ((s * b) * c2)
    BY <1>1
  <2>6. PICK c \in Int : c = (((t - u) * (-ti)) * g + c1 * wvc) - (s * b) * c2
    OBVIOUS
  <2>7. q * c = q * (((t - u) * (-ti)) * g + c1 * wvc) - q * ((s * b) * c2)
    BY <2>6
  <2>8. r * wvc = s * b + q * c
    <3>1. PICK y1 \in Int, y2 \in Int : y1 = q * (((t - u) * (-ti)) * g + c1 * wvc) /\ y2 = q * ((s * b) * c2)
      OBVIOUS
    <3>2. PICK y3 \in Int, y4 \in Int : y3 = ((t - u) * (-ti)) * (s * (tw * wc)) /\ y4 = s * b
      OBVIOUS
    <3>3. y3 = y4 - y2
      BY <2>4, <2>5, <3>1, <3>2
    <3>4. r * wvc = y3 + y1 /\ q * c = y1 - y2
      BY <2>3, <2>7, <3>1, <3>2
    <3>5. QED  BY <3>2, <3>3, <3>4
  <2>9. s * ((t - u) * wc) = s * b
    BY <2>1
  <2>10. PICK z1 \in Int, z2 \in Int, z3 \in Int : z1 = (t + u) * wc /\ z2 = s * b /\ z3 = q * c
    OBVIOUS
  <2>11. (t + u) * wc + r * wvc = (t + u) * wc + s * ((t - u) * wc) + q * c
    BY <2>8, <2>9, <2>10
  <2>12. QED  BY <2>11
<1>3. ASSUME Same(wv, tw) PROVE Same((t + u) * wc + r * wvc, 2 * (t * wc))
  <2>1. PICK e \in Int : wv = tw + q * e
    BY <1>1, <1>3, SameIs
  <2>2. wv = 1 * tw + q * e /\ 1 \in Int
    BY <2>1
  <2>3. PICK c \in Int : (t + u) * wc + r * wvc = (t + u) * wc + 1 * ((t - u) * wc) + q * c
    BY <1>2, <2>2
  <2>4. (t + u) * wc + 1 * ((t - u) * wc) = 2 * (t * wc)
    OBVIOUS
  <2>5. (t + u) * wc + r * wvc = 2 * (t * wc) + q * c
    BY <2>3, <2>4
  <2>6. (t + u) * wc + r * wvc \in Int /\ 2 * (t * wc) \in Int
    OBVIOUS
  <2>7. QED  BY <1>1, <2>5, <2>6, SameIs
<1>4. ASSUME Same(wv, -tw) PROVE Same((t + u) * wc + r * wvc, 2 * (u * wc))
  <2>0. -tw \in Int
    OBVIOUS
  <2>1. PICK e \in Int : wv = -tw + q * e
    BY <1>1, <1>4, <2>0, SameIs
  <2>2. wv = (-1) * tw + q * e /\ -1 \in Int
    BY <2>1
  <2>3. PICK c \in Int : (t + u) * wc + r * wvc = (t + u) * wc + (-1) * ((t - u) * wc) + q * c
    BY <1>2, <2>2
  <2>4. (t + u) * wc + (-1) * ((t - u) * wc) = 2 * (u * wc)
    OBVIOUS
  <2>5. (t + u) * wc + r * wvc = 2 * (u * wc) + q * c
    BY <2>3, <2>4
  <2>6. (t + u) * wc + r * wvc \in Int /\ 2 * (u * wc) \in Int
    OBVIOUS
  <2>7. QED  BY <1>1, <2>5, <2>6, SameIs
<1>5. QED  BY <1>3, <1>4

-------------------------------------------------------------------------------
(***************************************************************************)
(* A butterfly at position y of block B.                                   *)
(***************************************************************************)
AtPair(a, v, B, y) ==
  /\ a \in Nat /\ a < LAYERS /\ v \in Nat /\ v = Pow[a] /\ B \in Nat /\ B < Pow[LAYERS - 1 - a]
  /\ y \in Nat /\ 2 * v * B <= y /\ y < 2 * v * B + v

ForwardPair(a, v, B, y, p, t, p2) ==
  /\ p \in Polynomial /\ p2 \in Polynomial /\ t \in Int
  /\ Same(t, p[y + v] * Root(BitRev(Factor(a, B))))
  /\ p2[y] = p[y] + t /\ p2[y + v] = p[y] - t
  /\ \A z \in Coefficients : z # y /\ z # y + v => p2[z] = p[z]

InversePair(a, v, B, y, p, r, p2) ==
  /\ p \in Polynomial /\ p2 \in Polynomial /\ r \in Int
  /\ Same(r, (p[y] - p[y + v]) * (-Root(BitRev(InvFactor(a, B)))))
  /\ p2[y] = p[y] + p[y + v] /\ p2[y + v] = r
  /\ \A z \in Coefficients : z # y /\ z # y + v => p2[z] = p[z]

\* The weights in block B.
LEMMA WeightsInBlock ==
  ASSUME NEW a \in Nat, a < LAYERS, NEW v \in Nat, v = Pow[a], NEW x \in Coefficients, NEW c \in Nat
  PROVE  \E tw \in Int :
             /\ tw = Root(BitRev(Factor(a, x \div (2 * v)))) /\ Weight(x, v) \in Int /\ Weight(x, c) \in Int /\ Weight(x, v + c) \in Int
             /\ Same(Weight(x, v + c), Weight(x, v) * Weight(x, c))
             /\ First(x, v) = First(x, 2 * v) => Same(Weight(x, v), tw)
             /\ First(x, v) # First(x, 2 * v) => Same(Weight(x, v), -tw)
<1>1. x \in Nat /\ x < N /\ v + c \in Nat
  BY CoefficientFact
<1>2. Weight(x, v) \in Int /\ Weight(x, c) \in Int /\ Weight(x, v + c) \in Int
  BY <1>1, WeightIs
<1>3. Mod(Weight(x, v + c)) = Mod(Weight(x, v) * Weight(x, c))
  BY <1>1, WeightPlus
<1>4. PICK k1 : k1 = Factor(a, x \div (2 * v))
  OBVIOUS
<1>5. /\ k1 \in Nat /\ BitRev(k1) \in Nat
      /\ First(x, v) = First(x, 2 * v) => Mod(Weight(x, v)) = Mod(Root(BitRev(k1)))
      /\ First(x, v) # First(x, 2 * v) => Mod(Weight(x, v)) = Mod(-Root(BitRev(k1)))
  BY <1>1, <1>4, FactorIsWeight
<1>6. PICK tw \in Int, wv \in Int, wc \in Int, wvc \in Int :
        tw = Root(BitRev(k1)) /\ wv = Weight(x, v) /\ wc = Weight(x, c) /\ wvc = Weight(x, v + c)
  BY <1>2, <1>5, RootType
<1>7. Same(wvc, wv * wc)
  <2>1. wv * wc \in Int
    OBVIOUS
  <2>2. QED  BY <1>3, <1>6, <2>1, ModFact
<1>8. /\ First(x, v) = First(x, 2 * v) => Same(wv, tw)
      /\ First(x, v) # First(x, 2 * v) => Same(wv, -tw)
  <2>1. -tw \in Int
    OBVIOUS
  <2>2. QED  BY <1>5, <1>6, <2>1, ModFact
<1>9. QED  BY <1>4, <1>6, <1>7, <1>8

LEMMA ForwardPairTerms ==
  ASSUME NEW a, NEW v, NEW B, NEW y, NEW p, NEW t, NEW p2, NEW x \in Coefficients, NEW c \in Nat,
         AtPair(a, v, B, y), ForwardPair(a, v, B, y, p, t, p2), c < v
  PROVE  Same(ForwardTerm(p2, v, y + 1, x)[c], ForwardTerm(p, v, y, x)[c])
<1>1. /\ a \in Nat /\ a < LAYERS /\ v \in Nat /\ v = Pow[a] /\ B \in Nat /\ B < Pow[LAYERS - 1 - a]
      /\ y \in Nat /\ 2 * v * B <= y /\ y < 2 * v * B + v
  BY DEF AtPair
<1>0. y \in Nat /\ v \in Nat
  BY <1>1
<1>2. /\ p \in Polynomial /\ p2 \in Polynomial /\ t \in Int
      /\ Same(t, p[y + v] * Root(BitRev(Factor(a, B))))
      /\ p2[y] = p[y] + t /\ p2[y + v] = p[y] - t
      /\ \A z \in Coefficients : z # y /\ z # y + v => p2[z] = p[z]
  BY DEF ForwardPair
<1>3. PICK lo \in Nat, at \in Nat :
        lo = First(x, 2 * v) /\ at = First(x, v) /\ Terms(p, v, x, c, lo, at) /\ Terms(p2, v, x, c, lo, at)
  <2>1. Terms(p, v, x, c, First(x, 2 * v), First(x, v)) /\ Terms(p2, v, x, c, First(x, 2 * v), First(x, v))
    BY <1>1, <1>2, TermFact DEF InHalf
  <2>2. First(x, 2 * v) \in Nat /\ First(x, v) \in Nat
    BY <2>1 DEF Terms
  <2>3. QED  BY <2>1, <2>2
<1>4. /\ ForwardTerm(p2, v, y + 1, x)[c] =
           IF lo + c < y + 1 THEN BlockTerm(p2, v, x)[c] ELSE PairTerm(p2, v, x)[c]
      /\ ForwardTerm(p, v, y, x)[c] =
           IF lo + c < y THEN BlockTerm(p, v, x)[c] ELSE PairTerm(p, v, x)[c]
  <2>1. y + 1 \in Nat
    BY <1>1
  <2>2. QED  BY <1>1, <1>2, <1>3, <2>1, ForwardTermFact
<1>5. /\ lo + c # y => /\ BlockTerm(p2, v, x)[c] = BlockTerm(p, v, x)[c]
                       /\ PairTerm(p2, v, x)[c] = PairTerm(p, v, x)[c]
      /\ lo + c = y => x \div (2 * v) = B /\ lo = 2 * v * B
  BY <1>1, <1>2, <1>3, OtherTerms
<1>6. CASE lo + c # y
  <2>1. lo + c < y + 1 <=> lo + c < y
    BY <1>0, <1>6
  <2>2. ForwardTerm(p2, v, y + 1, x)[c] = ForwardTerm(p, v, y, x)[c]
    BY <1>4, <1>5, <1>6, <2>1
  <2>3. ForwardTerm(p, v, y, x)[c] \in Int
    BY <1>0, <1>1, <1>2, ForwardTermFact
  <2>4. QED  BY <2>2, <2>3, SameRefl
<1>7. CASE lo + c = y
  <2>1. lo + c < y + 1 /\ ~(lo + c < y) /\ lo + v + c = y + v /\ lo + v + c = (lo + c) + v
    BY <1>0, <1>7
  <2>2. ForwardTerm(p2, v, y + 1, x)[c] = BlockTerm(p2, v, x)[c]
        /\ ForwardTerm(p, v, y, x)[c] = PairTerm(p, v, x)[c]
    BY <1>4, <2>1
  <2>3. /\ at = lo \/ at = lo + v
        /\ BlockTerm(p2, v, x)[c] = p2[at + c] * Weight(x, c)
        /\ PairTerm(p, v, x)[c] = p[lo + c] * Weight(x, c) + p[lo + v + c] * Weight(x, v + c)
        /\ p[lo + c] \in Int /\ p[lo + v + c] \in Int
    BY <1>3 DEF Terms
  <2>4. PICK tw \in Int, wv \in Int, wc \in Int, wvc \in Int, p0 \in Int, p1 \in Int :
          /\ tw = Root(BitRev(Factor(a, B))) /\ wv = Weight(x, v) /\ wc = Weight(x, c)
          /\ wvc = Weight(x, v + c) /\ Same(wvc, wv * wc)
          /\ at = lo => Same(wv, tw)
          /\ at # lo => Same(wv, -tw)
          /\ p0 = p[y] /\ p1 = p[y + v]
    <3>1. PICK tw \in Int :
             /\ tw = Root(BitRev(Factor(a, x \div (2 * v))))
             /\ Weight(x, v) \in Int /\ Weight(x, c) \in Int /\ Weight(x, v + c) \in Int
             /\ Same(Weight(x, v + c), Weight(x, v) * Weight(x, c))
             /\ First(x, v) = First(x, 2 * v) => Same(Weight(x, v), tw)
             /\ First(x, v) # First(x, 2 * v) => Same(Weight(x, v), -tw)
      BY <1>1, WeightsInBlock
    <3>2. tw = Root(BitRev(Factor(a, B))) /\ p[y] \in Int /\ p[y + v] \in Int
      BY <1>5, <1>7, <2>1, <2>3, <3>1
    <3>3. QED  BY <1>3, <3>1, <3>2
  <2>5. /\ Same(wv, tw) => Same((p0 + t) * wc, p0 * wc + p1 * wvc)
        /\ Same(wv, -tw) => Same((p0 - t) * wc, p0 * wc + p1 * wvc)
    <3>1. Same(t, p1 * tw)
      BY <1>2, <2>4
    <3>2. QED  BY <1>2, <2>4, <3>1, PairForward
  <2>6. PairTerm(p, v, x)[c] = p0 * wc + p1 * wvc
    BY <1>7, <2>1, <2>3, <2>4
  <2>7. CASE at = lo
    <3>1. BlockTerm(p2, v, x)[c] = (p0 + t) * wc
      BY <1>2, <1>7, <2>3, <2>4, <2>7
    <3>2. QED  BY <2>2, <2>4, <2>5, <2>6, <2>7, <3>1
  <2>8. CASE at # lo
    <3>1. at + c = y + v
      BY <2>1, <2>3, <2>8
    <3>2. BlockTerm(p2, v, x)[c] = (p0 - t) * wc
      BY <1>2, <2>3, <2>4, <3>1
    <3>3. QED  BY <2>2, <2>4, <2>5, <2>6, <2>8, <3>2
  <2>9. QED  BY <2>7, <2>8
<1>8. QED  BY <1>6, <1>7

LEMMA InversePairTerms ==
  ASSUME NEW a, NEW v, NEW B, NEW y, NEW p, NEW r, NEW p2, NEW x \in Coefficients, NEW c \in Nat,
         AtPair(a, v, B, y), InversePair(a, v, B, y, p, r, p2), c < v
  PROVE  Same(InverseTerm(p2, v, y + 1, x)[c], InverseTerm(p, v, y, x)[c])
<1>1. /\ a \in Nat /\ a < LAYERS /\ v \in Nat /\ v = Pow[a] /\ B \in Nat /\ B < Pow[LAYERS - 1 - a]
      /\ y \in Nat /\ 2 * v * B <= y /\ y < 2 * v * B + v
  BY DEF AtPair
<1>0. y \in Nat /\ v \in Nat
  BY <1>1
<1>2. /\ p \in Polynomial /\ p2 \in Polynomial /\ r \in Int
      /\ Same(r, (p[y] - p[y + v]) * (-Root(BitRev(InvFactor(a, B)))))
      /\ p2[y] = p[y] + p[y + v] /\ p2[y + v] = r
      /\ \A z \in Coefficients : z # y /\ z # y + v => p2[z] = p[z]
  BY DEF InversePair
<1>3. PICK lo \in Nat, at \in Nat :
        lo = First(x, 2 * v) /\ at = First(x, v) /\ Terms(p, v, x, c, lo, at) /\ Terms(p2, v, x, c, lo, at)
  <2>1. Terms(p, v, x, c, First(x, 2 * v), First(x, v)) /\ Terms(p2, v, x, c, First(x, 2 * v), First(x, v))
    BY <1>1, <1>2, TermFact DEF InHalf
  <2>2. First(x, 2 * v) \in Nat /\ First(x, v) \in Nat
    BY <2>1 DEF Terms
  <2>3. QED  BY <2>1, <2>2
<1>4. /\ InverseTerm(p2, v, y + 1, x)[c] =
           IF lo + c < y + 1 THEN PairTerm(p2, v, x)[c] ELSE 2 * BlockTerm(p2, v, x)[c]
      /\ InverseTerm(p, v, y, x)[c] =
           IF lo + c < y THEN PairTerm(p, v, x)[c] ELSE 2 * BlockTerm(p, v, x)[c]
  <2>1. y + 1 \in Nat
    BY <1>1
  <2>2. QED  BY <1>1, <1>2, <1>3, <2>1, ForwardTermFact
<1>5. /\ lo + c # y => /\ BlockTerm(p2, v, x)[c] = BlockTerm(p, v, x)[c]
                       /\ PairTerm(p2, v, x)[c] = PairTerm(p, v, x)[c]
      /\ lo + c = y => x \div (2 * v) = B /\ lo = 2 * v * B
  BY <1>1, <1>2, <1>3, OtherTerms
<1>6. CASE lo + c # y
  <2>1. lo + c < y + 1 <=> lo + c < y
    BY <1>0, <1>6
  <2>2. InverseTerm(p2, v, y + 1, x)[c] = InverseTerm(p, v, y, x)[c]
    BY <1>4, <1>5, <1>6, <2>1
  <2>3. InverseTerm(p, v, y, x)[c] \in Int
    BY <1>0, <1>1, <1>2, ForwardTermFact
  <2>4. QED  BY <2>2, <2>3, SameRefl
<1>7. CASE lo + c = y
  <2>1. lo + c < y + 1 /\ ~(lo + c < y) /\ lo + v + c = y + v /\ lo + v + c = (lo + c) + v
    BY <1>0, <1>7
  <2>2. InverseTerm(p2, v, y + 1, x)[c] = PairTerm(p2, v, x)[c]
        /\ InverseTerm(p, v, y, x)[c] = 2 * BlockTerm(p, v, x)[c]
    BY <1>4, <2>1
  <2>3. /\ at = lo \/ at = lo + v
        /\ BlockTerm(p, v, x)[c] = p[at + c] * Weight(x, c)
        /\ PairTerm(p2, v, x)[c] = p2[lo + c] * Weight(x, c) + p2[lo + v + c] * Weight(x, v + c)
        /\ p[lo + c] \in Int /\ p[lo + v + c] \in Int
    BY <1>3 DEF Terms
  <2>4. PICK tw \in Int, wv \in Int, wc \in Int, wvc \in Int, p0 \in Int, p1 \in Int :
          /\ tw = Root(BitRev(Factor(a, B))) /\ wv = Weight(x, v) /\ wc = Weight(x, c)
          /\ wvc = Weight(x, v + c) /\ Same(wvc, wv * wc)
          /\ at = lo => Same(wv, tw)
          /\ at # lo => Same(wv, -tw)
          /\ p0 = p[y] /\ p1 = p[y + v]
    <3>1. PICK tw \in Int :
             /\ tw = Root(BitRev(Factor(a, x \div (2 * v))))
             /\ Weight(x, v) \in Int /\ Weight(x, c) \in Int /\ Weight(x, v + c) \in Int
             /\ Same(Weight(x, v + c), Weight(x, v) * Weight(x, c))
             /\ First(x, v) = First(x, 2 * v) => Same(Weight(x, v), tw)
             /\ First(x, v) # First(x, 2 * v) => Same(Weight(x, v), -tw)
      BY <1>1, WeightsInBlock
    <3>2. tw = Root(BitRev(Factor(a, B))) /\ p[y] \in Int /\ p[y + v] \in Int
      BY <1>5, <1>7, <2>1, <2>3, <3>1
    <3>3. QED  BY <1>3, <3>1, <3>2
  <2>5. PICK ti \in Int : ti = Root(BitRev(InvFactor(a, B))) /\ Same(tw * ti, -1)
    <3>1. /\ BitRev(InvFactor(a, B)) \in Nat
          /\ Mod(Root(BitRev(Factor(a, B))) * Root(BitRev(InvFactor(a, B)))) = Mod(-1)
      BY <1>1, FactorsCancel
    <3>2. PICK ti \in Int : ti = Root(BitRev(InvFactor(a, B)))
      BY <3>1, RootType
    <3>3. Mod(tw * ti) = Mod(-1) /\ tw * ti \in Int /\ -1 \in Int
      BY <2>4, <3>1, <3>2
    <3>4. QED  BY <3>2, <3>3, ModFact
  <2>6. /\ Same(wv, tw) => Same((p0 + p1) * wc + r * wvc, 2 * (p0 * wc))
        /\ Same(wv, -tw) => Same((p0 + p1) * wc + r * wvc, 2 * (p1 * wc))
    <3>1. Same(r, (p0 - p1) * (-ti))
      BY <1>2, <2>4, <2>5
    <3>2. QED  BY <1>2, <2>4, <2>5, <3>1, PairInverse
  <2>7. PairTerm(p2, v, x)[c] = (p0 + p1) * wc + r * wvc
    BY <1>2, <1>7, <2>1, <2>3, <2>4
  <2>8. CASE at = lo
    <3>1. 2 * BlockTerm(p, v, x)[c] = 2 * (p0 * wc)
      BY <1>7, <2>3, <2>4, <2>8
    <3>2. QED  BY <2>2, <2>4, <2>6, <2>7, <2>8, <3>1
  <2>9. CASE at # lo
    <3>1. at + c = y + v
      BY <2>1, <2>3, <2>9
    <3>2. 2 * BlockTerm(p, v, x)[c] = 2 * (p1 * wc)
      BY <2>3, <2>4, <3>1
    <3>3. QED  BY <2>2, <2>4, <2>6, <2>7, <2>9, <3>2
  <2>10. QED  BY <2>8, <2>9
<1>8. QED  BY <1>6, <1>7

\* A butterfly takes one pair of every block further.
LEMMA ForwardStep ==
  ASSUME NEW a, NEW v, NEW B, NEW y, NEW p, NEW t, NEW p2, NEW V,
         AtPair(a, v, B, y), ForwardPair(a, v, B, y, p, t, p2), Separated(p, v, y, V)
  PROVE  Separated(p2, v, y + 1, V)
<1>1. /\ a \in Nat /\ a < LAYERS /\ v \in Nat /\ v = Pow[a] /\ y \in Nat /\ y + 1 \in Nat
      /\ p \in Polynomial /\ p2 \in Polynomial
  BY DEF AtPair, ForwardPair
<1>2. ASSUME NEW x \in Coefficients
      PROVE  Mod(Total(v, ForwardTerm(p2, v, y + 1, x))) = Mod(Total(v, ForwardTerm(p, v, y, x)))
  <2>1. \A c \in Nat : c < v => /\ ForwardTerm(p2, v, y + 1, x)[c] \in Int
                                /\ ForwardTerm(p, v, y, x)[c] \in Int
                                /\ Same(ForwardTerm(p2, v, y + 1, x)[c], ForwardTerm(p, v, y, x)[c])
    BY <1>1, ForwardTermFact, ForwardPairTerms
  <2>2. Same(Total(v, ForwardTerm(p2, v, y + 1, x)), Total(v, ForwardTerm(p, v, y, x)))
    BY <1>1, <2>1, TotalSame
  <2>3. Total(v, ForwardTerm(p2, v, y + 1, x)) \in Int /\ Total(v, ForwardTerm(p, v, y, x)) \in Int
    BY <1>1, <2>1, TotalInt
  <2>4. QED  BY <2>2, <2>3, ModFact
<1>3. QED  BY <1>2 DEF Separated

LEMMA InverseStep ==
  ASSUME NEW a, NEW v, NEW B, NEW y, NEW p, NEW r, NEW p2, NEW V,
         AtPair(a, v, B, y), InversePair(a, v, B, y, p, r, p2), Joined(p, v, y, V)
  PROVE  Joined(p2, v, y + 1, V)
<1>1. /\ a \in Nat /\ a < LAYERS /\ v \in Nat /\ v = Pow[a] /\ y \in Nat /\ y + 1 \in Nat
      /\ p \in Polynomial /\ p2 \in Polynomial
  BY DEF AtPair, InversePair
<1>2. ASSUME NEW x \in Coefficients
      PROVE  Mod(Total(v, InverseTerm(p2, v, y + 1, x))) = Mod(Total(v, InverseTerm(p, v, y, x)))
  <2>1. \A c \in Nat : c < v => /\ InverseTerm(p2, v, y + 1, x)[c] \in Int
                                /\ InverseTerm(p, v, y, x)[c] \in Int
                                /\ Same(InverseTerm(p2, v, y + 1, x)[c], InverseTerm(p, v, y, x)[c])
    BY <1>1, ForwardTermFact, InversePairTerms
  <2>2. Same(Total(v, InverseTerm(p2, v, y + 1, x)), Total(v, InverseTerm(p, v, y, x)))
    BY <1>1, <2>1, TotalSame
  <2>3. Total(v, InverseTerm(p2, v, y + 1, x)) \in Int /\ Total(v, InverseTerm(p, v, y, x)) \in Int
    BY <1>1, <2>1, TotalInt
  <2>4. QED  BY <2>2, <2>3, ModFact
<1>3. QED  BY <1>2 DEF Joined

\* Nothing of the second half of a block is left after the first.
LEMMA BlockOrder ==
  ASSUME NEW v \in Nat, v >= 1, NEW A \in Nat, NEW B \in Nat, NEW c \in Nat, c < v
  PROVE  2 * v * A + c < 2 * v * B + v <=> 2 * v * A + c < 2 * v * B + 2 * v
<1>1. CASE A <= B
  <2>1. PICK d \in Nat : B = A + d
    BY <1>1
  <2>2. 2 * v * B = 2 * v * A + 2 * (v * d)
    BY <2>1
  <2>3. v * d \in Nat /\ 2 * v * A \in Nat
    OBVIOUS
  <2>4. QED  BY <2>2, <2>3
<1>2. CASE A > B
  <2>1. PICK d \in Nat : A = B + 1 + d
    BY <1>2
  <2>2. 2 * v * A = 2 * v * B + 2 * v + 2 * (v * d)
    BY <2>1
  <2>3. v * d \in Nat /\ 2 * v * B \in Nat
    OBVIOUS
  <2>4. QED  BY <2>2, <2>3
<1>3. QED  BY <1>1, <1>2

LEMMA BlockSkip ==
  ASSUME NEW a \in Nat, a < LAYERS, NEW v \in Nat, v = Pow[a], NEW B \in Nat, NEW s \in Nat, s = 2 * v * B,
         NEW p \in Polynomial, NEW V
  PROVE  /\ Separated(p, v, s + v, V) => Separated(p, v, s + 2 * v, V)
         /\ Joined(p, v, s + v, V) => Joined(p, v, s + 2 * v, V)
<1>1. s + v \in Nat /\ s + 2 * v \in Nat /\ v >= 1
  BY LengthFact
<1>2. ASSUME NEW x \in Coefficients
      PROVE  /\ Total(v, ForwardTerm(p, v, s + v, x)) = Total(v, ForwardTerm(p, v, s + 2 * v, x))
             /\ Total(v, InverseTerm(p, v, s + v, x)) = Total(v, InverseTerm(p, v, s + 2 * v, x))
  <2>1. PICK A \in Nat : First(x, 2 * v) = 2 * v * A
    BY CoefficientFact, PlaceFact
  <2>2. ASSUME NEW c \in Nat, c < v
        PROVE  /\ ForwardTerm(p, v, s + v, x)[c] = ForwardTerm(p, v, s + 2 * v, x)[c]
               /\ InverseTerm(p, v, s + v, x)[c] = InverseTerm(p, v, s + 2 * v, x)[c]
    <3>1. 2 * v * A + c < 2 * v * B + v <=> 2 * v * A + c < 2 * v * B + 2 * v
      BY <1>1, <2>2, BlockOrder
    <3>2. First(x, 2 * v) + c < s + v <=> First(x, 2 * v) + c < s + 2 * v
      BY <2>1, <3>1
    <3>3. /\ ForwardTerm(p, v, s + v, x)[c] =
               IF First(x, 2 * v) + c < s + v THEN BlockTerm(p, v, x)[c] ELSE PairTerm(p, v, x)[c]
          /\ InverseTerm(p, v, s + v, x)[c] =
               IF First(x, 2 * v) + c < s + v THEN PairTerm(p, v, x)[c] ELSE 2 * BlockTerm(p, v, x)[c]
      BY <1>1, <2>2, ForwardTermFact
    <3>4. /\ ForwardTerm(p, v, s + 2 * v, x)[c] =
               IF First(x, 2 * v) + c < s + 2 * v THEN BlockTerm(p, v, x)[c] ELSE PairTerm(p, v, x)[c]
          /\ InverseTerm(p, v, s + 2 * v, x)[c] =
               IF First(x, 2 * v) + c < s + 2 * v THEN PairTerm(p, v, x)[c] ELSE 2 * BlockTerm(p, v, x)[c]
      BY <1>1, <2>2, ForwardTermFact
    <3>5. QED  BY <3>2, <3>3, <3>4
  <2>3. QED  BY <2>2, TotalEqual
<1>3. QED  BY <1>2 DEF Separated, Joined

-------------------------------------------------------------------------------
(***************************************************************************)
(* Montgomery's reduction divides by R modulo Q.                           *)
(***************************************************************************)
LEMMA MontgomeryDivides ==
  ASSUME NEW a \in Int
  PROVE  MontgomeryReduce(a) \in Int /\ Same(R * MontgomeryReduce(a), a)
<1>1. PICK t \in Int : a - Signed(((a % R) * QINV) % R) * Q = R * t /\ MontgomeryReduce(a) = t
  BY MontgomeryExact
<1>2. Signed(((a % R) * QINV) % R) \in Int
  <2>1. a % R \in Int /\ QINV \in Int /\ R \in Int
    BY DivMod, NttAssumption
  <2>2. (a % R) * QINV \in Int
    BY <2>1
  <2>3. ((a % R) * QINV) % R \in Int
    BY <2>2, DivMod
  <2>4. QED  BY <2>1, <2>3 DEF Signed
<1>3. PICK s \in Int : s = Signed(((a % R) * QINV) % R)
  BY <1>2
<1>4. Q \in Int /\ R \in Int
  BY NttAssumption
<1>5. s * Q \in Int /\ R * t \in Int /\ -s \in Int /\ a - s * Q = R * t
  BY <1>1, <1>3, <1>4
<1>6. R * t - a = Q * (-s)
  <2>1. Q * (-s) = -(s * Q)
    BY <1>4
  <2>2. QED  BY <1>5, <2>1
<1>7. QED  BY <1>1, <1>5, <1>6 DEF Same

\* Both are invertible modulo Q: R, and 2, which divides it.
LEMMA Inverses ==
  \E ri \in Int, two \in Int : Same(R * ri, 1) /\ Same(2 * two, 1)
<1>1. Q \in Int /\ R \in Int /\ QINV \in Int /\ (Q * QINV) % R = 1 /\ R = 2 * Half /\ Half \in Int
  BY NttAssumption, HalfFact
<1>2. PICK d \in Int : Q * QINV = R * d + 1
  <2>1. Q * QINV \in Int
    BY <1>1
  <2>2. (Q * QINV) \div R \in Int /\ Q * QINV = R * ((Q * QINV) \div R) + ((Q * QINV) % R)
    BY <2>1, DivMod
  <2>3. QED  BY <1>1, <2>2
<1>3. PICK ri \in Int, m \in Int, two \in Int : ri = -d /\ m = -QINV /\ two = -(Half * d)
  BY <1>1
<1>4. R * ri - 1 = Q * m
  <2>1. R * ri = -(R * d) /\ Q * m = -(Q * QINV)
    BY <1>1, <1>3
  <2>2. R * d \in Int /\ Q * QINV \in Int
    BY <1>1
  <2>3. QED  BY <1>2, <2>1, <2>2
<1>5. 2 * two = R * ri
  BY <1>1, <1>3
<1>6. QED  BY <1>3, <1>4, <1>5 DEF Same

\* What is equal after a multiplication by R, or by 2, is equal.
LEMMA Cancel ==
  ASSUME NEW n \in Int, n = R \/ n = 2, NEW x \in Int, NEW y \in Int, Same(n * x, n * y)
  PROVE  Same(x, y)
<1>1. PICK e \in Int : Same(n * e, 1)
  BY Inverses
<1>2. ASSUME NEW z \in Int PROVE Same(e * (n * z), z)
  <2>1. Same((n * e) * z, 1 * z)
    <3>1. n * e \in Int /\ 1 \in Int /\ Same(z, z)
      BY SameRefl
    <3>2. QED  BY <1>1, <3>1, SameTimes
  <2>2. (n * e) * z = e * (n * z) /\ 1 * z = z
    OBVIOUS
  <2>3. QED  BY <2>1, <2>2
<1>3. /\ e * (n * x) \in Int /\ e * (n * y) \in Int /\ n * x \in Int /\ n * y \in Int
  OBVIOUS
<1>4. Same(e * (n * x), e * (n * y))
  BY <1>3, SameRefl, SameTimes
<1>5. Same(x, e * (n * x)) /\ Same(e * (n * y), y)
  BY <1>2, <1>3, SameSym
<1>6. Same(x, e * (n * y))
  BY <1>3, <1>4, <1>5, SameTrans
<1>7. QED  BY <1>3, <1>5, <1>6, SameTrans

\* A reduced product with a twiddle factor of the table is a product with the root.
LEMMA TwiddleIs ==
  ASSUME NEW x \in Int, NEW kk \in Nat, kk >= 1, kk < N
  PROVE  /\ BitRev(kk) \in Nat /\ Root(BitRev(kk)) \in Int /\ Zetas[kk] \in Int
         /\ MontgomeryReduce(x * Zetas[kk]) \in Int
         /\ Same(MontgomeryReduce(x * Zetas[kk]), x * Root(BitRev(kk)))
         /\ MontgomeryReduce(x * (-Zetas[kk])) \in Int
         /\ Same(MontgomeryReduce(x * (-Zetas[kk])), x * (-Root(BitRev(kk))))
<1>1. BitRev(kk) \in Nat /\ BitRev(kk) < 2 * N /\ kk \in Coefficients \ {0}
  <2>1. BitRev(kk) + BitRev(Pow[LAYERS] - 1 - kk) = N - Pow[LAYERS - LAYERS] /\ Pow[LAYERS] - 1 - kk \in Nat
        /\ Pow[LAYERS] - 1 - kk < N
    BY PowFact, RevOfMirror
  <2>2. BitRev(kk) \in Nat /\ BitRev(Pow[LAYERS] - 1 - kk) \in Nat
    BY <2>1, RevType
  <2>3. LAYERS - LAYERS = 0 /\ N \in Nat
    BY PowFact, DegreeFact
  <2>4. QED  BY <2>1, <2>2, <2>3, PowFact, CoefficientFact
<1>2. Root(BitRev(kk)) = RootPower[BitRev(kk)] /\ Root(BitRev(kk)) \in Int
  BY <1>1, RootSmall, RootType
<1>3. Zetas[kk] \in Int /\ R \in Int
  BY <1>1, NttAssumption
<1>4. PICK z \in Int, w \in Int, rr \in Int : z = Zetas[kk] /\ w = Root(BitRev(kk)) /\ rr = R
  BY <1>2, <1>3
<1>5. Same(z, rr * w)
  <2>1. (z - rr * w) % Q = 0
    BY <1>1, <1>2, <1>4, RootAssumption
  <2>2. z - rr * w \in Int /\ rr * w \in Int
    OBVIOUS
  <2>3. Same(z - rr * w, 0)
    <3>1. 0 % Q = 0
      BY QFact
    <3>2. QED  BY <2>1, <2>2, <3>1, ModIsSame
  <2>4. PICK c \in Int : (z - rr * w) - 0 = Q * c
    BY <2>3 DEF Same
  <2>5. z - rr * w = Q * c
    BY <2>2, <2>4
  <2>6. QED  BY <2>5 DEF Same
<1>6. ASSUME NEW s \in Int, s = 1 \/ s = -1, NEW zs \in Int, zs = s * z, NEW ws \in Int, ws = s * w
      PROVE  MontgomeryReduce(x * zs) \in Int /\ Same(MontgomeryReduce(x * zs), x * ws)
  <2>1. MontgomeryReduce(x * zs) \in Int /\ Same(R * MontgomeryReduce(x * zs), x * zs)
    <3>1. x * zs \in Int
      OBVIOUS
    <3>2. QED  BY <3>1, MontgomeryDivides
  <2>2. Same((x * s) * z, (x * s) * (rr * w))
    <3>1. x * s \in Int /\ rr * w \in Int
      OBVIOUS
    <3>2. QED  BY <1>5, <3>1, SameRefl, SameTimes
  <2>3. (x * s) * z = x * zs /\ (x * s) * (rr * w) = rr * (x * ws)
    BY <1>6
  <2>4. PICK m \in Int : m = MontgomeryReduce(x * zs)
    BY <2>1
  <2>5. x * zs \in Int /\ rr * m \in Int /\ rr * (x * ws) \in Int /\ x * ws \in Int
    OBVIOUS
  <2>6. Same(rr * m, x * zs) /\ Same(x * zs, rr * (x * ws))
    BY <1>4, <2>1, <2>2, <2>3, <2>4
  <2>7. Same(rr * m, rr * (x * ws))
    BY <2>5, <2>6, SameTrans
  <2>8. Same(m, x * ws)
    BY <1>4, <2>5, <2>7, Cancel
  <2>9. QED  BY <2>1, <2>4, <2>8
<1>7. MontgomeryReduce(x * z) \in Int /\ Same(MontgomeryReduce(x * z), x * w)
  <2>1. z = 1 * z /\ w = 1 * w
    OBVIOUS
  <2>2. QED  BY <1>6, <2>1
<1>8. MontgomeryReduce(x * (-z)) \in Int /\ Same(MontgomeryReduce(x * (-z)), x * (-w))
  <2>1. -z = (-1) * z /\ -w = (-1) * w /\ -1 \in Int /\ -z \in Int /\ -w \in Int
    OBVIOUS
  <2>2. QED  BY <1>6, <2>1
<1>9. QED  BY <1>1, <1>2, <1>3, <1>4, <1>7, <1>8

\* The values of a polynomial at the roots of unity, before they are reduced.
ValueTerms(p, x) == [n \in Coefficients |-> p[n] * Weight(x, n)]
Values(p) == [x \in Coefficients |-> Total(N, ValueTerms(p, x))]

LEMMA ValuesFact ==
  ASSUME NEW p \in Polynomial, NEW x \in Coefficients
  PROVE  /\ \A n \in Nat : n < N => ValueTerms(p, x)[n] = p[n] * Weight(x, n) /\ ValueTerms(p, x)[n] \in Int
         /\ Values(p)[x] = Total(N, ValueTerms(p, x)) /\ Values(p)[x] \in Int
<1>1. x \in Nat /\ x < N /\ N \in Nat
  BY CoefficientFact, DegreeFact
<1>2. ASSUME NEW n \in Nat, n < N
      PROVE  ValueTerms(p, x)[n] = p[n] * Weight(x, n) /\ ValueTerms(p, x)[n] \in Int
  <2>1. n \in Coefficients /\ Weight(x, n) \in Int
    BY <1>1, <1>2, WeightIs, CoefficientFact
  <2>2. ValueTerms(p, x)[n] = p[n] * Weight(x, n) /\ p[n] \in Int
    BY <2>1 DEF ValueTerms, Polynomial
  <2>3. QED  BY <2>1, <2>2
<1>3. Total(N, ValueTerms(p, x)) \in Int
  BY <1>1, <1>2, TotalInt
<1>4. QED  BY <1>2, <1>3 DEF Values

\* One block of N has the polynomial, N blocks of 1 its values.
LEMMA WholeBlock ==
  ASSUME NEW p \in Polynomial
  PROVE  \A V : Blocks(p, N, V) <=> \A x \in Coefficients : Mod(Values(p)[x]) = Mod(V[x])
<1>1. ASSUME NEW x \in Coefficients PROVE Total(N, BlockTerm(p, N, x)) = Values(p)[x]
  <2>1. x \in Nat /\ x < N /\ N \in Nat /\ N >= 1
    BY CoefficientFact, DegreeFact
  <2>2. x \div N = 0
    BY <2>1, DivIs
  <2>3. First(x, N) = 0
    BY <2>1, <2>2 DEF First
  <2>4. ASSUME NEW n \in Nat, n < N PROVE BlockTerm(p, N, x)[n] = ValueTerms(p, x)[n]
    <3>1. n \in Coefficients /\ 0 + n = n
      BY <2>1, <2>4, CoefficientFact
    <3>2. QED  BY <2>3, <3>1 DEF BlockTerm, ValueTerms
  <2>5. Total(N, BlockTerm(p, N, x)) = Total(N, ValueTerms(p, x))
    BY <2>1, <2>4, TotalEqual
  <2>6. QED  BY <2>5, ValuesFact
<1>2. QED  BY <1>1 DEF Blocks

LEMMA OneBlock ==
  ASSUME NEW p \in Polynomial
  PROVE  \A V : Blocks(p, 1, V) <=> \A x \in Coefficients : Mod(p[x]) = Mod(V[x])
<1>1. ASSUME NEW x \in Coefficients PROVE Total(1, BlockTerm(p, 1, x)) = p[x]
  <2>1. x \in Nat /\ x < N /\ N \in Nat /\ N >= 1 /\ p[x] \in Int
    BY CoefficientFact, DegreeFact DEF Polynomial
  <2>2. First(x, 1) = x
    BY <2>1 DEF First
  <2>3. 0 \in Coefficients /\ Weight(x, 0) = 1
    BY <2>1, CoefficientFact, WeightZero
  <2>4. BlockTerm(p, 1, x)[0] = p[x]
    BY <2>1, <2>2, <2>3 DEF BlockTerm
  <2>5. Total(0 + 1, BlockTerm(p, 1, x)) = 0 + p[x]
    BY <2>4, TotalNext
  <2>6. QED  BY <2>1, <2>5
<1>2. QED  BY <1>1 DEF Blocks

-------------------------------------------------------------------------------
(***************************************************************************)
(* The program: the forward transforms.                                    *)
(***************************************************************************)
Transformed(o) ==
  IF kind = "acc" /\ o < L THEN f[o] = given[o]
  ELSE \A x \in Coefficients : Mod(f[o][x]) = Mod(Values(given[o])[x])

ForwardIs ==
  /\ given \in [Operands -> Polynomial]
  /\ Forward => \A o \in Operands : o > op => f[o] = given[o]
  /\ \A o \in Operands : ~Forward \/ o < op => Transformed(o)
  /\ npc = "layer" => Blocks(f[op], Pow[LAYERS + 1 - layer], Values(given[op]))
  /\ npc = "block" => Separated(f[op], Distance(layer), start, Values(given[op]))
  /\ npc = "butterfly" => /\ Separated(f[op], Distance(layer), j, Values(given[op]))
                          /\ zeta = Zetas[k - 1]

\* The layer in terms of the lemmas.
InLayer(a, v) ==
  /\ a = LAYERS - layer /\ a \in Nat /\ a < LAYERS
  /\ v = Distance(layer) /\ v = Pow[a] /\ v \in Nat /\ v >= 1
  /\ Pow[layer - 1] \in Nat /\ Pow[layer - 1] = Pow[LAYERS - 1 - a]
  /\ Pow[layer] \in Nat /\ Pow[layer] = Pow[LAYERS - a] /\ Pow[layer] = 2 * Pow[layer - 1]
  /\ N = 2 * v * Pow[layer - 1]
  /\ Pow[LAYERS + 1 - layer] = 2 * v

LEMMA LayerIs ==
  ASSUME layer \in 1 .. LAYERS
  PROVE  \E a, v : InLayer(a, v)
<1>1. layer \in Nat /\ layer >= 1 /\ layer <= LAYERS /\ LAYERS \in Nat
  BY PowFact
<1>2. PICK a \in Nat : a = LAYERS - layer /\ a < LAYERS
  BY <1>1
<1>3. LAYERS - 1 - a = layer - 1 /\ LAYERS - a = layer /\ LAYERS + 1 - layer = a + 1
      /\ layer - 1 \in Nat /\ layer - 1 < LAYERS /\ (layer - 1) + 1 = layer /\ layer - 1 <= LAYERS
  BY <1>1, <1>2
<1>4. Pow[a] \in Nat /\ Pow[a] >= 1 /\ Pow[a + 1] = 2 * Pow[a] /\ 2 * Pow[a] * Pow[LAYERS - 1 - a] = N
  BY <1>2, LengthFact
<1>5. Pow[layer - 1] \in Nat /\ Pow[layer] \in Nat /\ Pow[layer] = 2 * Pow[layer - 1]
  BY <1>1, <1>3, PowFact
<1>6. Distance(layer) = Pow[a]
  BY <1>2 DEF Distance
<1>7. InLayer(a, Pow[a])
  BY <1>2, <1>3, <1>4, <1>5, <1>6 DEF InLayer
<1>8. QED  BY <1>7

LEMMA BlockNumber ==
  ASSUME NEW v \in Nat, v >= 1, NEW P \in Nat, NEW s \in Nat, NEW B \in Int, s = 2 * v * B, s < 2 * v * P
  PROVE  B \in Nat /\ B < P
<1>1. ASSUME B < 0 PROVE FALSE
  <2>1. PICK d \in Nat : B = -(1 + d)
    BY <1>1
  <2>2. 2 * v * B = -(2 * v) - 2 * (v * d)
    BY <2>1
  <2>3. v * d \in Nat
    OBVIOUS
  <2>4. QED  BY <2>2, <2>3
<1>2. ASSUME B >= P PROVE FALSE
  <2>1. PICK d \in Nat : B = P + d
    BY <1>2
  <2>2. 2 * v * B = 2 * v * P + 2 * (v * d)
    BY <2>1
  <2>3. v * d \in Nat /\ 2 * v * P \in Nat
    OBVIOUS
  <2>4. QED  BY <2>2, <2>3
<1>3. QED  BY <1>1, <1>2

\* The block of a forward butterfly.
ForwardAt(a, v, B) ==
  InLayer(a, v) /\ B \in Nat /\ B < Pow[LAYERS - 1 - a] /\ start = 2 * v * B /\ Factor(a, B) = k - 1

LEMMA ForwardPlace ==
  ASSUME NttInv, npc = "butterfly"
  PROVE  \E a, v, B : ForwardAt(a, v, B)
<1>1. layer \in 1 .. LAYERS /\ start \in Nat /\ k \in Int
  BY DEF NttInv, NttInBounds, ForwardBounds, NttIndices
<1>2. PICK a, v : InLayer(a, v)
  BY <1>1, LayerIs
<1>3. v \in Nat /\ v >= 1 /\ Pow[layer - 1] \in Nat /\ N = 2 * v * Pow[layer - 1] /\ v = Distance(layer)
      /\ Pow[layer - 1] = Pow[LAYERS - 1 - a]
  BY <1>2 DEF InLayer
<1>4. 2 * v * k = start + N + 2 * v /\ start + 2 * v <= N
  BY <1>3 DEF NttInv, NttInBounds, ForwardBounds
<1>5. PICK P \in Nat, B \in Int : P = Pow[layer - 1] /\ B = k - 1 - P
  BY <1>1, <1>3
<1>6. 2 * v * B = start
  <2>1. 2 * v * B = 2 * v * k - 2 * v - 2 * v * P
    BY <1>1, <1>3, <1>5
  <2>2. 2 * v * k \in Int /\ 2 * v * P \in Int /\ 2 * v \in Int /\ N \in Int
    BY <1>1, <1>3, DegreeFact
  <2>3. QED  BY <1>1, <1>3, <1>4, <1>5, <2>1, <2>2
<1>7. start < 2 * v * P
  BY <1>1, <1>3, <1>4, <1>5, DegreeFact
<1>8. B \in Nat /\ B < P
  BY <1>1, <1>3, <1>6, <1>7, BlockNumber
<1>9. Factor(a, B) = k - 1
  BY <1>1, <1>3, <1>5 DEF Factor
<1>10. QED  BY <1>2, <1>3, <1>5, <1>6, <1>8, <1>9 DEF ForwardAt

\* What a butterfly writes.
TwoOf(p, c, d, x, y) ==
  p \in Polynomial /\ c \in Nat /\ d \in Nat /\ d >= 1 /\ c + d < N /\ x \in Int /\ y \in Int

Written(p, c, d, x, y) == [p EXCEPT ![c] = x, ![c + d] = y]

LEMMA PairUpdate ==
  ASSUME NEW p, NEW c, NEW d, NEW x, NEW y, TwoOf(p, c, d, x, y)
  PROVE  /\ Written(p, c, d, x, y) \in Polynomial
         /\ Written(p, c, d, x, y)[c] = x /\ Written(p, c, d, x, y)[c + d] = y
         /\ \A z \in Coefficients : z # c /\ z # c + d => Written(p, c, d, x, y)[z] = p[z]
<1>1. c \in Coefficients /\ c + d \in Coefficients /\ c # c + d
  BY CoefficientFact, DegreeFact DEF TwoOf
<1>2. QED  BY <1>1 DEF Polynomial, TwoOf, Written

LEMMA PairPlace ==
  ASSUME NEW a, NEW v, NEW B, NEW y \in Nat,
         a \in Nat, a < LAYERS, v \in Nat, v = Pow[a], v >= 1, B \in Nat, B < Pow[LAYERS - 1 - a],
         2 * v * B <= y, y < 2 * v * B + v
  PROVE  /\ AtPair(a, v, B, y)
         /\ y < N /\ y + v < N /\ y \in Coefficients /\ y + v \in Coefficients
<1>1. AtPair(a, v, B, y)
  BY DEF AtPair
<1>2. 2 * v * Pow[LAYERS - 1 - a] = N /\ Pow[LAYERS - 1 - a] \in Nat
  BY LengthFact
<1>3. PICK P \in Nat, d \in Nat : P = Pow[LAYERS - 1 - a] /\ P = B + 1 + d
  BY <1>2
<1>4. 2 * v * P = 2 * v * B + 2 * v + 2 * (v * d)
  BY <1>3
<1>5. v * d \in Nat /\ 2 * v * B \in Nat
  OBVIOUS
<1>6. y + v < N /\ y < N
  BY <1>2, <1>3, <1>4, <1>5
<1>7. QED  BY <1>1, <1>6, CoefficientFact

LEMMA ButterflyIs ==
  ASSUME NttInv, ForwardIs, NttButterfly
  PROVE  /\ Separated(f'[op], Distance(layer), j', Values(given[op]))
         /\ \A o \in Operands : o # op => f'[o] = f[o]
<1>1. npc = "butterfly" /\ NttIndices
  BY DEF NttButterfly, NttInv, NttInBounds
<1>2. PICK a, v, B : ForwardAt(a, v, B)
  BY <1>1, ForwardPlace
<1>3. /\ a \in Nat /\ a < LAYERS /\ v = Distance(layer) /\ v = Pow[a] /\ v \in Nat /\ v >= 1
      /\ B \in Nat /\ B < Pow[LAYERS - 1 - a] /\ start = 2 * v * B /\ Factor(a, B) = k - 1
  BY <1>2 DEF ForwardAt, InLayer
<1>4. /\ f[op] \in Polynomial /\ op \in Operands /\ f \in [Operands -> Polynomial] /\ j \in Nat
      /\ start <= j /\ j < start + v /\ zeta = Zetas[k - 1] /\ j' = j + 1
      /\ Separated(f[op], v, j, Values(given[op]))
  BY <1>1, <1>3 DEF NttIndices, NttInv, NttInBounds, ForwardBounds, ForwardIs, NttButterfly
<1>5. AtPair(a, v, B, j) /\ j + v < N /\ j \in Coefficients /\ j + v \in Coefficients
  BY <1>3, <1>4, PairPlace
<1>6. PICK p : p = f[op]
  OBVIOUS
<1>7. p \in Polynomial /\ p[j] \in Int /\ p[j + v] \in Int
  BY <1>4, <1>5, <1>6 DEF Polynomial
<1>8. PICK t : t = MontgomeryReduce(p[j + v] * zeta)
  OBVIOUS
<1>9. t \in Int /\ Same(t, p[j + v] * Root(BitRev(Factor(a, B))))
  <2>1. k - 1 \in Nat /\ k - 1 >= 1 /\ k - 1 < N
    <3>1. 2 * v * Pow[LAYERS - 1 - a] = N /\ Pow[LAYERS - 1 - a] \in Nat /\ LAYERS - 1 - a \in Nat
          /\ LAYERS - 1 - a < LAYERS
      BY <1>3, LengthFact
    <3>2. Pow[LAYERS - 1 - a] >= 1 /\ Factor(a, B) = Pow[LAYERS - 1 - a] + B
      BY <3>1, PowFact DEF Factor
    <3>3. PICK P \in Nat, d \in Nat : P = Pow[LAYERS - 1 - a] /\ v = 1 + d
      <4>1. v - 1 \in Nat /\ v = 1 + (v - 1)
        BY <1>3
      <4>2. QED  BY <3>1, <4>1
    <3>4. 2 * v * P = 2 * P + 2 * (d * P)
      BY <3>3
    <3>5. d * P \in Nat
      OBVIOUS
    <3>6. QED  BY <1>3, <3>1, <3>2, <3>3, <3>4, <3>5
  <2>2. QED  BY <1>3, <1>4, <1>7, <1>8, <2>1, TwiddleIs
<1>10. f'[op] = [p EXCEPT ![j] = p[j] + t, ![j + v] = p[j] - t]
       /\ \A o \in Operands : o # op => f'[o] = f[o]
  BY <1>3, <1>4, <1>6, <1>8 DEF NttButterfly
<1>11. p[j] + t \in Int /\ p[j] - t \in Int
  BY <1>7, <1>9
<1>12. PICK p2 : p2 = f'[op]
  OBVIOUS
<1>13. /\ p2 \in Polynomial /\ p2[j] = p[j] + t /\ p2[j + v] = p[j] - t
       /\ \A z \in Coefficients : z # j /\ z # j + v => p2[z] = p[z]
  <2>1. TwoOf(p, j, v, p[j] + t, p[j] - t)
    BY <1>3, <1>4, <1>5, <1>7, <1>11 DEF TwoOf
  <2>2. p2 = Written(p, j, v, p[j] + t, p[j] - t)
    BY <1>10, <1>12 DEF Written
  <2>3. QED  BY <2>1, <2>2, PairUpdate
<1>14. ForwardPair(a, v, B, j, p, t, p2)
  BY <1>7, <1>9, <1>13 DEF ForwardPair
<1>15. Separated(p2, v, j + 1, Values(given[op]))
  BY <1>4, <1>5, <1>6, <1>14, ForwardStep
<1>16. QED  BY <1>3, <1>4, <1>10, <1>12, <1>15

\* The parts that a step within the transform of an operand leaves alone.
OthersAre ==
  /\ given \in [Operands -> Polynomial]
  /\ Forward => \A o \in Operands : o > op => f[o] = given[o]
  /\ \A o \in Operands : ~Forward \/ o < op => Transformed(o)

LEMMA OthersStay ==
  ASSUME ForwardIs, NttInv, UNCHANGED <<kind, op, given>>, Forward, Forward',
         \A o \in Operands : o # op => f'[o] = f[o]
  PROVE  OthersAre'
<1>1. Operands' = Operands /\ op \in Operands /\ \A o \in Operands : o \in Nat
  BY DEF Operands, Pairs, NttInv, NttInBounds, NttIndices
<1>2. \A o \in Operands : o < op => (Transformed(o) <=> Transformed(o)')
  BY <1>1 DEF Transformed
<1>3. /\ given \in [Operands -> Polynomial]
      /\ \A o \in Operands : o > op => f[o] = given[o]
      /\ \A o \in Operands : o < op => Transformed(o)
  BY DEF ForwardIs
<1>4. \A o \in Operands : o > op \/ o < op => o # op
  BY <1>1
<1>5. QED  BY <1>1, <1>2, <1>3, <1>4 DEF OthersAre

LEMMA ForwardIsSteps ==
  ASSUME NttInv, ForwardIs, NttLayer \/ NttBlock \/ NttButterfly \/ NttBlockEnd \/ NttLayerEnd
  PROVE  ForwardIs'
<1>1. /\ UNCHANGED <<kind, op, given>>
      /\ npc \in {"layer", "block", "butterfly"} /\ npc' \in {"layer", "block", "butterfly"}
      /\ NttIndices
  BY DEF NttLayer, NttBlock, NttButterfly, NttBlockEnd, NttLayerEnd, NttInv, NttInBounds
<1>2. Forward /\ Forward'
  BY <1>1 DEF Forward
<1>3. \A o \in Operands : o # op => f'[o] = f[o]
  BY ButterflyIs DEF NttLayer, NttBlock, NttBlockEnd, NttLayerEnd
<1>4. OthersAre'
  BY <1>1, <1>2, <1>3, OthersStay
<1> DEFINE Next == /\ npc' = "layer" => Blocks(f'[op], Pow[LAYERS + 1 - layer'], Values(given[op]))
                   /\ npc' = "block" => Separated(f'[op], Distance(layer'), start', Values(given[op]))
                   /\ npc' = "butterfly" => /\ Separated(f'[op], Distance(layer'), j', Values(given[op]))
                                            /\ zeta' = Zetas[k' - 1]
<1>5. Next => ForwardIs'
  BY <1>1, <1>4 DEF ForwardIs, OthersAre, Distance
<1>6. f[op] \in Polynomial /\ layer \in 0 .. LAYERS + 1 /\ start \in Nat /\ j \in Nat /\ k \in Int /\ LAYERS \in Nat
  BY <1>1, PowFact DEF NttIndices
<1>7. npc \in {"block", "butterfly"} => layer \in 1 .. LAYERS
  BY DEF NttInv, NttInBounds, ForwardBounds
<1>8. CASE NttLayer
  <2>1. layer \in 1 .. LAYERS
    BY <1>6, <1>8 DEF NttLayer, NttInv, NttInBounds, ForwardBounds
  <2>2. PICK a, v : InLayer(a, v)
    BY <2>1, LayerIs
  <2>3. a \in Nat /\ a < LAYERS /\ v \in Nat /\ v = Pow[a] /\ v = Distance(layer) /\ Pow[LAYERS + 1 - layer] = 2 * v
    BY <2>2 DEF InLayer
  <2>4. Blocks(f[op], 2 * v, Values(given[op]))
    BY <1>8, <2>3 DEF NttLayer, ForwardIs
  <2>5. Separated(f[op], v, 0, Values(given[op]))
    BY <1>6, <2>3, <2>4, LayerStarts
  <2>6. QED  BY <1>5, <1>8, <2>3, <2>5 DEF NttLayer
<1>9. CASE NttBlock
  <2>1. k' - 1 = k /\ zeta' = Zetas[k] /\ j' = start /\ npc' = "butterfly" /\ UNCHANGED <<f, layer>>
    BY <1>6, <1>9 DEF NttBlock
  <2>2. Separated(f[op], Distance(layer), start, Values(given[op]))
    BY <1>9 DEF NttBlock, ForwardIs
  <2>3. QED  BY <1>5, <2>1, <2>2
<1>10. CASE NttButterfly
  <2>1. Separated(f'[op], Distance(layer), j', Values(given[op]))
    BY <1>10, ButterflyIs
  <2>2. zeta' = Zetas[k' - 1] /\ layer' = layer /\ npc' = "butterfly"
    BY <1>10 DEF NttButterfly, ForwardIs
  <2>3. QED  BY <1>5, <2>1, <2>2
<1>11. CASE NttBlockEnd
  <2>1. npc = "butterfly" /\ npc' = "block" /\ UNCHANGED <<f, layer>> /\ start' = start + 2 * Distance(layer)
        /\ j >= start + Distance(layer)
    BY <1>11 DEF NttBlockEnd
  <2>2. PICK a, v, B : ForwardAt(a, v, B)
    BY <2>1, ForwardPlace
  <2>3. /\ a \in Nat /\ a < LAYERS /\ v = Distance(layer) /\ v = Pow[a] /\ v \in Nat
        /\ B \in Nat /\ start = 2 * v * B
    BY <2>2 DEF ForwardAt, InLayer
  <2>4. j <= start + v
    BY <2>1, <2>3 DEF NttInv, NttInBounds, ForwardBounds
  <2>5. j = start + v
    <3>1. j >= start + v
      BY <2>1, <2>3
    <3>2. j \in Nat /\ start \in Nat /\ v \in Nat
      BY <1>6, <2>3
    <3>3. QED  BY ONLY <2>4, <3>1, <3>2
  <2>6. Separated(f[op], v, start + v, Values(given[op]))
    BY <2>1, <2>3, <2>5 DEF ForwardIs
  <2>7. Separated(f[op], v, start + 2 * v, Values(given[op]))
    BY <1>6, <2>3, <2>6, BlockSkip
  <2>8. QED  BY <1>5, <2>1, <2>3, <2>7
<1>12. CASE NttLayerEnd
  <2>1. npc = "block" /\ npc' = "layer" /\ UNCHANGED f /\ layer' = layer + 1 /\ start >= N /\ layer \in 1 .. LAYERS
    BY <1>7, <1>12 DEF NttLayerEnd
  <2>2. PICK a, v : InLayer(a, v)
    BY <2>1, LayerIs
  <2>3. a \in Nat /\ a < LAYERS /\ v \in Nat /\ v = Pow[a] /\ v = Distance(layer) /\ a = LAYERS - layer
    BY <2>2 DEF InLayer
  <2>4. Separated(f[op], v, start, Values(given[op]))
    BY <2>1, <2>3 DEF ForwardIs
  <2>5. Blocks(f[op], v, Values(given[op]))
    BY <1>6, <2>1, <2>3, <2>4, LayerEnds
  <2>6. LAYERS + 1 - layer' = a
    BY <1>6, <2>1, <2>3
  <2>7. QED  BY <1>5, <2>1, <2>3, <2>5, <2>6
<1>13. QED  BY <1>8, <1>9, <1>10, <1>11, <1>12

\* The next operand, or the products.
LEMMA ForwardIsEnd ==
  ASSUME NttInv, ForwardIs, NttEnd
  PROVE  ForwardIs'
<1>1. /\ npc = "layer" /\ layer > LAYERS /\ layer' = 1 /\ UNCHANGED <<kind, f, given>>
      /\ IF op + 1 < 2 * Pairs THEN op' = op + 1 /\ npc' = "layer" ELSE op' = op /\ npc' = "product"
  BY DEF NttEnd
<1>2. /\ layer \in 0 .. LAYERS + 1 /\ op \in Operands /\ f \in [Operands -> Polynomial] /\ LAYERS \in Nat
      /\ kind = "acc" => op >= L
  BY PowFact DEF NttInv, NttInBounds, NttIndices
<1>3. Operands' = Operands /\ Pairs' = Pairs /\ (\A o \in Operands : Transformed(o)' <=> Transformed(o))
  BY <1>1 DEF Operands, Pairs, Transformed
<1>4. Forward /\ \A o \in Operands : o \in Int /\ o < 2 * Pairs
  BY <1>1, BoundFacts DEF Forward, Operands, Pairs
<1>5. /\ given \in [Operands -> Polynomial] /\ \A o \in Operands : o > op => f[o] = given[o]
      /\ \A o \in Operands : o < op => Transformed(o)
      /\ Blocks(f[op], Pow[LAYERS + 1 - layer], Values(given[op]))
  BY <1>1, <1>4 DEF ForwardIs
<1>6. Transformed(op)
  <2>1. LAYERS + 1 - layer = 0
    BY <1>1, <1>2
  <2>2. Blocks(f[op], 1, Values(given[op])) /\ f[op] \in Polynomial
    BY <1>2, <1>5, <2>1, PowFact
  <2>3. \A x \in Coefficients : Mod(f[op][x]) = Mod(Values(given[op])[x])
    BY <2>2, OneBlock
  <2>4. ~(kind = "acc" /\ op < L)
    BY <1>2, <1>4, BoundFacts
  <2>5. QED  BY <2>3, <2>4 DEF Transformed
<1>7. \A o \in Operands : o <= op => Transformed(o)
  BY <1>2, <1>4, <1>5, <1>6
<1>8. CASE op + 1 < 2 * Pairs
  <2>1. op' = op + 1 /\ npc' = "layer" /\ Forward'
    BY <1>1, <1>8 DEF Forward
  <2>2. op + 1 \in Operands /\ op + 1 > op
    <3>1. Pairs \in Nat /\ op \in Nat
      BY <1>2, BoundFacts DEF Pairs, Operands
    <3>2. QED  BY <1>8, <3>1 DEF Operands
  <2>3. f[op + 1] = given[op + 1] /\ given[op + 1] \in Polynomial
    BY <1>5, <2>2
  <2>4. Blocks(f[op + 1], N, Values(given[op + 1]))
    <3>1. \A x \in Coefficients : Mod(Values(f[op + 1])[x]) = Mod(Values(given[op + 1])[x])
      BY <2>3
    <3>2. QED  BY <2>3, <3>1, WholeBlock
  <2>5. Pow[LAYERS + 1 - layer'] = N
    <3>1. LAYERS + 1 - layer' = LAYERS
      BY <1>1, <1>2
    <3>2. QED  BY <3>1, PowFact
  <2>6. \A o \in Operands : o < op + 1 => o <= op
    BY <1>2, <1>4
  <2>7. \A o \in Operands : o > op + 1 => o > op
    BY <1>2, <1>4
  <2>8. QED  BY <1>1, <1>3, <1>5, <1>7, <2>1, <2>4, <2>5, <2>6, <2>7 DEF ForwardIs
<1>9. CASE ~(op + 1 < 2 * Pairs)
  <2>1. npc' = "product" /\ ~Forward'
    BY <1>1, <1>9 DEF Forward
  <2>2. \A o \in Operands : o <= op
    <3>1. Pairs \in Nat
      BY BoundFacts DEF Pairs
    <3>2. QED  BY <1>2, <1>4, <1>9, <3>1
  <2>3. QED  BY <1>1, <1>3, <1>5, <1>7, <2>1, <2>2 DEF ForwardIs
<1>10. QED  BY <1>8, <1>9

LEMMA ForwardIsStays ==
  ASSUME ForwardIs, UNCHANGED <<kind, f, given>>, ~Forward, ~Forward'
  PROVE  ForwardIs'
BY DEF ForwardIs, Forward, Transformed, Operands, Pairs

-------------------------------------------------------------------------------
(***************************************************************************)
(* The program: the products, whose reduction divides by R.                *)
(***************************************************************************)
ProductTerms(x) == [m \in 0 .. Pairs - 1 |-> f[m][x] * f[Pairs + m][x]]
ProductAt(x) == Total(Pairs, ProductTerms(x))

ProductIs ==
  npc = "product" => /\ \A x \in Coefficients : x < i => Same(R * h[x], ProductAt(x))
                     /\ i < N => sum = Total(l, ProductTerms(i))

LEMMA ProductFact ==
  ASSUME NttIndices, NEW x \in Coefficients
  PROVE  /\ Pairs \in Nat
         /\ \A m \in Nat : m < Pairs => ProductTerms(x)[m] = f[m][x] * f[Pairs + m][x] /\ ProductTerms(x)[m] \in Int
         /\ ProductAt(x) \in Int
<1>1. Pairs \in Nat /\ f \in [Operands -> Polynomial]
  BY BoundFacts DEF Pairs, NttIndices
<1>2. ASSUME NEW m \in Nat, m < Pairs
      PROVE  ProductTerms(x)[m] = f[m][x] * f[Pairs + m][x] /\ ProductTerms(x)[m] \in Int
  <2>1. m \in Operands /\ Pairs + m \in Operands /\ m \in 0 .. Pairs - 1
    BY <1>1, <1>2 DEF Operands
  <2>2. f[m][x] \in Int /\ f[Pairs + m][x] \in Int
    BY <1>1, <2>1 DEF Polynomial
  <2>3. QED  BY <2>1, <2>2 DEF ProductTerms
<1>3. QED  BY <1>1, <1>2, TotalInt DEF ProductAt

LEMMA ProductsStay ==
  ASSUME UNCHANGED <<kind, f>>
  PROVE  \A x : ProductTerms(x)' = ProductTerms(x) /\ ProductAt(x)' = ProductAt(x)
BY DEF ProductTerms, ProductAt, Pairs

LEMMA RFact == R \in Int
BY NttAssumption

LEMMA ProductIsSteps ==
  ASSUME NttInv, ProductIs, NttEnd \/ Accumulate64 \/ ReduceSum
  PROVE  ProductIs'
<1>1. NttIndices /\ N \in Nat /\ h \in Polynomial /\ i \in Nat /\ l \in Nat /\ Pairs \in Nat
  BY DegreeFact, BoundFacts DEF NttInv, NttInBounds, NttIndices, Pairs
<1>2. \A x : ProductTerms(x)' = ProductTerms(x) /\ ProductAt(x)' = ProductAt(x)
  BY ProductsStay DEF NttEnd, Accumulate64, ReduceSum
<1>3. CASE NttEnd
  <2>1. i' = 0 /\ l' = 0 /\ sum' = 0 /\ h' = h
    BY <1>3 DEF NttEnd
  <2>2. \A x \in Coefficients : ~(x < 0)
    BY CoefficientFact
  <2>3. Total(0, ProductTerms(0)) = 0
    BY TotalNext
  <2>4. QED  BY <1>2, <2>1, <2>2, <2>3 DEF ProductIs
<1>4. CASE Accumulate64
  <2>1. /\ npc = "product" /\ i < N /\ l < Pairs /\ sum' = sum + f[l][i] * f[Pairs + l][i]
        /\ l' = l + 1 /\ i' = i /\ h' = h
    BY <1>4 DEF Accumulate64
  <2>2. i \in Coefficients
    BY <1>1, <2>1, CoefficientFact
  <2>3. ProductTerms(i)[l] = f[l][i] * f[Pairs + l][i]
    BY <1>1, <2>1, <2>2, ProductFact
  <2>4. Total(l + 1, ProductTerms(i)) = Total(l, ProductTerms(i)) + ProductTerms(i)[l]
    BY <1>1, TotalNext
  <2>5. sum = Total(l, ProductTerms(i)) /\ \A x \in Coefficients : x < i => Same(R * h[x], ProductAt(x))
    BY <2>1 DEF ProductIs
  <2>6. sum' = Total(l', ProductTerms(i))
    BY <2>1, <2>3, <2>4, <2>5
  <2>7. QED  BY <1>2, <2>1, <2>5, <2>6 DEF ProductIs
<1>5. CASE ReduceSum
  <2>1. /\ npc = "product" /\ i < N /\ l = Pairs /\ h' = [h EXCEPT ![i] = MontgomeryReduce(sum)]
        /\ l' = 0 /\ i' = i + 1 /\ sum' = 0
    BY <1>5 DEF ReduceSum
  <2>2. i \in Coefficients
    BY <1>1, <2>1, CoefficientFact
  <2>3. sum = ProductAt(i) /\ sum \in Int /\ \A x \in Coefficients : x < i => Same(R * h[x], ProductAt(x))
    BY <1>1, <2>1, <2>2, ProductFact DEF ProductIs, ProductAt
  <2>4. MontgomeryReduce(sum) \in Int /\ Same(R * MontgomeryReduce(sum), sum)
    BY <2>3, MontgomeryDivides
  <2>5. h'[i] = MontgomeryReduce(sum) /\ \A x \in Coefficients : x # i => h'[x] = h[x]
    BY <1>1, <2>1, <2>2 DEF Polynomial
  <2>6. \A x \in Coefficients : x < i + 1 => x < i \/ x = i
    BY <1>1, CoefficientFact
  <2>7. \A x \in Coefficients : x < i => x # i
    BY <1>1, CoefficientFact
  <2>8. \A x \in Coefficients : x < i' => Same(R * h'[x], ProductAt(x))
    BY <2>1, <2>3, <2>4, <2>5, <2>6, <2>7
  <2>9. \A y : Total(0, ProductTerms(y)) = 0
    BY TotalNext
  <2>10. QED  BY <1>2, <2>1, <2>8, <2>9 DEF ProductIs
<1>6. QED  BY <1>3, <1>4, <1>5

-------------------------------------------------------------------------------
(***************************************************************************)
(* The program: the inverse transform, which multiplies by 2 in each       *)
(* layer.                                                                  *)
(***************************************************************************)
RI == CHOOSE e \in Int : Same(R * e, 1)     \* 1 / R

LEMMA RIFact == RI \in Int /\ Same(R * RI, 1)
BY Inverses DEF RI

Scaled(d) == [x \in Coefficients |-> d * (RI * ProductAt(x))]

InverseIs ==
  /\ npc = "invlayer" => Blocks(h, Distance(layer), Scaled(Distance(layer)))
  /\ npc = "invblock" => Joined(h, Distance(layer), start, Scaled(2 * Distance(layer)))
  /\ npc = "invbutterfly" => /\ Joined(h, Distance(layer), j, Scaled(2 * Distance(layer)))
                             /\ zeta = -Zetas[k + 1]

\* The quotient by R.
LEMMA Quotient ==
  ASSUME NEW x \in Int
  PROVE  RI * x \in Int /\ Same(R * (RI * x), x)
<1>1. RI \in Int /\ R \in Int /\ Same(R * RI, 1)
  BY RIFact, RFact
<1>2. PICK e \in Int, r \in Int : e = RI /\ r = R
  BY <1>1
<1>3. Same((r * e) * x, 1 * x)
  <2>1. r * e \in Int /\ 1 \in Int /\ Same(r * e, 1) /\ Same(x, x)
    BY <1>1, <1>2, SameRefl
  <2>2. QED  BY <2>1, SameTimes
<1>4. (r * e) * x = r * (e * x) /\ 1 * x = x /\ e * x \in Int
  OBVIOUS
<1>5. QED  BY <1>2, <1>3, <1>4

LEMMA ProductIsEnd ==
  ASSUME NttInv, ProductIs, ProductEnd
  PROVE  InverseIs'
<1>1. /\ NttIndices /\ N \in Nat /\ h \in Polynomial /\ i \in Nat
      /\ npc = "product" /\ i >= N /\ npc' = "invlayer" /\ layer' = LAYERS /\ h' = h
      /\ UNCHANGED <<kind, f>>
  BY DegreeFact DEF NttInv, NttInBounds, NttIndices, ProductEnd
<1>2. \A x : ProductAt(x)' = ProductAt(x)
  BY <1>1, ProductsStay
<1>3. Distance(LAYERS) = 1
  <2>1. LAYERS - LAYERS = 0
    BY PowFact
  <2>2. QED  BY <2>1, PowFact DEF Distance
<1>4. ASSUME NEW x \in Coefficients PROVE Mod(h[x]) = Mod(Scaled(1)[x])
  <2>1. x < i
    BY <1>1, CoefficientFact
  <2>2. Same(R * h[x], ProductAt(x)) /\ h[x] \in Int /\ ProductAt(x) \in Int
    BY <1>1, <2>1, ProductFact DEF ProductIs, Polynomial
  <2>3. RI * ProductAt(x) \in Int /\ Same(R * (RI * ProductAt(x)), ProductAt(x))
    BY <2>2, Quotient
  <2>4. R * h[x] \in Int /\ R * (RI * ProductAt(x)) \in Int
    BY <2>2, <2>3, RFact
  <2>5. Same(ProductAt(x), R * (RI * ProductAt(x)))
    BY <2>2, <2>3, <2>4, SameSym
  <2>6. Same(R * h[x], R * (RI * ProductAt(x)))
    BY <2>2, <2>4, <2>5, SameTrans
  <2>7. Same(h[x], RI * ProductAt(x))
    BY <2>2, <2>3, <2>6, RFact, Cancel
  <2>8. Scaled(1)[x] = RI * ProductAt(x)
    BY <2>3 DEF Scaled
  <2>9. QED  BY <2>2, <2>3, <2>7, <2>8, ModFact
<1>5. Blocks(h, 1, Scaled(1))
  BY <1>1, <1>4, OneBlock
<1>6. Scaled(1)' = Scaled(1)
  BY <1>2 DEF Scaled
<1>7. Distance(layer)' = 1
  BY <1>1, <1>3 DEF Distance
<1>8. Scaled(Distance(layer))' = Scaled(1)
  BY <1>2, <1>7 DEF Scaled
<1>9. (Blocks(h, Distance(layer), Scaled(Distance(layer))))'
  BY <1>1, <1>5, <1>7, <1>8
<1>10. QED  BY <1>1, <1>9 DEF InverseIs

\* The block of an inverse butterfly.
InverseAt(a, v, B) ==
  InLayer(a, v) /\ B \in Nat /\ B < Pow[LAYERS - 1 - a] /\ start = 2 * v * B /\ InvFactor(a, B) = k + 1

LEMMA InversePlace ==
  ASSUME NttInv, npc = "invbutterfly"
  PROVE  \E a, v, B : InverseAt(a, v, B)
<1>1. layer \in 1 .. LAYERS /\ start \in Nat /\ k \in Int
  BY DEF NttInv, NttInBounds, InverseBounds, NttIndices
<1>2. PICK a, v : InLayer(a, v)
  BY <1>1, LayerIs
<1>3. /\ v \in Nat /\ v >= 1 /\ Pow[layer - 1] \in Nat /\ N = 2 * v * Pow[layer - 1] /\ v = Distance(layer)
      /\ Pow[layer - 1] = Pow[LAYERS - 1 - a] /\ Pow[layer] = Pow[LAYERS - a] /\ Pow[layer] = 2 * Pow[layer - 1]
  BY <1>2 DEF InLayer
<1>4. 2 * v * k + start = 2 * N - 4 * v /\ start + 2 * v <= N
  BY <1>3 DEF NttInv, NttInBounds, InverseBounds
<1>5. PICK P \in Nat, B \in Int : P = Pow[layer - 1] /\ B = 2 * P - 2 - k
  BY <1>1, <1>3
<1>6. 2 * v * B = start
  <2>1. 2 * v * B = 2 * (2 * v * P) - 4 * v - 2 * v * k
    BY <1>1, <1>3, <1>5
  <2>2. 2 * v * k \in Int /\ 2 * v * P \in Int /\ 2 * v \in Int /\ N \in Int
    BY <1>1, <1>3, DegreeFact
  <2>3. QED  BY <1>1, <1>3, <1>4, <1>5, <2>1, <2>2
<1>7. start < 2 * v * P
  BY <1>1, <1>3, <1>4, <1>5, DegreeFact
<1>8. B \in Nat /\ B < P
  BY <1>1, <1>3, <1>6, <1>7, BlockNumber
<1>9. InvFactor(a, B) = k + 1
  BY <1>1, <1>3, <1>5 DEF InvFactor
<1>10. QED  BY <1>2, <1>3, <1>5, <1>6, <1>8, <1>9 DEF InverseAt

LEMMA InvButterflyIs ==
  ASSUME NttInv, InverseIs, InvButterfly
  PROVE  Joined(h', Distance(layer), j', Scaled(2 * Distance(layer)))
<1>1. npc = "invbutterfly" /\ NttIndices
  BY DEF InvButterfly, NttInv, NttInBounds
<1>2. PICK a, v, B : InverseAt(a, v, B)
  BY <1>1, InversePlace
<1>3. /\ a \in Nat /\ a < LAYERS /\ v = Distance(layer) /\ v = Pow[a] /\ v \in Nat /\ v >= 1
      /\ B \in Nat /\ B < Pow[LAYERS - 1 - a] /\ start = 2 * v * B /\ InvFactor(a, B) = k + 1
  BY <1>2 DEF InverseAt, InLayer
<1>4. /\ h \in Polynomial /\ j \in Nat
      /\ start <= j /\ j < start + v /\ zeta = -Zetas[k + 1] /\ j' = j + 1
      /\ Joined(h, v, j, Scaled(2 * Distance(layer)))
  BY <1>1, <1>3 DEF NttIndices, NttInv, NttInBounds, InverseBounds, InverseIs, InvButterfly
<1>5. AtPair(a, v, B, j) /\ j + v < N /\ j \in Coefficients /\ j + v \in Coefficients
  BY <1>3, <1>4, PairPlace
<1>7. h[j] \in Int /\ h[j + v] \in Int
  BY <1>4, <1>5 DEF Polynomial
<1>8. PICK r : r = MontgomeryReduce((h[j] - h[j + v]) * zeta)
  OBVIOUS
<1>9. r \in Int /\ Same(r, (h[j] - h[j + v]) * (-Root(BitRev(InvFactor(a, B)))))
  <2>1. k + 1 \in Nat /\ k + 1 >= 1 /\ k + 1 < N
    BY <1>3, FactorsCancel
  <2>2. h[j] - h[j + v] \in Int
    BY <1>7
  <2>3. QED  BY <1>3, <1>4, <1>8, <2>1, <2>2, TwiddleIs
<1>10. h' = [h EXCEPT ![j] = h[j] + h[j + v], ![j + v] = r]
  BY <1>3, <1>8 DEF InvButterfly
<1>11. h[j] + h[j + v] \in Int
  BY <1>7
<1>12. PICK p2 : p2 = h'
  OBVIOUS
<1>13. /\ p2 \in Polynomial /\ p2[j] = h[j] + h[j + v] /\ p2[j + v] = r
       /\ \A z \in Coefficients : z # j /\ z # j + v => p2[z] = h[z]
  <2>1. TwoOf(h, j, v, h[j] + h[j + v], r)
    BY <1>3, <1>4, <1>5, <1>9, <1>11 DEF TwoOf
  <2>2. p2 = Written(h, j, v, h[j] + h[j + v], r)
    BY <1>10, <1>12 DEF Written
  <2>3. QED  BY <2>1, <2>2, PairUpdate
<1>14. InversePair(a, v, B, j, h, r, p2)
  BY <1>4, <1>9, <1>13 DEF InversePair
<1>15. Joined(p2, v, j + 1, Scaled(2 * Distance(layer)))
  BY <1>4, <1>5, <1>14, InverseStep
<1>16. QED  BY <1>3, <1>4, <1>12, <1>15

LEMMA InverseIsSteps ==
  ASSUME NttInv, InverseIs, InvLayer \/ InvBlock \/ InvButterfly \/ InvBlockEnd \/ InvLayerEnd
  PROVE  InverseIs'
<1>1. /\ UNCHANGED <<kind, f>> /\ NttIndices
      /\ npc' \in {"invlayer", "invblock", "invbutterfly"}
  BY DEF InvLayer, InvBlock, InvButterfly, InvBlockEnd, InvLayerEnd, NttInv, NttInBounds
<1>2. \A x : ProductAt(x)' = ProductAt(x)
  BY <1>1, ProductsStay
<1> DEFINE Next ==
      /\ npc' = "invlayer" => Blocks(h', Distance(layer'), Scaled(Distance(layer')))
      /\ npc' = "invblock" => Joined(h', Distance(layer'), start', Scaled(2 * Distance(layer')))
      /\ npc' = "invbutterfly" => /\ Joined(h', Distance(layer'), j', Scaled(2 * Distance(layer')))
                                  /\ zeta' = -Zetas[k' + 1]
<1>3. /\ Scaled(Distance(layer))' = Scaled(Distance(layer'))
      /\ Scaled(2 * Distance(layer))' = Scaled(2 * Distance(layer'))
  BY <1>2 DEF Scaled, Distance
<1>5. Next => InverseIs'
  BY <1>3 DEF InverseIs, Distance
<1>6. h \in Polynomial /\ layer \in 0 .. LAYERS + 1 /\ start \in Nat /\ j \in Nat /\ k \in Int /\ LAYERS \in Nat
  BY <1>1, PowFact DEF NttIndices
<1>7. npc \in {"invblock", "invbutterfly"} => layer \in 1 .. LAYERS
  BY <1>6 DEF NttInv, NttInBounds, InverseBounds
<1>8. CASE InvLayer
  <2>1. layer \in 1 .. LAYERS
    BY <1>6, <1>8 DEF InvLayer, NttInv, NttInBounds, InverseBounds
  <2>2. PICK a, v : InLayer(a, v)
    BY <2>1, LayerIs
  <2>3. a \in Nat /\ a < LAYERS /\ v \in Nat /\ v = Pow[a] /\ v = Distance(layer)
    BY <2>2 DEF InLayer
  <2>4. Blocks(h, v, Scaled(v))
    BY <1>8, <2>3 DEF InvLayer, InverseIs
  <2>5. \A x \in Coefficients : Scaled(v)[x] \in Int /\ Scaled(2 * v)[x] = 2 * Scaled(v)[x]
    <3>1. ASSUME NEW x \in Coefficients
          PROVE  Scaled(v)[x] \in Int /\ Scaled(2 * v)[x] = 2 * Scaled(v)[x]
      <4>1. RI * ProductAt(x) \in Int
        BY <1>1, ProductFact, Quotient
      <4>2. PICK y \in Int : y = RI * ProductAt(x)
        BY <4>1
      <4>3. Scaled(v)[x] = v * y /\ Scaled(2 * v)[x] = (2 * v) * y
        BY <4>2 DEF Scaled
      <4>4. v * y \in Int /\ (2 * v) * y = 2 * (v * y)
        BY <2>3
      <4>5. QED  BY <4>3, <4>4
    <3>2. QED  BY <3>1
  <2>6. Joined(h, v, 0, Scaled(2 * v))
    BY <1>6, <2>3, <2>4, <2>5, LayerStarts
  <2>7. QED  BY <1>5, <1>8, <2>3, <2>6 DEF InvLayer
<1>9. CASE InvBlock
  <2>1. k' + 1 = k /\ zeta' = -Zetas[k] /\ j' = start /\ npc' = "invbutterfly" /\ UNCHANGED <<h, layer>>
    BY <1>6, <1>9 DEF InvBlock
  <2>2. Joined(h, Distance(layer), start, Scaled(2 * Distance(layer)))
    BY <1>9 DEF InvBlock, InverseIs
  <2>3. QED  BY <1>5, <2>1, <2>2
<1>10. CASE InvButterfly
  <2>1. Joined(h', Distance(layer), j', Scaled(2 * Distance(layer)))
    BY <1>10, InvButterflyIs
  <2>2. zeta' = -Zetas[k' + 1] /\ layer' = layer /\ npc' = "invbutterfly"
    BY <1>10 DEF InvButterfly, InverseIs
  <2>3. QED  BY <1>5, <2>1, <2>2
<1>11. CASE InvBlockEnd
  <2>1. npc = "invbutterfly" /\ npc' = "invblock" /\ UNCHANGED <<h, layer>> /\ start' = start + 2 * Distance(layer)
        /\ j >= start + Distance(layer)
    BY <1>11 DEF InvBlockEnd
  <2>2. PICK a, v, B : InverseAt(a, v, B)
    BY <2>1, InversePlace
  <2>3. /\ a \in Nat /\ a < LAYERS /\ v = Distance(layer) /\ v = Pow[a] /\ v \in Nat
        /\ B \in Nat /\ start = 2 * v * B
    BY <2>2 DEF InverseAt, InLayer
  <2>4. j <= start + v
    BY <2>1, <2>3 DEF NttInv, NttInBounds, InverseBounds
  <2>5. j = start + v
    <3>1. j >= start + v
      BY <2>1, <2>3
    <3>2. j \in Nat /\ start \in Nat /\ v \in Nat
      BY <1>6, <2>3
    <3>3. QED  BY ONLY <2>4, <3>1, <3>2
  <2>6. Joined(h, v, start + v, Scaled(2 * Distance(layer)))
    BY <2>1, <2>3, <2>5 DEF InverseIs
  <2>7. Joined(h, v, start + 2 * v, Scaled(2 * Distance(layer)))
    BY <1>6, <2>3, <2>6, BlockSkip
  <2>8. QED  BY <1>5, <2>1, <2>3, <2>7
<1>12. CASE InvLayerEnd
  <2>1. npc = "invblock" /\ npc' = "invlayer" /\ UNCHANGED h /\ layer' = layer - 1 /\ start >= N /\ layer \in 1 .. LAYERS
    BY <1>7, <1>12 DEF InvLayerEnd
  <2>2. PICK a, v : InLayer(a, v)
    BY <2>1, LayerIs
  <2>3. a \in Nat /\ a < LAYERS /\ v \in Nat /\ v = Pow[a] /\ v = Distance(layer)
    BY <2>2 DEF InLayer
  <2>4. Joined(h, v, start, Scaled(2 * v))
    BY <2>1, <2>3 DEF InverseIs
  <2>5. Blocks(h, 2 * v, Scaled(2 * v))
    BY <1>6, <2>1, <2>3, <2>4, LayerEnds
  <2>6. Distance(layer') = 2 * v
    BY <1>6, <2>1, <2>3, LayerFacts
  <2>7. QED  BY <1>5, <2>1, <2>5, <2>6
<1>13. QED  BY <1>8, <1>9, <1>10, <1>11, <1>12

-------------------------------------------------------------------------------
(***************************************************************************)
(* The program: the final scaling.                                         *)
(***************************************************************************)
ScaleFactor(c) == IF c < j THEN R ELSE F
ScaleTerms(x) == [c \in Coefficients |-> ScaleFactor(c) * (h[c] * Weight(x, c))]

ScaleIs ==
  /\ npc = "scale" => \A x \in Coefficients : Mod(Total(N, ScaleTerms(x))) = Mod((F * N) * (RI * ProductAt(x)))
  /\ npc = "end" => \A x \in Coefficients : Mod(Values(h)[x]) = Mod(ProductAt(x))

LEMMA ScaleFact == F \in Int /\ N \in Int /\ F * N \in Int /\ Same(F * N, R * R) /\ R * R \in Int
<1>1. F \in Int /\ N \in Int /\ R \in Int /\ (F * N - R * R) % Q = 0
  BY NttAssumption, RootAssumption, DegreeFact
<1>2. PICK u \in Int, w \in Int : u = F * N /\ w = R * R
  BY <1>1
<1>3. (u - w) % Q = 0 /\ 0 % Q = 0
  BY <1>1, <1>2, QFact
<1>4. Same(u - w, 0)
  BY <1>3, ModIsSame
<1>5. PICK c \in Int : (u - w) - 0 = Q * c
  BY <1>4 DEF Same
<1>6. u - w = Q * c
  BY <1>5
<1>7. Same(u, w)
  BY <1>6 DEF Same
<1>8. QED  BY <1>1, <1>2, <1>7

LEMMA ScaleTermFact ==
  ASSUME NttIndices, NEW x \in Coefficients, NEW c \in Nat, c < N
  PROVE  /\ ScaleTerms(x)[c] = ScaleFactor(c) * ValueTerms(h, x)[c]
         /\ ValueTerms(h, x)[c] = h[c] * Weight(x, c) /\ ValueTerms(h, x)[c] \in Int
         /\ ScaleTerms(x)[c] \in Int /\ c \in Coefficients /\ h[c] \in Int /\ Weight(x, c) \in Int
<1>1. h \in Polynomial /\ c \in Coefficients /\ x \in Nat /\ x < N
  BY CoefficientFact DEF NttIndices
<1>2. h[c] \in Int /\ Weight(x, c) \in Int
  BY <1>1, WeightIs DEF Polynomial
<1>3. ValueTerms(h, x)[c] = h[c] * Weight(x, c) /\ ValueTerms(h, x)[c] \in Int
  BY <1>1, ValuesFact
<1>4. ScaleTerms(x)[c] = ScaleFactor(c) * (h[c] * Weight(x, c))
  BY <1>1 DEF ScaleTerms
<1>5. ScaleFactor(c) \in Int
  BY ScaleFact, RFact DEF ScaleFactor
<1>6. ScaleTerms(x)[c] = ScaleFactor(c) * ValueTerms(h, x)[c]
  BY <1>3, <1>4
<1>7. ScaleTerms(x)[c] \in Int
  BY <1>3, <1>5, <1>6
<1>8. QED  BY <1>1, <1>2, <1>3, <1>6, <1>7

LEMMA ScaleStarts ==
  ASSUME NttInv, InverseIs, InvEnd
  PROVE  ScaleIs'
<1>1. /\ NttIndices /\ h \in Polynomial /\ npc = "invlayer" /\ layer < 1
      /\ j' = 0 /\ npc' = "scale" /\ h' = h /\ UNCHANGED <<kind, f>>
  BY DEF InvEnd, NttInv, NttInBounds, NttIndices
<1>2. \A x : ProductAt(x)' = ProductAt(x)
  BY <1>1, ProductsStay
<1>3. Distance(layer) = N
  <2>1. layer = 0 /\ LAYERS - 0 = LAYERS
    BY <1>1, PowFact DEF NttIndices
  <2>2. QED  BY <2>1, PowFact DEF Distance
<1>4. Blocks(h, N, Scaled(N))
  BY <1>1, <1>3 DEF InverseIs
<1>5. ASSUME NEW x \in Coefficients
      PROVE  Mod(Total(N, ScaleTerms(x)')) = Mod((F * N) * (RI * ProductAt(x)))
  <2>1. \A c \in Nat : c < N => ScaleTerms(x)'[c] = F * ValueTerms(h, x)[c] /\ ValueTerms(h, x)[c] \in Int
    <3>1. ASSUME NEW c \in Nat, c < N
          PROVE  ScaleTerms(x)'[c] = F * ValueTerms(h, x)[c] /\ ValueTerms(h, x)[c] \in Int
      <4>1. c \in Coefficients /\ ValueTerms(h, x)[c] = h[c] * Weight(x, c) /\ ValueTerms(h, x)[c] \in Int
        BY <1>1, <3>1, ScaleTermFact
      <4>2. ScaleTerms(x)'[c] = F * (h[c] * Weight(x, c))
        BY <1>1, <4>1 DEF ScaleTerms, ScaleFactor
      <4>3. QED  BY <4>1, <4>2
    <3>2. QED  BY <3>1
  <2>2. Total(N, ScaleTerms(x)') = F * Total(N, ValueTerms(h, x))
    BY <2>1, ScaleFact, DegreeFact, TotalTimes
  <2>3. /\ Values(h)[x] = Total(N, ValueTerms(h, x)) /\ Values(h)[x] \in Int
        /\ Mod(Values(h)[x]) = Mod(Scaled(N)[x])
    BY <1>1, <1>4, ValuesFact, WholeBlock
  <2>4. RI * ProductAt(x) \in Int
    BY <1>1, ProductFact, Quotient
  <2>5. PICK y \in Int, n \in Int, e \in Int, s \in Int : y = RI * ProductAt(x) /\ n = N /\ e = F /\ s = Values(h)[x]
    BY <2>3, <2>4, ScaleFact
  <2>6. Scaled(N)[x] = n * y
    BY <2>5 DEF Scaled
  <2>7. Same(s, n * y) /\ n * y \in Int /\ Same(e, e)
    <3>1. Mod(s) = Mod(n * y) /\ n * y \in Int
      BY <2>3, <2>5, <2>6
    <3>2. QED  BY <3>1, ModFact, SameRefl
  <2>8. Mod(e * s) = Mod(e * (n * y))
    <3>1. Same(e * s, e * (n * y)) /\ e * s \in Int /\ e * (n * y) \in Int
      BY <2>7, SameTimes
    <3>2. QED  BY <3>1, ModFact
  <2>9. e * (n * y) = (e * n) * y
    OBVIOUS
  <2>10. QED  BY <2>2, <2>3, <2>5, <2>8, <2>9
<1>6. \A x : (Total(N, ScaleTerms(x)))' = Total(N, ScaleTerms(x)')
  OBVIOUS
<1>7. QED  BY <1>1, <1>2, <1>5, <1>6 DEF ScaleIs

LEMMA ScaleStep ==
  ASSUME NttInv, NttIndices', ScaleIs, Scale
  PROVE  ScaleIs'
<1>1. /\ NttIndices /\ h \in Polynomial /\ h' \in Polynomial /\ j \in Nat
      /\ npc = "scale" /\ npc' = "scale" /\ j < N
      /\ h' = [h EXCEPT ![j] = MontgomeryReduce(h[j] * F)] /\ j' = j + 1 /\ UNCHANGED <<kind, f>>
  BY DEF Scale, NttInv, NttInBounds, NttIndices
<1>2. \A x : ProductAt(x)' = ProductAt(x)
  BY <1>1, ProductsStay
<1>3. j \in Coefficients /\ h[j] \in Int
  BY <1>1, CoefficientFact DEF Polynomial
<1>4. PICK m : m = MontgomeryReduce(h[j] * F)
  OBVIOUS
<1>5. m \in Int /\ Same(R * m, h[j] * F)
  <2>1. h[j] * F \in Int
    BY <1>3, ScaleFact
  <2>2. QED  BY <1>4, <2>1, MontgomeryDivides
<1>6. h'[j] = m /\ \A c \in Coefficients : c # j => h'[c] = h[c]
  BY <1>1, <1>3, <1>4 DEF Polynomial
<1>7. ASSUME NEW x \in Coefficients
      PROVE  Mod(Total(N, ScaleTerms(x)')) = Mod(Total(N, ScaleTerms(x)))
  <2>1. ASSUME NEW c \in Nat, c < N
        PROVE  /\ ScaleTerms(x)'[c] \in Int /\ ScaleTerms(x)[c] \in Int
               /\ Mod(ScaleTerms(x)'[c]) = Mod(ScaleTerms(x)[c])
    <3>1. /\ ScaleTerms(x)[c] = ScaleFactor(c) * ValueTerms(h, x)[c]
          /\ ValueTerms(h, x)[c] = h[c] * Weight(x, c)
          /\ ScaleTerms(x)[c] \in Int /\ c \in Coefficients /\ h[c] \in Int /\ Weight(x, c) \in Int
      BY <1>1, <2>1, ScaleTermFact
    <3>2. ScaleTerms(x)'[c] = (IF c < j + 1 THEN R ELSE F) * (h'[c] * Weight(x, c))
      BY <1>1, <3>1 DEF ScaleTerms, ScaleFactor
    <3>3. ScaleTerms(x)[c] = (IF c < j THEN R ELSE F) * (h[c] * Weight(x, c))
      BY <3>1 DEF ScaleFactor
    <3>4. CASE c # j
      <4>1. c < j + 1 <=> c < j
        BY <1>1, <2>1, <3>4
      <4>2. ScaleTerms(x)'[c] = ScaleTerms(x)[c]
        BY <1>6, <3>1, <3>2, <3>3, <3>4, <4>1
      <4>3. QED  BY <3>1, <4>2
    <3>5. CASE c = j
      <4>1. c < j + 1 /\ ~(c < j)
        BY <1>1, <3>5
      <4>2. ScaleTerms(x)'[c] = R * (m * Weight(x, c)) /\ ScaleTerms(x)[c] = F * (h[c] * Weight(x, c))
        BY <1>6, <3>2, <3>3, <3>5, <4>1
      <4>3. PICK w \in Int, rr \in Int, e \in Int, y \in Int : w = Weight(x, c) /\ rr = R /\ e = F /\ y = h[c]
        BY <3>1, RFact, ScaleFact
      <4>4. Same(rr * m, y * e)
        BY <1>5, <3>5, <4>3
      <4>5. Same((rr * m) * w, (y * e) * w)
        <5>1. rr * m \in Int /\ y * e \in Int /\ Same(w, w)
          BY <1>5, SameRefl
        <5>2. QED  BY <4>4, <5>1, SameTimes
      <4>6. (rr * m) * w = rr * (m * w) /\ (y * e) * w = e * (y * w) /\ rr * (m * w) \in Int /\ e * (y * w) \in Int
        BY <1>5
      <4>7. Mod(rr * (m * w)) = Mod(e * (y * w))
        BY <4>5, <4>6, ModFact
      <4>8. QED  BY <3>1, <4>2, <4>3, <4>6, <4>7
    <3>6. QED  BY <3>4, <3>5
  <2>2. QED  BY <2>1, DegreeFact, TotalMod
<1>8. \A x : (Total(N, ScaleTerms(x)))' = Total(N, ScaleTerms(x)')
  OBVIOUS
<1>9. \A x \in Coefficients : Mod(Total(N, ScaleTerms(x))) = Mod((F * N) * (RI * ProductAt(x)))
  BY <1>1 DEF ScaleIs
<1>10. QED  BY <1>1, <1>2, <1>7, <1>8, <1>9 DEF ScaleIs

LEMMA ScaleEnds ==
  ASSUME NttInv, ScaleIs, ScaleEnd
  PROVE  ScaleIs'
<1>1. /\ NttIndices /\ h \in Polynomial /\ j \in Nat
      /\ npc = "scale" /\ npc' = "end" /\ j >= N /\ h' = h /\ UNCHANGED <<kind, f>>
  BY DEF ScaleEnd, NttInv, NttInBounds, NttIndices
<1>2. \A x : ProductAt(x)' = ProductAt(x)
  BY <1>1, ProductsStay
<1>3. ASSUME NEW x \in Coefficients
      PROVE  Mod(Values(h)[x]) = Mod(ProductAt(x))
  <2>1. \A c \in Nat : c < N => ScaleTerms(x)[c] = R * ValueTerms(h, x)[c] /\ ValueTerms(h, x)[c] \in Int
    <3>1. ASSUME NEW c \in Nat, c < N
          PROVE  ScaleTerms(x)[c] = R * ValueTerms(h, x)[c] /\ ValueTerms(h, x)[c] \in Int
      <4>1. ScaleTerms(x)[c] = ScaleFactor(c) * ValueTerms(h, x)[c] /\ ValueTerms(h, x)[c] \in Int
        BY <1>1, <3>1, ScaleTermFact
      <4>2. c < j
        BY <1>1, <3>1, DegreeFact
      <4>3. QED  BY <4>1, <4>2 DEF ScaleFactor
    <3>2. QED  BY <3>1
  <2>2. Total(N, ScaleTerms(x)) = R * Total(N, ValueTerms(h, x))
    BY <2>1, RFact, DegreeFact, TotalTimes
  <2>3. Values(h)[x] = Total(N, ValueTerms(h, x)) /\ Values(h)[x] \in Int
    BY <1>1, ValuesFact
  <2>4. Mod(Total(N, ScaleTerms(x))) = Mod((F * N) * (RI * ProductAt(x)))
    BY <1>1 DEF ScaleIs
  <2>5. /\ ProductAt(x) \in Int /\ RI * ProductAt(x) \in Int /\ Same(R * (RI * ProductAt(x)), ProductAt(x))
    BY <1>1, ProductFact, Quotient
  <2>6. PICK pr \in Int, y \in Int, n \in Int, rr \in Int, s \in Int :
          pr = ProductAt(x) /\ y = RI * pr /\ n = F * N /\ rr = R /\ s = Values(h)[x]
    BY <2>3, <2>5, ScaleFact, RFact
  <2>7. Same(rr * s, n * y)
    <3>1. rr * s \in Int /\ n * y \in Int /\ Mod(rr * s) = Mod(n * y)
      BY <2>2, <2>3, <2>4, <2>6
    <3>2. QED  BY <3>1, ModFact
  <2>8. Same(n * y, (rr * rr) * y)
    <3>1. Same(n, rr * rr) /\ rr * rr \in Int /\ Same(y, y)
      BY <2>6, ScaleFact, SameRefl
    <3>2. QED  BY <3>1, SameTimes
  <2>9. Same((rr * rr) * y, rr * pr)
    <3>1. Same(rr * y, pr) /\ rr * y \in Int /\ Same(rr, rr)
      BY <2>5, <2>6, SameRefl
    <3>2. Same(rr * (rr * y), rr * pr)
      BY <3>1, SameTimes
    <3>3. rr * (rr * y) = (rr * rr) * y
      OBVIOUS
    <3>4. QED  BY <3>2, <3>3
  <2>10. Same(rr * s, rr * pr)
    <3>1. rr * s \in Int /\ n * y \in Int /\ (rr * rr) * y \in Int /\ rr * pr \in Int
      OBVIOUS
    <3>2. Same(rr * s, (rr * rr) * y)
      BY <2>7, <2>8, <3>1, SameTrans
    <3>3. QED  BY <2>9, <3>1, <3>2, SameTrans
  <2>11. Same(s, pr)
    BY <2>6, <2>10, Cancel
  <2>12. QED  BY <2>6, <2>11, ModFact
<1>4. QED  BY <1>1, <1>2, <1>3 DEF ScaleIs

-------------------------------------------------------------------------------
(***************************************************************************)
(* The invariant of the program.                                           *)
(***************************************************************************)
TransformsCorrect == ForwardIs /\ ProductIs /\ InverseIs /\ ScaleIs

LEMMA CorrectAtStart ==
  ASSUME NttInit
  PROVE  TransformsCorrect
<1>1. npc = "layer" /\ layer = 1 /\ given = f
  BY DEF NttInit
<1>2. NttInv
  BY NttInitInv
<1>3. f \in [Operands -> Polynomial] /\ op \in Operands /\ kind \in {"acc", "point"}
  BY <1>2 DEF NttInv, NttInBounds, NttIndices
<1>4. Forward
  BY <1>1 DEF Forward
<1>5. \A o \in Operands : o < op => Transformed(o)
  <2>1. kind = "acc" => op = L
    BY DEF NttInit
  <2>2. kind = "point" => op = 0
    BY DEF NttInit
  <2>3. \A o \in Operands : ~(o < 0)
    BY DEF Operands
  <2>4. QED  BY <1>1, <1>3, <2>1, <2>2, <2>3 DEF Transformed
<1>6. Blocks(f[op], Pow[LAYERS + 1 - layer], Values(given[op]))
  <2>1. LAYERS + 1 - layer = LAYERS /\ Pow[LAYERS] = N
    BY <1>1, PowFact
  <2>2. f[op] \in Polynomial /\ given[op] = f[op]
    BY <1>1, <1>3
  <2>3. \A x \in Coefficients : Mod(Values(f[op])[x]) = Mod(Values(given[op])[x])
    BY <2>2
  <2>4. QED  BY <2>1, <2>2, <2>3, WholeBlock
<1>7. ForwardIs
  BY <1>1, <1>3, <1>4, <1>5, <1>6 DEF ForwardIs
<1>8. QED  BY <1>1, <1>7 DEF TransformsCorrect, ProductIs, InverseIs, ScaleIs

LEMMA CorrectSteps ==
  ASSUME NttInv, NttInv', TransformsCorrect, [NttNext]_nvars
  PROVE  TransformsCorrect'
<1>1. ForwardIs /\ ProductIs /\ InverseIs /\ ScaleIs /\ NttIndices'
  BY DEF TransformsCorrect, NttInv, NttInBounds
<1>2. CASE NttLayer \/ NttBlock \/ NttButterfly \/ NttBlockEnd \/ NttLayerEnd
  <2>1. npc' \in {"layer", "block", "butterfly"}
    BY <1>2 DEF NttLayer, NttBlock, NttButterfly, NttBlockEnd, NttLayerEnd
  <2>2. ProductIs' /\ InverseIs' /\ ScaleIs'
    BY <2>1 DEF ProductIs, InverseIs, ScaleIs
  <2>3. ForwardIs'
    BY <1>1, <1>2, ForwardIsSteps
  <2>4. QED  BY <2>2, <2>3 DEF TransformsCorrect
<1>3. CASE NttEnd
  <2>1. npc' \in {"layer", "product"}
    BY <1>3 DEF NttEnd
  <2>2. InverseIs' /\ ScaleIs'
    BY <2>1 DEF InverseIs, ScaleIs
  <2>3. ForwardIs' /\ ProductIs'
    BY <1>1, <1>3, ForwardIsEnd, ProductIsSteps
  <2>4. QED  BY <2>2, <2>3 DEF TransformsCorrect
<1>4. CASE Accumulate64 \/ ReduceSum
  <2>1. npc = "product" /\ npc' = "product" /\ UNCHANGED <<kind, f, given>>
    BY <1>4 DEF Accumulate64, ReduceSum
  <2>2. InverseIs' /\ ScaleIs' /\ ~Forward /\ ~Forward'
    BY <2>1 DEF InverseIs, ScaleIs, Forward
  <2>3. ForwardIs' /\ ProductIs'
    BY <1>1, <1>4, <2>1, <2>2, ForwardIsStays, ProductIsSteps
  <2>4. QED  BY <2>2, <2>3 DEF TransformsCorrect
<1>5. CASE ProductEnd
  <2>1. npc = "product" /\ npc' = "invlayer" /\ UNCHANGED <<kind, f, given>>
    BY <1>5 DEF ProductEnd
  <2>2. ProductIs' /\ ScaleIs' /\ ~Forward /\ ~Forward'
    BY <2>1 DEF ProductIs, ScaleIs, Forward
  <2>3. ForwardIs' /\ InverseIs'
    BY <1>1, <1>5, <2>1, <2>2, ForwardIsStays, ProductIsEnd
  <2>4. QED  BY <2>2, <2>3 DEF TransformsCorrect
<1>6. CASE InvLayer \/ InvBlock \/ InvButterfly \/ InvBlockEnd \/ InvLayerEnd
  <2>1. /\ npc \in {"invlayer", "invblock", "invbutterfly"} /\ npc' \in {"invlayer", "invblock", "invbutterfly"}
        /\ UNCHANGED <<kind, f, given>>
    BY <1>6 DEF InvLayer, InvBlock, InvButterfly, InvBlockEnd, InvLayerEnd
  <2>2. ProductIs' /\ ScaleIs' /\ ~Forward /\ ~Forward'
    BY <2>1 DEF ProductIs, ScaleIs, Forward
  <2>3. ForwardIs' /\ InverseIs'
    BY <1>1, <1>6, <2>1, <2>2, ForwardIsStays, InverseIsSteps
  <2>4. QED  BY <2>2, <2>3 DEF TransformsCorrect
<1>7. CASE InvEnd \/ Scale \/ ScaleEnd
  <2>1. npc \in {"invlayer", "scale"} /\ npc' \in {"scale", "end"} /\ UNCHANGED <<kind, f, given>>
    BY <1>7 DEF InvEnd, Scale, ScaleEnd
  <2>2. ProductIs' /\ InverseIs' /\ ~Forward /\ ~Forward'
    BY <2>1 DEF ProductIs, InverseIs, Forward
  <2>3. ForwardIs' /\ ScaleIs'
    BY <1>1, <1>7, <2>1, <2>2, ForwardIsStays, ScaleStarts, ScaleStep, ScaleEnds
  <2>4. QED  BY <2>2, <2>3 DEF TransformsCorrect
<1>8. CASE UNCHANGED nvars
  <2>1. ForwardIs'
    BY <1>1, <1>8 DEF ForwardIs, Forward, Transformed, Operands, Pairs, Distance, nvars
  <2>2. \A x : ProductTerms(x)' = ProductTerms(x) /\ ProductAt(x)' = ProductAt(x)
    BY <1>8, ProductsStay DEF nvars
  <2>3. ProductIs'
    BY <1>1, <1>8, <2>2 DEF ProductIs, nvars
  <2>4. InverseIs'
    BY <1>1, <1>8, <2>2 DEF InverseIs, Scaled, Distance, nvars
  <2>5. ScaleIs'
    BY <1>1, <1>8, <2>2 DEF ScaleIs, ScaleTerms, ScaleFactor, nvars
  <2>6. QED  BY <2>1, <2>3, <2>4, <2>5 DEF TransformsCorrect
<1>9. QED
  BY <1>2, <1>3, <1>4, <1>5, <1>6, <1>7, <1>8 DEF NttNext

-------------------------------------------------------------------------------
(***************************************************************************)
(* Values that are all 0 modulo Q belong to a polynomial that is 0: a      *)
(* layer of butterflies, which is invertible, leads from the blocks of one *)
(* length to those of half the length.                                     *)
(***************************************************************************)
Zero == [x \in Coefficients |-> 0]
Vanishes(d) == \A x \in Coefficients : Same(d[x], 0)

\* The two places of pair c in block B.
PairIn(a, v, B, c, y, z) ==
  /\ y = 2 * v * B + c /\ z = y + v /\ y \in Coefficients /\ z \in Coefficients
  /\ y \in Nat /\ z \in Nat /\ z - v = y
  /\ y \div (2 * v) = B /\ z \div (2 * v) = B
  /\ First(y, v) = First(y, 2 * v) /\ First(z, v) # First(z, 2 * v)

LEMMA PairIs ==
  ASSUME NEW a \in Nat, a < LAYERS, NEW v \in Nat, v = Pow[a], NEW B \in Nat, B < Pow[LAYERS - 1 - a],
         NEW c \in Nat, c < v
  PROVE  PairIn(a, v, B, c, 2 * v * B + c, 2 * v * B + c + v)
<1>1. v >= 1
  BY PowFact
<1>2. PICK y \in Nat, z \in Nat, w \in Nat : y = 2 * v * B + c /\ z = y + v /\ w = 2 * v
  OBVIOUS
<1>3. y \in Coefficients /\ z \in Coefficients
  <2>1. 2 * v * B <= y /\ y < 2 * v * B + v
    BY <1>2
  <2>2. y \in Coefficients /\ y + v \in Coefficients
    BY <1>1, <2>1, PairPlace
  <2>3. QED  BY <1>2, <2>2
<1>4. y \div w = B /\ z \div w = B
  <2>1. PICK e \in Nat : e = v + c
    OBVIOUS
  <2>2. y = w * B + c /\ z = w * B + e /\ c < w /\ e < w /\ w >= 1 /\ B \in Int
    BY <1>1, <1>2, <2>1
  <2>3. y \div w = B
    BY <2>2, DivIs
  <2>4. z \div w = B
    BY <2>2, DivIs
  <2>5. QED  BY <2>3, <2>4
<1>5. y \div v = 2 * B /\ z \div v = 2 * B + 1
  <2>1. y = v * (2 * B) + c /\ z = v * (2 * B + 1) + c /\ 2 * B \in Int /\ 2 * B + 1 \in Int
    BY <1>2
  <2>2. QED  BY <1>1, <2>1, DivIs
<1>6. First(y, v) = v * (2 * B) /\ First(z, v) = v * (2 * B + 1) /\ First(y, w) = w * B /\ First(z, w) = w * B
  BY <1>4, <1>5 DEF First
<1>7. v * (2 * B) = w * B /\ v * (2 * B + 1) = w * B + v /\ w * B \in Int
  BY <1>2
<1>8. First(y, v) = First(y, w) /\ First(z, v) # First(z, w)
  BY <1>1, <1>6, <1>7
<1>9. z - v = y
  BY <1>2
<1>10. QED  BY <1>2, <1>3, <1>4, <1>8, <1>9 DEF PairIn

\* One layer of butterflies, all at once.
BlockRoot(a, v, x) == Root(BitRev(Factor(a, x \div (2 * v))))
LayerOf(d, a, v) ==
  [x \in Coefficients |-> IF First(x, v) = First(x, 2 * v) THEN d[x] + d[x + v] * BlockRoot(a, v, x)
                                                           ELSE d[x - v] - d[x] * BlockRoot(a, v, x)]

LayerAt(d, d2, a, v, B, c) ==
  LET lo == 2 * v * B
      tw == Root(BitRev(Factor(a, B)))
  IN  /\ tw \in Int /\ d[lo + c] \in Int /\ d[lo + v + c] \in Int
      /\ lo + c \in Coefficients /\ lo + v + c \in Coefficients
      /\ d2[lo + c] = d[lo + c] + d[lo + v + c] * tw
      /\ d2[lo + v + c] = d[lo + c] - d[lo + v + c] * tw

LEMMA LayerOfIs ==
  ASSUME NEW a \in Nat, a < LAYERS, NEW v \in Nat, v = Pow[a], NEW d \in Polynomial, NEW B \in Nat,
         B < Pow[LAYERS - 1 - a], NEW c \in Nat, c < v
  PROVE  LayerAt(d, LayerOf(d, a, v), a, v, B, c)
<1>1. PairIn(a, v, B, c, 2 * v * B + c, 2 * v * B + c + v)
  BY PairIs
<1>2. PICK y, z : y = 2 * v * B + c /\ z = 2 * v * B + c + v
  OBVIOUS
<1>3. /\ y \in Nat /\ z \in Nat /\ z = y + v /\ z - v = y /\ y \in Coefficients /\ z \in Coefficients
      /\ y \div (2 * v) = B /\ z \div (2 * v) = B
      /\ First(y, v) = First(y, 2 * v) /\ First(z, v) # First(z, 2 * v)
  BY <1>1, <1>2 DEF PairIn
<1>4. PICK tw : tw = Root(BitRev(Factor(a, B)))
  OBVIOUS
<1>5. BlockRoot(a, v, y) = tw /\ BlockRoot(a, v, z) = tw
  BY <1>3, <1>4 DEF BlockRoot
<1>6. tw \in Int
  BY <1>4, FactorsCancel, RootType
<1>7. d[y] \in Int /\ d[z] \in Int
  BY <1>3 DEF Polynomial
<1>8. /\ LayerOf(d, a, v)[y] = d[y] + d[z] * tw
      /\ LayerOf(d, a, v)[z] = d[y] - d[z] * tw
  BY <1>3, <1>5 DEF LayerOf
<1>9. z = 2 * v * B + v + c
  BY <1>2
<1>10. QED  BY <1>2, <1>3, <1>4, <1>6, <1>7, <1>8, <1>9 DEF LayerAt

LEMMA LayerOfType ==
  ASSUME NEW a \in Nat, a < LAYERS, NEW v \in Nat, v = Pow[a], NEW d \in Polynomial
  PROVE  LayerOf(d, a, v) \in Polynomial
<1>1. ASSUME NEW x \in Coefficients PROVE LayerOf(d, a, v)[x] \in Int
  <2>1. x \in Nat /\ x < N
    BY CoefficientFact
  <2>2. PICK B \in Nat, y \in Nat :
           /\ B < Pow[LAYERS - 1 - a] /\ x = 2 * Pow[a] * B + y /\ y < 2 * Pow[a]
    BY <2>1, PlaceFact
  <2>3. x = 2 * v * B + y /\ y < 2 * v /\ 2 * v * B \in Nat
    BY <2>2
  <2>4. PICK lo \in Nat : lo = 2 * v * B
    BY <2>3
  <2>5. CASE y < v
    <3>1. LayerAt(d, LayerOf(d, a, v), a, v, B, y)
      BY <2>2, <2>5, LayerOfIs
    <3>2. QED  BY <2>3, <3>1 DEF LayerAt
  <2>6. CASE ~(y < v)
    <3>1. PICK c \in Nat : y = v + c /\ c < v
      <4>1. y - v \in Nat /\ y = v + (y - v) /\ y - v < v
        BY <2>3, <2>6
      <4>2. QED  BY <4>1
    <3>2. LayerAt(d, LayerOf(d, a, v), a, v, B, c)
      BY <2>2, <3>1, LayerOfIs
    <3>3. x = 2 * v * B + v + c
      BY <2>3, <2>4, <3>1
    <3>4. QED  BY <3>2, <3>3 DEF LayerAt
  <2>7. QED  BY <2>5, <2>6
<1>2. QED  BY <1>1 DEF LayerOf, Polynomial

\* The values of the half blocks after the layer are those of the blocks before.
LEMMA LayerKeepsValues ==
  ASSUME NEW a \in Nat, a < LAYERS, NEW v \in Nat, v = Pow[a], NEW d \in Polynomial, NEW V,
         Blocks(d, 2 * v, V)
  PROVE  Blocks(LayerOf(d, a, v), v, V)
<1>1. PICK d2 : d2 = LayerOf(d, a, v)
  OBVIOUS
<1>2. d2 \in Polynomial
  BY <1>1, LayerOfType
<1>3. ASSUME NEW x \in Coefficients
      PROVE  Mod(Total(v, BlockTerm(d2, v, x))) = Mod(Total(2 * v, BlockTerm(d, 2 * v, x)))
  <2>1. PICK B \in Nat : B < Pow[LAYERS - 1 - a] /\ B = x \div (2 * v) /\ First(x, 2 * v) = 2 * v * B
    BY CoefficientFact, PlaceFact
  <2>2. ASSUME NEW c \in Nat, c < v
        PROVE  /\ BlockTerm(d2, v, x)[c] \in Int /\ PairTerm(d, v, x)[c] \in Int
               /\ Same(BlockTerm(d2, v, x)[c], PairTerm(d, v, x)[c])
    <3>1. PICK lo \in Nat, at \in Nat :
            lo = First(x, 2 * v) /\ at = First(x, v) /\ Terms(d, v, x, c, lo, at) /\ Terms(d2, v, x, c, lo, at)
      <4>1. Terms(d, v, x, c, First(x, 2 * v), First(x, v)) /\ Terms(d2, v, x, c, First(x, 2 * v), First(x, v))
        BY <1>2, <2>2, TermFact DEF InHalf
      <4>2. First(x, 2 * v) \in Nat /\ First(x, v) \in Nat
        BY <4>1 DEF Terms
      <4>3. QED  BY <4>1, <4>2
    <3>2. /\ at = lo \/ at = lo + v
          /\ BlockTerm(d2, v, x)[c] = d2[at + c] * Weight(x, c) /\ BlockTerm(d2, v, x)[c] \in Int
          /\ PairTerm(d, v, x)[c] = d[lo + c] * Weight(x, c) + d[lo + v + c] * Weight(x, v + c)
          /\ PairTerm(d, v, x)[c] \in Int
      BY <3>1 DEF Terms
    <3>3. PICK tw \in Int :
             /\ tw = Root(BitRev(Factor(a, x \div (2 * v))))
             /\ Weight(x, v) \in Int /\ Weight(x, c) \in Int /\ Weight(x, v + c) \in Int
             /\ Same(Weight(x, v + c), Weight(x, v) * Weight(x, c))
             /\ First(x, v) = First(x, 2 * v) => Same(Weight(x, v), tw)
             /\ First(x, v) # First(x, 2 * v) => Same(Weight(x, v), -tw)
      BY WeightsInBlock
    <3>4. LayerAt(d, d2, a, v, B, c)
      BY <1>1, <2>1, <2>2, LayerOfIs
    <3>11. /\ d[lo + c] \in Int /\ d[lo + v + c] \in Int
           /\ d2[lo + c] = d[lo + c] + d[lo + v + c] * tw
           /\ d2[lo + v + c] = d[lo + c] - d[lo + v + c] * tw
      BY <2>1, <3>1, <3>3, <3>4 DEF LayerAt
    <3>12. PICK p0 \in Int, p1 \in Int, wv \in Int, wc \in Int, wvc \in Int :
            /\ p0 = d[lo + c] /\ p1 = d[lo + v + c] /\ wv = Weight(x, v) /\ wc = Weight(x, c)
            /\ wvc = Weight(x, v + c)
      BY <3>3, <3>11
    <3>13. PICK t \in Int : t = p1 * tw
      OBVIOUS
    <3>14. d2[lo + c] = p0 + t /\ d2[lo + v + c] = p0 - t
      BY <3>11, <3>12, <3>13
    <3>5. /\ p0 = d[lo + c] /\ p1 = d[lo + v + c] /\ wv = Weight(x, v) /\ wc = Weight(x, c)
          /\ wvc = Weight(x, v + c) /\ t = p1 * tw
          /\ d2[lo + c] = p0 + t /\ d2[lo + v + c] = p0 - t
      BY <3>12, <3>13, <3>14
    <3>6. /\ Same(wv, tw) => Same((p0 + t) * wc, p0 * wc + p1 * wvc)
          /\ Same(wv, -tw) => Same((p0 - t) * wc, p0 * wc + p1 * wvc)
      <4>1. Same(t, p1 * tw) /\ Same(wvc, wv * wc)
        BY <3>3, <3>5, SameRefl
      <4>2. QED  BY <4>1, PairForward
    <3>7. CASE at = lo
      <4>1. Same(wv, tw) /\ BlockTerm(d2, v, x)[c] = (p0 + t) * wc
        BY <3>1, <3>2, <3>3, <3>5, <3>7
      <4>2. QED  BY <3>2, <3>5, <3>6, <4>1
    <3>8. CASE at # lo
      <4>1. at + c = lo + v + c
        BY <3>2, <3>8
      <4>2. Same(wv, -tw) /\ BlockTerm(d2, v, x)[c] = (p0 - t) * wc
        BY <3>1, <3>2, <3>3, <3>5, <3>8, <4>1
      <4>3. QED  BY <3>2, <3>5, <3>6, <4>2
    <3>9. QED  BY <3>7, <3>8
  <2>3. Same(Total(v, BlockTerm(d2, v, x)), Total(v, PairTerm(d, v, x)))
    BY <2>2, TotalSame
  <2>4. Total(v, BlockTerm(d2, v, x)) \in Int /\ Total(v, PairTerm(d, v, x)) \in Int
    BY <2>2, TotalInt
  <2>5. Total(2 * v, BlockTerm(d, 2 * v, x)) = Total(v, PairTerm(d, v, x))
    BY PairsOfBlock
  <2>6. QED  BY <2>3, <2>4, <2>5, ModFact
<1>4. QED  BY <1>1, <1>3 DEF Blocks

\* A pair can be found from what a butterfly makes of it.
LEMMA PairVanishes ==
  ASSUME NEW p0 \in Int, NEW p1 \in Int, NEW tw \in Int, NEW ti \in Int, Same(tw * ti, -1),
         Same(p0 + p1 * tw, 0), Same(p0 - p1 * tw, 0)
  PROVE  Same(p0, 0) /\ Same(p1, 0)
<1>1. PICK t \in Int : t = p1 * tw
  OBVIOUS
<1>2. Same((p0 + t) + (p0 - t), 0 + 0) /\ Same((p0 + t) - (p0 - t), 0 - 0)
  <2>1. p0 + t \in Int /\ p0 - t \in Int /\ 0 \in Int /\ Same(p0 + t, 0) /\ Same(p0 - t, 0)
    BY <1>1
  <2>2. QED  BY <2>1, SamePlus
<1>3. /\ (p0 + t) + (p0 - t) = 2 * p0 /\ (p0 + t) - (p0 - t) = 2 * t /\ 0 + 0 = 2 * 0 /\ 0 - 0 = 2 * 0
      /\ 2 \in Int /\ 0 \in Int
  OBVIOUS
<1>4. Same(2 * p0, 2 * 0) /\ Same(2 * t, 2 * 0)
  BY <1>2, <1>3
<1>5. Same(p0, 0) /\ Same(t, 0)
  BY <1>3, <1>4, Cancel
<1>6. PICK q \in Int, c1 \in Int : q = Q /\ tw * ti = -1 + q * c1
  <2>1. tw * ti \in Int /\ -1 \in Int /\ Q \in Int
    BY QFact
  <2>2. \E c \in Int : tw * ti = -1 + Q * c
    BY <2>1, SameIs
  <2>3. QED  BY <2>1, <2>2
<1>7. PICK c2 \in Int : p1 * tw = q * c2
  <2>1. \E c \in Int : t = 0 + Q * c
    BY <1>5, SameIs
  <2>2. PICK c \in Int : t = 0 + q * c
    BY <1>6, <2>1
  <2>3. t = q * c
    BY <2>2
  <2>4. QED  BY <1>1, <2>3
<1>8. (p1 * tw) * ti = p1 * (tw * ti)
  OBVIOUS
<1>9. (q * c2) * ti = p1 * (-1 + q * c1)
  BY <1>6, <1>7, <1>8
<1>10. PICK m \in Int : m = p1 * c1 - c2 * ti
  OBVIOUS
<1>11. p1 = q * m
  <2>1. (q * c2) * ti = q * (c2 * ti) /\ p1 * (-1 + q * c1) = q * (p1 * c1) - p1
    OBVIOUS
  <2>2. q * m = q * (p1 * c1) - q * (c2 * ti)
    BY <1>10
  <2>3. PICK y1 \in Int, y2 \in Int : y1 = q * (p1 * c1) /\ y2 = q * (c2 * ti)
    OBVIOUS
  <2>4. y2 = y1 - p1 /\ q * m = y1 - y2
    BY <1>9, <2>1, <2>2, <2>3
  <2>5. QED  BY <2>4
<1>12. Same(p1, 0)
  <2>1. p1 - 0 = Q * m
    BY <1>6, <1>11
  <2>2. QED  BY <2>1 DEF Same
<1>13. QED  BY <1>5, <1>12

LEMMA LayerVanishes ==
  ASSUME NEW a \in Nat, a < LAYERS, NEW v \in Nat, v = Pow[a], NEW d \in Polynomial,
         Vanishes(LayerOf(d, a, v))
  PROVE  Vanishes(d)
<1>1. PICK d2 : d2 = LayerOf(d, a, v)
  OBVIOUS
<1>2. ASSUME NEW B \in Nat, B < Pow[LAYERS - 1 - a], NEW c \in Nat, c < v
      PROVE  Same(d[2 * v * B + c], 0) /\ Same(d[2 * v * B + v + c], 0)
  <2>1. LayerAt(d, d2, a, v, B, c)
    BY <1>1, <1>2, LayerOfIs
  <2>2. PICK tw \in Int, p0 \in Int, p1 \in Int :
          /\ tw = Root(BitRev(Factor(a, B))) /\ p0 = d[2 * v * B + c] /\ p1 = d[2 * v * B + v + c]
          /\ d2[2 * v * B + c] = p0 + p1 * tw /\ d2[2 * v * B + v + c] = p0 - p1 * tw
          /\ 2 * v * B + c \in Coefficients /\ 2 * v * B + v + c \in Coefficients
    BY <2>1 DEF LayerAt
  <2>3. Same(p0 + p1 * tw, 0) /\ Same(p0 - p1 * tw, 0)
    BY <1>1, <2>2 DEF Vanishes
  <2>4. PICK ti \in Int : Same(tw * ti, -1)
    <3>1. /\ BitRev(InvFactor(a, B)) \in Nat
          /\ Mod(Root(BitRev(Factor(a, B))) * Root(BitRev(InvFactor(a, B)))) = Mod(-1)
      BY <1>2, FactorsCancel
    <3>2. PICK ti \in Int : ti = Root(BitRev(InvFactor(a, B)))
      BY <3>1, RootType
    <3>3. Mod(tw * ti) = Mod(-1) /\ tw * ti \in Int /\ -1 \in Int
      BY <2>2, <3>1, <3>2
    <3>4. QED  BY <3>3, ModFact
  <2>5. Same(p0, 0) /\ Same(p1, 0)
    BY <2>3, <2>4, PairVanishes
  <2>6. QED  BY <2>2, <2>5
<1>3. ASSUME NEW x \in Coefficients PROVE Same(d[x], 0)
  <2>1. x \in Nat /\ x < N
    BY CoefficientFact
  <2>2. PICK B \in Nat, y \in Nat :
           /\ B < Pow[LAYERS - 1 - a] /\ x = 2 * Pow[a] * B + y /\ y < 2 * Pow[a]
    BY <2>1, PlaceFact
  <2>3. PICK lo \in Nat : lo = 2 * v * B
    OBVIOUS
  <2>4. x = lo + y /\ y < 2 * v
    BY <2>2, <2>3
  <2>5. CASE y < v
    BY <1>2, <2>2, <2>3, <2>4, <2>5
  <2>6. CASE ~(y < v)
    <3>1. PICK c \in Nat : y = v + c /\ c < v
      <4>1. y - v \in Nat /\ y = v + (y - v) /\ y - v < v
        BY <2>4, <2>6
      <4>2. QED  BY <4>1
    <3>2. x = lo + v + c
      BY <2>4, <3>1
    <3>3. QED  BY <1>2, <2>2, <2>3, <3>1, <3>2
  <2>7. QED  BY <2>5, <2>6
<1>4. QED  BY <1>3 DEF Vanishes

\* The block lengths for which this is known.
Known(a) == a <= LAYERS => \A d \in Polynomial : Blocks(d, Pow[a], Zero) => Vanishes(d)

\* A polynomial whose values at all roots of unity are 0 modulo Q has only
\* coefficients that are 0 modulo Q: the transform of ntt.c loses nothing.
THEOREM OnlyZeroVanishes ==
  ASSUME NEW d \in Polynomial, \A x \in Coefficients : Mod(Values(d)[x]) = Mod(0)
  PROVE  Vanishes(d)
<1> DEFINE T == {a \in Nat : Known(a)}
<1>1. 0 \in T
  <2>1. ASSUME NEW e \in Polynomial, Blocks(e, Pow[0], Zero) PROVE Vanishes(e)
    <3>1. \A x \in Coefficients : Mod(e[x]) = Mod(Zero[x])
      BY <2>1, PowFact, OneBlock
    <3>2. ASSUME NEW x \in Coefficients PROVE Same(e[x], 0)
      <4>1. e[x] \in Int /\ Zero[x] = 0 /\ 0 \in Int
        BY DEF Zero, Polynomial
      <4>2. QED  BY <3>1, <4>1, ModFact
    <3>3. QED  BY <3>2 DEF Vanishes
  <2>2. QED  BY <2>1 DEF Known
<1>2. ASSUME NEW a \in Nat, a \in T PROVE a + 1 \in T
  <2>1. ASSUME a + 1 <= LAYERS, NEW e \in Polynomial, Blocks(e, Pow[a + 1], Zero) PROVE Vanishes(e)
    <3>1. a < LAYERS /\ a <= LAYERS
      BY <2>1, PowFact
    <3>2. PICK v \in Nat : v = Pow[a] /\ Pow[a + 1] = 2 * v
      BY <3>1, PowFact
    <3>3. Blocks(LayerOf(e, a, v), v, Zero)
      BY <2>1, <3>1, <3>2, LayerKeepsValues
    <3>4. LayerOf(e, a, v) \in Polynomial
      BY <3>1, <3>2, LayerOfType
    <3>5. Vanishes(LayerOf(e, a, v))
      BY <1>2, <3>1, <3>2, <3>3, <3>4 DEF Known
    <3>6. QED  BY <3>1, <3>2, <3>5, LayerVanishes
  <2>2. QED  BY <2>1 DEF Known
<1>3. Nat \subseteq T
  BY <1>1, <1>2, Induction
<1>4. Known(LAYERS)
  BY <1>3, PowFact
<1>5. Blocks(d, N, Zero)
  <2>1. \A x \in Coefficients : Mod(Values(d)[x]) = Mod(Zero[x])
    BY DEF Zero
  <2>2. QED  BY <2>1, WholeBlock
<1>6. QED  BY <1>4, <1>5, PowFact DEF Known

-------------------------------------------------------------------------------
(***************************************************************************)
(* The values of a product in the ring are the products of the values:     *)
(* X^N is -1 at every root.                                                *)
(***************************************************************************)
RingTerms(p, q, y) == [n \in Coefficients |-> IF n <= y THEN p[n] * q[y - n] ELSE -p[n] * q[N + y - n]]
Ring(p, q) == [y \in Coefficients |-> Total(N, RingTerms(p, q, y))]

\* What p[n] contributes to the value of the product at x, coefficient by coefficient.
Column(p, q, x, n) == [y \in Coefficients |-> Weight(x, y) * RingTerms(p, q, y)[n]]

\* The product of a coefficient of p and one of q, and where it goes.
PairOf(p, q, n, y, m) ==
  /\ m \in Coefficients /\ p[n] \in Int /\ q[m] \in Int
  /\ \/ n <= y /\ y = n + m /\ RingTerms(p, q, y)[n] = p[n] * q[m]
     \/ n > y /\ y + N = n + m /\ RingTerms(p, q, y)[n] = -(p[n] * q[m])

LEMMA PairOfFact ==
  ASSUME NEW p \in Polynomial, NEW q \in Polynomial, NEW n \in Coefficients, NEW y \in Coefficients
  PROVE  PairOf(p, q, n, y, IF y < n THEN (N - n) + y ELSE y - n)
<1>1. n \in Nat /\ n < N /\ y \in Nat /\ y < N /\ N \in Nat
  BY CoefficientFact, DegreeFact
<1>2. CASE n <= y
  <2>1. PICK m \in Nat : m = y - n /\ m < N /\ ~(y < n) /\ y = n + m
    BY <1>1, <1>2
  <2>2. m \in Coefficients /\ p[n] \in Int /\ q[m] \in Int
    BY <2>1, CoefficientFact DEF Polynomial
  <2>3. RingTerms(p, q, y)[n] = p[n] * q[m]
    BY <1>2, <2>1 DEF RingTerms
  <2>4. PairOf(p, q, n, y, m)
    BY <1>2, <2>1, <2>2, <2>3 DEF PairOf
  <2>5. QED  BY <2>1, <2>4
<1>3. CASE ~(n <= y)
  <2>1. y < n /\ n > y
    BY <1>1, <1>3
  <2>2. PICK m \in Nat : m = (N - n) + y /\ m = N + y - n /\ m < N /\ y + N = n + m
    BY <1>1, <2>1
  <2>3. m \in Coefficients /\ p[n] \in Int /\ q[m] \in Int
    BY <2>2, CoefficientFact DEF Polynomial
  <2>4. RingTerms(p, q, y)[n] = -p[n] * q[m]
    BY <1>3, <2>2 DEF RingTerms
  <2>5. -p[n] * q[m] = -(p[n] * q[m])
    BY <2>3
  <2>6. PairOf(p, q, n, y, m)
    BY <2>1, <2>2, <2>3, <2>4, <2>5 DEF PairOf
  <2>7. QED  BY <2>1, <2>2, <2>6
<1>4. QED  BY <1>2, <1>3

LEMMA RingType ==
  ASSUME NEW p \in Polynomial, NEW q \in Polynomial
  PROVE  /\ Ring(p, q) \in Polynomial
         /\ \A n, y \in Coefficients : RingTerms(p, q, y)[n] \in Int
<1>1. \A n, y \in Coefficients : RingTerms(p, q, y)[n] \in Int
  <2>1. ASSUME NEW n \in Coefficients, NEW y \in Coefficients PROVE RingTerms(p, q, y)[n] \in Int
    <3>1. PICK m : PairOf(p, q, n, y, m)
      BY PairOfFact
    <3>2. p[n] * q[m] \in Int /\ -(p[n] * q[m]) \in Int
      BY <3>1 DEF PairOf
    <3>3. QED  BY <3>1, <3>2 DEF PairOf
  <2>2. QED  BY <2>1
<1>2. ASSUME NEW y \in Coefficients PROVE Ring(p, q)[y] \in Int
  <2>1. \A m \in Nat : m < N => RingTerms(p, q, y)[m] \in Int
    BY <1>1, CoefficientFact
  <2>2. Total(N, RingTerms(p, q, y)) \in Int
    BY <2>1, DegreeFact, TotalInt
  <2>3. QED  BY <2>2 DEF Ring
<1>3. Ring(p, q) \in Polynomial
  BY <1>2 DEF Ring, Polynomial
<1>4. QED  BY <1>1, <1>3

LEMMA WeightOfProduct ==
  ASSUME NEW wy \in Int, NEW wn \in Int, NEW wm \in Int, NEW pn \in Int, NEW qm \in Int,
         Same(wy, wn * wm)
  PROVE  Same(wy * (pn * qm), (pn * wn) * (qm * wm))
<1>1. wn * wm \in Int /\ pn * qm \in Int /\ Same(pn * qm, pn * qm)
  BY SameRefl
<1>2. Same(wy * (pn * qm), (wn * wm) * (pn * qm))
  BY <1>1, SameTimes
<1>3. (wn * wm) * (pn * qm) = (pn * wn) * (qm * wm)
  OBVIOUS
<1>4. QED  BY <1>2, <1>3

LEMMA ColumnTerm ==
  ASSUME NEW p \in Polynomial, NEW q \in Polynomial, NEW x \in Coefficients,
         NEW n \in Coefficients, NEW y \in Coefficients, NEW m, PairOf(p, q, n, y, m)
  PROVE  /\ Column(p, q, x, n)[y] \in Int
         /\ Same(Column(p, q, x, n)[y], ValueTerms(p, x)[n] * ValueTerms(q, x)[m])
<1>1. m \in Coefficients /\ p[n] \in Int /\ q[m] \in Int
  BY DEF PairOf
<1>2. /\ x \in Nat /\ x < N /\ n \in Nat /\ y \in Nat /\ m \in Nat /\ N \in Nat /\ n < N /\ m < N
      /\ n + m \in Nat /\ y + N \in Nat
  BY <1>1, CoefficientFact, DegreeFact
<1>3. /\ ValueTerms(p, x)[n] = p[n] * Weight(x, n) /\ ValueTerms(q, x)[m] = q[m] * Weight(x, m)
  BY <1>2, ValuesFact
<1>4. PICK wy \in Int, wn \in Int, wm \in Int, wnm \in Int, pn \in Int, qm \in Int :
        /\ wy = Weight(x, y) /\ wn = Weight(x, n) /\ wm = Weight(x, m) /\ wnm = Weight(x, n + m)
        /\ pn = p[n] /\ qm = q[m]
  BY <1>1, <1>2, WeightIs
<1>5. Same(wnm, wn * wm)
  <2>1. wn * wm \in Int /\ Mod(wnm) = Mod(wn * wm)
    BY <1>2, <1>4, WeightPlus
  <2>2. QED  BY <2>1, ModFact
<1>6. Column(p, q, x, n)[y] = wy * RingTerms(p, q, y)[n]
  BY <1>4 DEF Column
<1>7. CASE n <= y /\ y = n + m /\ RingTerms(p, q, y)[n] = p[n] * q[m]
  <2>1. Column(p, q, x, n)[y] = wnm * (pn * qm)
    BY <1>4, <1>6, <1>7
  <2>2. Same(wnm * (pn * qm), (pn * wn) * (qm * wm))
    BY <1>5, WeightOfProduct
  <2>3. wnm * (pn * qm) \in Int
    OBVIOUS
  <2>4. QED  BY <1>3, <1>4, <2>1, <2>2, <2>3
<1>8. CASE n > y /\ y + N = n + m /\ RingTerms(p, q, y)[n] = -(p[n] * q[m])
  <2>1. PICK z \in Int : z = -wy
    OBVIOUS
  <2>2. Column(p, q, x, n)[y] = z * (pn * qm)
    <3>1. Column(p, q, x, n)[y] = wy * (-(pn * qm))
      BY <1>4, <1>6, <1>8
    <3>2. wy * (-(pn * qm)) = z * (pn * qm)
      BY <2>1
    <3>3. QED  BY <3>1, <3>2
  <2>3. Same(z, wn * wm)
    <3>1. Mod(Weight(x, y + N)) = Mod(-Weight(x, y))
      BY <1>2, WeightDegree
    <3>2. Mod(wnm) = Mod(z)
      BY <1>4, <1>8, <2>1, <3>1
    <3>3. Same(z, wnm)
      BY <3>2, ModFact
    <3>4. wn * wm \in Int
      OBVIOUS
    <3>5. QED  BY <1>5, <3>3, <3>4, SameTrans
  <2>4. Same(z * (pn * qm), (pn * wn) * (qm * wm))
    BY <2>3, WeightOfProduct
  <2>5. z * (pn * qm) \in Int
    OBVIOUS
  <2>6. QED  BY <1>3, <1>4, <2>2, <2>4, <2>5
<1>9. QED  BY <1>7, <1>8 DEF PairOf

\* A column is the value of q, times the term of p.
LEMMA ColumnIs ==
  ASSUME NEW p \in Polynomial, NEW q \in Polynomial, NEW x \in Coefficients, NEW n \in Coefficients
  PROVE  /\ Total(N, Column(p, q, x, n)) \in Int /\ Values(q)[x] \in Int
         /\ Same(Total(N, Column(p, q, x, n)), Values(q)[x] * ValueTerms(p, x)[n])
<1>1. PICK nn \in Nat, m0 \in Nat : n \in Nat /\ n < N /\ nn = N /\ m0 = N - n /\ N = n + m0 /\ N = m0 + n
  <2>1. n \in Nat /\ n < N /\ N \in Nat
    BY CoefficientFact, DegreeFact
  <2>2. N - n \in Nat /\ N = n + (N - n) /\ N = (N - n) + n
    BY <2>1
  <2>3. QED  BY <2>1, <2>2
<1>17. PICK g : g = ValueTerms(q, x)
  OBVIOUS
<1>18. PICK a \in Int : a = ValueTerms(p, x)[n]
  <2>1. ValueTerms(p, x)[n] \in Int
    BY <1>1, ValuesFact
  <2>2. QED  BY <2>1
<1>2. g = ValueTerms(q, x) /\ a = ValueTerms(p, x)[n]
  BY <1>17, <1>18
<1>3. \A m \in Nat : m < N => g[m] \in Int
  BY <1>2, ValuesFact
<1>4. Total(N, g) = Values(q)[x] /\ Values(q)[x] \in Int
  BY <1>2, ValuesFact
<1>5. PICK u : u = [y \in Coefficients |-> IF y < n THEN a * g[m0 + y] ELSE a * g[y - n]]
  OBVIOUS
<1>6. PICK w1 : w1 = [m \in Coefficients |-> a * g[m]]
  OBVIOUS
<1>7. PICK w2 : w2 = [m \in Coefficients |-> g[m0 + m]]
  OBVIOUS
<1>8. ASSUME NEW y \in Nat, y < N
      PROVE  /\ Column(p, q, x, n)[y] \in Int /\ u[y] \in Int /\ Same(Column(p, q, x, n)[y], u[y])
  <2>1. y \in Coefficients
    BY <1>8, CoefficientFact
  <2>2. PICK m : m = IF y < n THEN (N - n) + y ELSE y - n
    OBVIOUS
  <2>3. PairOf(p, q, n, y, m)
    BY <2>1, <2>2, PairOfFact
  <2>4. Column(p, q, x, n)[y] \in Int /\ Same(Column(p, q, x, n)[y], a * g[m])
    BY <1>2, <2>1, <2>3, ColumnTerm
  <2>5. u[y] = a * g[m]
    BY <1>1, <1>5, <2>1, <2>2
  <2>6. m \in Nat /\ m < N
    BY <2>3, CoefficientFact DEF PairOf
  <2>7. g[m] \in Int
    BY <1>3, <2>6
  <2>8. a * g[m] \in Int
    BY <2>7
  <2>9. QED  BY <2>4, <2>5, <2>8
<1>9. Same(Total(N, Column(p, q, x, n)), Total(N, u))
  BY <1>8, DegreeFact, TotalSame
<1>10. Total(N, Column(p, q, x, n)) \in Int
  BY <1>8, DegreeFact, TotalInt
<1>11. Total(n + m0, u) = Total(n, u) + Total(m0, w1)
  <2>1. \A m \in Nat : m < n + m0 => u[m] \in Int
    BY <1>1, <1>8
  <2>2. ASSUME NEW m \in Nat, m < m0 PROVE w1[m] = u[n + m]
    <3>1. m \in Coefficients /\ n + m \in Coefficients /\ ~(n + m < n) /\ (n + m) - n = m
      BY <1>1, <2>2, CoefficientFact
    <3>2. QED  BY <1>5, <1>6, <3>1
  <2>3. QED  BY <1>1, <2>1, <2>2, TotalSplit
<1>12. Total(m0, w1) = a * Total(m0, g)
  <2>1. ASSUME NEW m \in Nat, m < m0 PROVE g[m] \in Int /\ w1[m] = a * g[m]
    <3>1. m < N /\ m \in Coefficients
      BY <1>1, <2>1, CoefficientFact
    <3>2. QED  BY <1>3, <1>6, <3>1
  <2>2. QED  BY <1>1, <2>1, TotalTimes
<1>13. Total(n, u) = a * Total(n, w2)
  <2>1. ASSUME NEW m \in Nat, m < n PROVE w2[m] \in Int /\ u[m] = a * w2[m]
    <3>1. m \in Coefficients /\ m0 + m \in Nat /\ m0 + m < N
      BY <1>1, <2>1, CoefficientFact
    <3>2. w2[m] = g[m0 + m] /\ u[m] = a * g[m0 + m]
      BY <1>5, <1>7, <2>1, <3>1
    <3>3. QED  BY <1>3, <3>1, <3>2
  <2>2. QED  BY <1>1, <2>1, TotalTimes
<1>14. Total(m0 + n, g) = Total(m0, g) + Total(n, w2)
  <2>1. ASSUME NEW m \in Nat, m < n PROVE w2[m] = g[m0 + m]
    <3>1. m \in Coefficients
      BY <1>1, <2>1, CoefficientFact
    <3>2. QED  BY <1>7, <3>1
  <2>2. m0 \in Nat /\ n \in Nat /\ \A m \in Nat : m < m0 + n => g[m] \in Int
    BY <1>1, <1>3
  <2>3. QED  BY ONLY <2>1, <2>2, TotalSplit
<1>15. Total(N, u) = Total(N, g) * a
  <2>1. Total(m0, g) \in Int
    <3>1. \A m \in Nat : m < m0 => g[m] \in Int
      BY <1>1, <1>3
    <3>2. QED  BY <3>1, TotalInt
  <2>2. Total(n, w2) \in Int
    <3>1. ASSUME NEW m \in Nat, m < n PROVE w2[m] \in Int
      <4>1. m \in Coefficients /\ m0 + m \in Nat /\ m0 + m < N
        BY <1>1, <3>1, CoefficientFact
      <4>2. QED  BY <1>3, <1>7, <4>1
    <3>2. QED  BY <1>1, <3>1, TotalInt
  <2>3. PICK s \in Int, t \in Int : s = Total(m0, g) /\ t = Total(n, w2)
    BY <2>1, <2>2
  <2>4. Total(N, u) = a * t + a * s /\ Total(N, g) = s + t
    BY <1>1, <1>11, <1>12, <1>13, <1>14, <2>3
  <2>5. a * t + a * s = (s + t) * a
    OBVIOUS
  <2>6. QED  BY <2>4, <2>5
<1>16. QED  BY <1>2, <1>4, <1>9, <1>10, <1>15

LEMMA RingValues ==
  ASSUME NEW p \in Polynomial, NEW q \in Polynomial, NEW x \in Coefficients
  PROVE  /\ Values(Ring(p, q))[x] \in Int /\ Values(p)[x] \in Int /\ Values(q)[x] \in Int
         /\ Same(Values(Ring(p, q))[x], Values(p)[x] * Values(q)[x])
<1>1. PICK G : G = [y \in Coefficients |-> [n \in Coefficients |-> Weight(x, y) * RingTerms(p, q, y)[n]]]
  OBVIOUS
<1>2. PICK H : H = [n \in Coefficients |-> Column(p, q, x, n)]
  OBVIOUS
<1>3. PICK v : v = [n \in Coefficients |-> Total(N, Column(p, q, x, n))]
  OBVIOUS
<1>4. PICK u : u = ValueTerms(Ring(p, q), x)
  OBVIOUS
<1>5. Ring(p, q) \in Polynomial /\ N \in Nat /\ x \in Nat /\ x < N
  BY RingType, DegreeFact, CoefficientFact
<1>6. \A y, n \in Coefficients : /\ G[y][n] = Weight(x, y) * RingTerms(p, q, y)[n]
                                 /\ H[n][y] = Weight(x, y) * RingTerms(p, q, y)[n]
  BY <1>1, <1>2 DEF Column
<1>7. ASSUME NEW y \in Coefficients PROVE Weight(x, y) \in Int /\ \A n \in Coefficients : RingTerms(p, q, y)[n] \in Int
  BY <1>5, CoefficientFact, WeightIs, RingType
<1>8. \A y, n \in Nat : y < N /\ n < N => G[y][n] \in Int /\ H[n][y] = G[y][n]
  <2>1. ASSUME NEW y \in Nat, NEW n \in Nat, y < N, n < N PROVE G[y][n] \in Int /\ H[n][y] = G[y][n]
    <3>1. y \in Coefficients /\ n \in Coefficients
      BY <2>1, CoefficientFact
    <3>2. PICK w \in Int, r \in Int : w = Weight(x, y) /\ r = RingTerms(p, q, y)[n]
      BY <1>7, <3>1
    <3>3. w * r \in Int /\ G[y][n] = w * r /\ H[n][y] = w * r
      BY <1>6, <3>1, <3>2
    <3>4. QED  BY <3>3
  <2>2. QED  BY <2>1
<1>9. ASSUME NEW y \in Nat, y < N PROVE u[y] = Total(N, G[y])
  <2>1. y \in Coefficients
    BY <1>9, CoefficientFact
  <2>2. u[y] = Ring(p, q)[y] * Weight(x, y) /\ Ring(p, q)[y] = Total(N, RingTerms(p, q, y))
    BY <1>4, <1>5, <1>9, <2>1, ValuesFact DEF Ring
  <2>3. PICK w \in Int : w = Weight(x, y)
    BY <1>7, <2>1
  <2>4. ASSUME NEW n \in Nat, n < N
        PROVE  RingTerms(p, q, y)[n] \in Int /\ G[y][n] = w * RingTerms(p, q, y)[n]
    <3>1. n \in Coefficients
      BY <2>4, CoefficientFact
    <3>2. QED  BY <1>6, <1>7, <2>1, <2>3, <3>1
  <2>5. Total(N, G[y]) = w * Total(N, RingTerms(p, q, y))
    BY <1>5, <2>4, TotalTimes
  <2>6. Total(N, RingTerms(p, q, y)) \in Int
    BY <1>5, <2>4, TotalInt
  <2>7. PICK s \in Int : s = Total(N, RingTerms(p, q, y))
    BY <2>6
  <2>8. w * s = s * w
    OBVIOUS
  <2>9. QED  BY <2>2, <2>3, <2>5, <2>7, <2>8
<1>10. ASSUME NEW n \in Nat, n < N PROVE v[n] = Total(N, H[n])
  <2>1. n \in Coefficients
    BY <1>10, CoefficientFact
  <2>2. QED  BY <1>2, <1>3, <2>1
<1>11. Total(N, u) = Total(N, v)
  <2>1. Rows(G, H, u, v, N, N)
    BY <1>5, <1>8, <1>9, <1>10 DEF Rows
  <2>2. QED  BY <2>1, TotalSwap
<1>12. PICK b \in Int : b = Values(q)[x]
  BY ValuesFact
<1>13. PICK g, w : g = ValueTerms(p, x) /\ w = [n \in Coefficients |-> b * g[n]]
  OBVIOUS
<1>14. ASSUME NEW n \in Nat, n < N
       PROVE  /\ g[n] \in Int /\ w[n] = b * g[n] /\ v[n] \in Int /\ w[n] \in Int /\ Same(v[n], w[n])
  <2>1. n \in Coefficients
    BY <1>14, CoefficientFact
  <2>2. g[n] \in Int /\ w[n] = b * g[n]
    BY <1>13, <1>14, <2>1, ValuesFact
  <2>3. v[n] \in Int /\ Same(v[n], b * g[n])
    BY <1>3, <1>12, <1>13, <2>1, ColumnIs
  <2>4. b * g[n] \in Int
    BY <2>2
  <2>5. QED  BY <2>2, <2>3, <2>4
<1>15. Same(Total(N, v), Total(N, w))
  BY <1>5, <1>14, TotalSame
<1>16. Total(N, w) = b * Total(N, g)
  BY <1>5, <1>14, TotalTimes
<1>17. /\ Values(Ring(p, q))[x] = Total(N, u) /\ Values(Ring(p, q))[x] \in Int
       /\ Values(p)[x] = Total(N, g) /\ Values(p)[x] \in Int
  BY <1>4, <1>5, <1>13, ValuesFact
<1>18. PICK c \in Int : c = Values(p)[x]
  BY <1>17
<1>19. b * c = c * b
  OBVIOUS
<1>20. QED  BY <1>11, <1>12, <1>15, <1>16, <1>17, <1>18, <1>19

\* Polynomials with the same values are the same modulo Q.
LEMMA SameValues ==
  ASSUME NEW p \in Polynomial, NEW q \in Polynomial,
         \A x \in Coefficients : Same(Values(p)[x], Values(q)[x])
  PROVE  \A x \in Coefficients : Mod(p[x]) = Mod(q[x])
<1>1. PICK d : d = [x \in Coefficients |-> p[x] - q[x]]
  OBVIOUS
<1>2. \A x \in Coefficients : p[x] \in Int /\ q[x] \in Int /\ d[x] = p[x] - q[x] /\ d[x] \in Int
  BY <1>1 DEF Polynomial
<1>3. d \in Polynomial
  BY <1>1, <1>2 DEF Polynomial
<1>4. ASSUME NEW x \in Coefficients PROVE Mod(Values(d)[x]) = Mod(0)
  <2>1. ASSUME NEW n \in Nat, n < N
        PROVE  /\ ValueTerms(d, x)[n] \in Int /\ ValueTerms(q, x)[n] \in Int
               /\ ValueTerms(p, x)[n] = ValueTerms(d, x)[n] + ValueTerms(q, x)[n]
    <3>1. n \in Coefficients /\ x \in Nat /\ x < N
      BY <2>1, CoefficientFact
    <3>2. /\ ValueTerms(d, x)[n] = d[n] * Weight(x, n) /\ ValueTerms(d, x)[n] \in Int
          /\ ValueTerms(q, x)[n] = q[n] * Weight(x, n) /\ ValueTerms(q, x)[n] \in Int
          /\ ValueTerms(p, x)[n] = p[n] * Weight(x, n)
      BY <1>3, <2>1, ValuesFact
    <3>3. PICK w \in Int, a \in Int, b \in Int : w = Weight(x, n) /\ a = p[n] /\ b = q[n]
      BY <1>2, <3>1, WeightIs
    <3>4. d[n] = a - b
      BY <1>2, <3>1, <3>3
    <3>5. a * w = (a - b) * w + b * w
      OBVIOUS
    <3>6. QED  BY <3>2, <3>3, <3>4, <3>5
  <2>2. Total(N, ValueTerms(p, x)) = Total(N, ValueTerms(d, x)) + Total(N, ValueTerms(q, x))
    BY <2>1, DegreeFact, TotalPlus
  <2>3. PICK s \in Int, t \in Int, e \in Int : s = Values(p)[x] /\ t = Values(q)[x] /\ e = Values(d)[x]
    BY <1>3, ValuesFact
  <2>4. s = e + t
    BY <1>3, <2>2, <2>3, ValuesFact
  <2>5. PICK c \in Int : s - t = Q * c
    BY <2>3 DEF Same
  <2>6. e - 0 = Q * c
    BY <2>4, <2>5
  <2>7. Same(e, 0) /\ 0 \in Int
    BY <2>6 DEF Same
  <2>8. QED  BY <2>3, <2>7, ModFact
<1>5. Vanishes(d)
  BY <1>3, <1>4, OnlyZeroVanishes
<1>6. ASSUME NEW x \in Coefficients PROVE Mod(p[x]) = Mod(q[x])
  <2>1. PICK c \in Int : d[x] - 0 = Q * c
    BY <1>5 DEF Vanishes, Same
  <2>2. p[x] - q[x] = Q * c
    BY <1>2, <2>1
  <2>3. Same(p[x], q[x])
    BY <2>2 DEF Same
  <2>4. QED  BY <1>2, <2>3, ModFact
<1>7. QED  BY <1>6

-------------------------------------------------------------------------------
(***************************************************************************)
(* What the program computes at the end of each transform.                 *)
(***************************************************************************)
LEMMA TransformIs ==
  \A p : Transform(p) = [x \in Coefficients |-> Mod(Values(p)[x])]
BY DEF Transform, Mod, Values, ValueTerms

LEMMA FactorsOf ==
  ASSUME ForwardIs, NttIndices, npc = "end", NEW x \in Coefficients
  PROVE  /\ \A o \in Operands : Transformed(o) /\ given[o] \in Polynomial /\ f[o] \in Polynomial
         /\ Pairs \in Nat /\ \A m \in Nat : m < Pairs => m \in Operands /\ Pairs + m \in Operands
<1>1. ~Forward
  BY DEF Forward
<1>2. Pairs \in Nat
  BY BoundFacts DEF Pairs
<1>3. QED  BY <1>1, <1>2 DEF ForwardIs, NttIndices, Operands

LEMMA PointCorrect ==
  ASSUME TransformsCorrect, NttIndices, npc = "end", kind = "point"
  PROVE  Modulo(h) = Negacyclic(given[0], given[1])
<1>1. ForwardIs /\ ScaleIs /\ h \in Polynomial
  BY DEF TransformsCorrect, NttIndices
<1>2. Pairs = 1 /\ 0 \in Operands /\ 1 \in Operands
  BY DEF Pairs, Operands
<1>3. PICK p, q : p = given[0] /\ q = given[1]
  OBVIOUS
<1>4. p \in Polynomial /\ q \in Polynomial /\ f[0] \in Polynomial /\ f[1] \in Polynomial
  <2>1. 0 \in Coefficients
    BY DegreeFact, CoefficientFact
  <2>2. QED  BY <1>1, <1>2, <1>3, <2>1, FactorsOf
<1>5. \A x \in Coefficients : Mod(f[0][x]) = Mod(Values(p)[x]) /\ Mod(f[1][x]) = Mod(Values(q)[x])
  BY <1>1, <1>2, <1>3, FactorsOf DEF Transformed
<1>6. ASSUME NEW x \in Coefficients PROVE Same(Values(h)[x], Values(Ring(p, q))[x])
  <2>1. ProductAt(x) = f[0][x] * f[1][x]
    <3>1. ProductTerms(x)[0] = f[0][x] * f[1 + 0][x] /\ ProductTerms(x)[0] \in Int
      BY <1>2, ProductFact
    <3>2. Total(0 + 1, ProductTerms(x)) = Total(0, ProductTerms(x)) + ProductTerms(x)[0] /\ Total(0, ProductTerms(x)) = 0
      BY TotalNext
    <3>3. QED  BY <1>2, <3>1, <3>2 DEF ProductAt
  <2>2. PICK a \in Int, b \in Int, vp \in Int, vq \in Int, vh \in Int, vr \in Int :
          /\ a = f[0][x] /\ b = f[1][x] /\ vp = Values(p)[x] /\ vq = Values(q)[x]
          /\ vh = Values(h)[x] /\ vr = Values(Ring(p, q))[x]
    <3>1. f[0][x] \in Int /\ f[1][x] \in Int
      BY <1>4 DEF Polynomial
    <3>2. QED  BY <1>1, <1>4, <3>1, ValuesFact, RingValues
  <2>3. Same(a, vp) /\ Same(b, vq)
    BY <1>5, <2>2, ModFact
  <2>4. Same(a * b, vp * vq)
    BY <2>3, SameTimes
  <2>5. a * b \in Int /\ vp * vq \in Int
    OBVIOUS
  <2>6. Same(vh, a * b)
    BY <1>1, <2>1, <2>2, <2>5, ModFact DEF ScaleIs
  <2>7. Same(vr, vp * vq)
    BY <1>4, <2>2, RingValues
  <2>8. Same(vp * vq, vr)
    BY <2>5, <2>7, SameSym
  <2>9. Same(vh, vp * vq)
    BY <2>4, <2>5, <2>6, SameTrans
  <2>10. QED  BY <2>2, <2>5, <2>8, <2>9, SameTrans
<1>7. \A x \in Coefficients : Mod(h[x]) = Mod(Ring(p, q)[x])
  BY <1>1, <1>4, <1>6, RingType, SameValues
<1>8. Negacyclic(p, q) = [x \in Coefficients |-> Mod(Ring(p, q)[x])]
  BY DEF Negacyclic, Mod, Ring, RingTerms
<1>9. Modulo(h) = [x \in Coefficients |-> Mod(h[x])]
  BY DEF Modulo, Mod
<1>10. QED  BY <1>3, <1>7, <1>8, <1>9

LEMMA RowCorrect ==
  ASSUME TransformsCorrect, NttIndices, npc = "end", kind = "acc"
  PROVE  Transform(h) = [x \in Coefficients |->
           Total(L, [o \in 0 .. L - 1 |-> given[o][x] * Transform(given[L + o])[x]]) % Q]
<1>1. ForwardIs /\ ScaleIs /\ h \in Polynomial /\ Pairs = L /\ L \in Nat
  BY BoundFacts DEF TransformsCorrect, NttIndices, Pairs
<1>2. ASSUME NEW x \in Coefficients
      PROVE  Mod(Values(h)[x]) = Total(L, [o \in 0 .. L - 1 |-> given[o][x] * Transform(given[L + o])[x]]) % Q
  <2>1. PICK g : g = [o \in 0 .. L - 1 |-> given[o][x] * Transform(given[L + o])[x]]
    OBVIOUS
  <2>2. ASSUME NEW o \in Nat, o < L
        PROVE  ProductTerms(x)[o] \in Int /\ g[o] \in Int /\ Same(ProductTerms(x)[o], g[o])
    <3>1. /\ o \in Operands /\ L + o \in Operands /\ Transformed(o) /\ Transformed(L + o)
          /\ given[o] \in Polynomial /\ given[L + o] \in Polynomial /\ f[L + o] \in Polynomial
      BY <1>1, <2>2, FactorsOf
    <3>2. f[o] = given[o] /\ \A y \in Coefficients : Mod(f[L + o][y]) = Mod(Values(given[L + o])[y])
      <4>1. ~(L + o < L)
        BY <1>1
      <4>2. QED  BY <2>2, <3>1, <4>1 DEF Transformed
    <3>3. ProductTerms(x)[o] = f[o][x] * f[L + o][x] /\ ProductTerms(x)[o] \in Int
      BY <1>1, <2>2, ProductFact
    <3>4. g[o] = given[o][x] * Mod(Values(given[L + o])[x])
      BY <1>1, <2>1, <2>2, TransformIs
    <3>5. PICK a \in Int, b \in Int, s \in Int, m \in Int :
            a = given[o][x] /\ b = f[L + o][x] /\ s = Values(given[L + o])[x] /\ m = Mod(Values(given[L + o])[x])
      <4>1. given[o][x] \in Int /\ f[L + o][x] \in Int
        BY <3>1 DEF Polynomial
      <4>2. Values(given[L + o])[x] \in Int
        BY <3>1, ValuesFact
      <4>3. Mod(Values(given[L + o])[x]) \in Int
        BY <4>2, SameMod DEF Mod
      <4>4. QED  BY <4>1, <4>2, <4>3
    <3>6. Same(b, m)
      <4>1. Same(b, s)
        BY <3>2, <3>5, ModFact
      <4>2. Same(s, m)
        BY <3>5, SameMod DEF Mod
      <4>3. QED  BY <4>1, <4>2, SameTrans
    <3>7. Same(a * b, a * m)
      BY <3>6, SameRefl, SameTimes
    <3>8. a * m \in Int
      OBVIOUS
    <3>9. QED  BY <3>2, <3>3, <3>4, <3>5, <3>7, <3>8
  <2>3. Same(Total(L, ProductTerms(x)), Total(L, g))
    BY <1>1, <2>2, TotalSame
  <2>4. Total(L, ProductTerms(x)) \in Int /\ Total(L, g) \in Int
    BY <1>1, <2>2, TotalInt
  <2>5. Mod(Values(h)[x]) = Mod(Total(L, ProductTerms(x)))
    BY <1>1 DEF ScaleIs, ProductAt
  <2>6. Mod(Total(L, ProductTerms(x))) = Mod(Total(L, g))
    BY <2>3, <2>4, ModFact
  <2>7. QED  BY <2>1, <2>5, <2>6 DEF Mod
<1>3. QED  BY <1>2, TransformIs

LEMMA TransformCorrect ==
  ASSUME TransformsCorrect, NttIndices, npc = "layer", layer > LAYERS
  PROVE  Modulo(f[op]) = Transform(given[op])
<1>1. ForwardIs /\ f[op] \in Polynomial
  BY DEF TransformsCorrect, NttIndices
<1>2. LAYERS + 1 - layer = 0
  BY PowFact DEF NttIndices
<1>3. Blocks(f[op], 1, Values(given[op]))
  BY <1>1, <1>2, PowFact DEF ForwardIs
<1>4. \A x \in Coefficients : Mod(f[op][x]) = Mod(Values(given[op])[x])
  BY <1>1, <1>3, OneBlock
<1>5. Modulo(f[op]) = [x \in Coefficients |-> Mod(f[op][x])]
  BY DEF Modulo, Mod
<1>6. QED  BY <1>4, <1>5, TransformIs

\* ProductIsNegacyclic: the forward transform computes the values at the roots of
\* unity in the order of FIPS 204, and the inverse transform of the products,
\* whose scaling takes the factors of Montgomery's reductions out, the product of
\* two polynomials modulo X^N + 1 or of a row of the matrix and a vector: for
\* every number of layers and every modulus, root and operands.
THEOREM NttMultiplies == NttSpec => []ProductIsNegacyclic
<1>1. NttInit => NttInv /\ TransformsCorrect
  BY NttInitInv, CorrectAtStart
<1>2. NttInv /\ TransformsCorrect /\ [NttNext]_nvars => (NttInv /\ TransformsCorrect)'
  BY NttInvStep, CorrectSteps
<1>3. NttInv /\ TransformsCorrect => ProductIsNegacyclic
  <2> SUFFICES ASSUME NttInv, TransformsCorrect PROVE ProductIsNegacyclic
    OBVIOUS
  <2>1. NttIndices
    BY DEF NttInv, NttInBounds
  <2>2. QED  BY <2>1, TransformCorrect, PointCorrect, RowCorrect DEF ProductIsNegacyclic
<1>4. QED  BY <1>1, <1>2, <1>3, PTL DEF NttSpec
===============================================================================
