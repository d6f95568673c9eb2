---------------------------- MODULE SamplerProofs ----------------------------
(***************************************************************************)
(* The rejection samplers fill every polynomial with the acceptable        *)
(* candidates of its stream, in order, and store nowhere else: for every   *)
(* degree, batch, block and vector size that the assumption allows, and    *)
(* for any number of rejections.  The challenge sampler, the last part,    *)
(* places TAU coefficients: for every degree, weight, rate and stream.     *)
(***************************************************************************)
EXTENDS RejSampler, Challenge, FiniteSetTheorems, FunctionTheorems, TLAPS

-------------------------------------------------------------------------------
(***************************************************************************)
(* Counting.                                                               *)
(***************************************************************************)
Rank(S, x) == Cardinality({y \in S : y < x})

LEMMA FinitePart ==
  ASSUME NEW S, IsFiniteSet(S), NEW T \in SUBSET S
  PROVE  /\ IsFiniteSet(T) /\ Cardinality(T) \in Nat /\ Cardinality(T) <= Cardinality(S)
         /\ T # S => Cardinality(T) < Cardinality(S)
BY FS_Subset, FS_CardinalityType

LEMMA RankRises ==
  ASSUME NEW S \in SUBSET Int, IsFiniteSet(S), NEW x \in S, NEW y \in S
  PROVE  /\ Rank(S, x) \in Nat /\ Rank(S, x) < Cardinality(S)
         /\ Rank(S, x) = Rank(S, y) => x = y
<1> DEFINE Before(v) == {z \in S : z < v}
<1>1. \A v : Rank(S, v) = Cardinality(Before(v)) /\ Before(v) \subseteq S
  BY DEF Rank
<1>i. \A v \in S : v \in Int
  OBVIOUS
<1>2. ASSUME NEW u \in S, NEW v \in S, u < v
      PROVE  Before(u) \subseteq Before(v) /\ u \in Before(v) /\ u \notin Before(u)
  <2>1. \A z \in S : z < u => z < v
    BY <1>i, <1>2
  <2>2. ~(u < u)
    BY <1>i
  <2> QED  BY <1>2, <2>1, <2>2
<1>3. \A v \in S : v \notin Before(v)
  BY <1>i
<1> HIDE DEF Before
<1>4. \A v \in S : IsFiniteSet(Before(v)) /\ Rank(S, v) \in Nat /\ Rank(S, v) < Cardinality(S)
  BY <1>1, <1>3, FinitePart
<1>5. \A u, v \in S : u < v => Rank(S, u) < Rank(S, v)
  <2> SUFFICES ASSUME NEW u \in S, NEW v \in S, u < v PROVE Rank(S, u) < Rank(S, v)
    OBVIOUS
  <2>1. Before(u) \in SUBSET Before(v) /\ Before(u) # Before(v) /\ IsFiniteSet(Before(v))
    BY <1>2, <1>4
  <2> QED  BY <1>1, <2>1, FinitePart
<1> QED  BY <1>4, <1>5

\* Every number below the cardinality is the rank of one element.
LEMMA IthHasRank ==
  ASSUME NEW S \in SUBSET Int, IsFiniteSet(S), NEW i \in Nat, i < Cardinality(S)
  PROVE  Ith(S, i) \in S /\ Rank(S, Ith(S, i)) = i
<1> DEFINE c == Cardinality(S)
           T == 0 .. c - 1
           rank == [x \in S |-> Rank(S, x)]
<1>1. c \in Nat
  BY FS_CardinalityType
<1>2. rank \in [S -> T]
  <2> SUFFICES ASSUME NEW x \in S PROVE Rank(S, x) \in T
    OBVIOUS
  <2>1. Rank(S, x) \in Nat /\ Rank(S, x) < c
    BY RankRises
  <2> QED  BY <1>1, <2>1
<1>3. \A x, y \in S : rank[x] = rank[y] => x = y
  BY RankRises
<1>4. rank \in Injection(S, T)
  BY <1>2, <1>3, Fun_IsInj
<1>5. IsFiniteSet(T) /\ Cardinality(T) = c
  <2> HIDE DEF c
  <2>1. 0 \in Int /\ c - 1 \in Int /\ (0 > c - 1 => c = 0) /\ c - 1 - 0 + 1 = c
    BY <1>1
  <2> QED  BY <2>1, FS_Interval
<1>6. rank \in Surjection(S, T)
  BY <1>4, <1>5, FS_Injection
<1>7. i \in T
  BY <1>1
<1>8. \E x \in S : rank[x] = i
  <2> HIDE DEF rank, T
  <2> QED  BY <1>6, <1>7 DEF Surjection
<1>9. \E x \in S : Cardinality({y \in S : y < x}) = i
  BY <1>8 DEF Rank
<1> QED  BY <1>9 DEF Ith, Rank

LEMMA IthIsUnique ==
  ASSUME NEW S \in SUBSET Int, IsFiniteSet(S), NEW x \in S
  PROVE  Ith(S, Rank(S, x)) = x
BY RankRises, IthHasRank

\* The ranks of a set that is moved by b.
Shift(S, b) == {x - b : x \in S}

LEMMA ShiftedRank ==
  ASSUME NEW S \in SUBSET Int, IsFiniteSet(S), NEW b \in Int
  PROVE  LET T == Shift(S, b) IN
         /\ T \subseteq Int /\ IsFiniteSet(T) /\ Cardinality(T) = Cardinality(S)
         /\ \A i \in Nat : i < Cardinality(S) => Ith(S, i) = b + Ith(T, i)
<1> DEFINE T == Shift(S, b)
<1>t. T = {x - b : x \in S}
  BY DEF Shift
<1> HIDE DEF T
<1>1. ASSUME NEW U \in SUBSET S
      PROVE  IsFiniteSet({x - b : x \in U}) /\ Cardinality({x - b : x \in U}) = Cardinality(U)
  <2> DEFINE V == {x - b : x \in U}
             f == [x \in U |-> x - b]
  <2>1. f \in [U -> V] /\ \A x, y \in U : f[x] = f[y] => x = y
    OBVIOUS
  <2>2. \A v \in V : \E x \in U : f[x] = v
    OBVIOUS
  <2>3. f \in Bijection(U, V)
    BY <2>1, <2>2, Fun_IsBij
  <2>4. IsFiniteSet(U)
    BY FS_Subset
  <2> QED  BY <2>3, <2>4, FS_Bijection DEF ExistsBijection
<1>2. T \subseteq Int /\ IsFiniteSet(T) /\ Cardinality(T) = Cardinality(S)
  BY <1>t, <1>1
<1>3. ASSUME NEW i \in Nat, i < Cardinality(S) PROVE Ith(S, i) = b + Ith(T, i)
  <2> DEFINE t == Ith(T, i)
             U == {x \in S : x < b + t}
  <2>1. t \in T /\ Rank(T, t) = i
    BY <1>2, <1>3, IthHasRank
  <2>2. b + t \in S /\ t \in Int
    BY <1>t, <1>2, <2>1
  <2> HIDE DEF t
  <2>3. {y \in T : y < t} = {x - b : x \in U}
    <3>1. \A x \in S : x - b < t <=> x < b + t
      BY <2>2
    <3>2. {y \in {x - b : x \in S} : y < t} = {x - b : x \in U}
      BY <3>1
    <3> QED  BY <1>t, <3>2
  <2>4. Rank(S, b + t) = i
    BY <1>1, <2>1, <2>3 DEF Rank
  <2> QED  BY <2>2, <2>4, IthIsUnique DEF t
<1> QED  BY <1>2, <1>3 DEF T

-------------------------------------------------------------------------------
(***************************************************************************)
(* Multiples.                                                              *)
(***************************************************************************)
Multiple(x, d) == \E m \in Nat : x = m * d

LEMMA ZeroIsMultiple == \A d \in Nat : Multiple(0, d)
<1> SUFFICES ASSUME NEW d \in Nat PROVE Multiple(0, d)
  OBVIOUS
<1>1. 0 \in Nat /\ 0 = 0 * d
  OBVIOUS
<1> QED  BY <1>1, Zenon DEF Multiple

LEMMA ModIsMultiple ==
  ASSUME NEW x \in Nat, NEW d \in Nat, d >= 1, x % d = 0
  PROVE  Multiple(x, d)
<1>1. x = d * (x \div d) + (x % d) /\ x \div d \in Nat
  BY SMT
<1>2. d * (x \div d) = (x \div d) * d
  BY <1>1, SMT
<1>3. x = (x \div d) * d
  BY <1>1, <1>2
<1> QED  BY <1>1, <1>3 DEF Multiple

LEMMA MultiplesAdd ==
  ASSUME NEW x, NEW y, NEW d \in Nat, Multiple(x, d), Multiple(y, d)
  PROVE  Multiple(x + y, d)
<1>1. PICK m \in Nat : x = m * d
  BY DEF Multiple
<1>2. PICK n \in Nat : y = n * d
  BY DEF Multiple
<1>3. x + y = (m + n) * d /\ m + n \in Nat
  BY <1>1, <1>2, SMT
<1> QED  BY <1>3 DEF Multiple

LEMMA MultipleTimes ==
  ASSUME NEW x, NEW k \in Nat, NEW d \in Nat, Multiple(x, d)
  PROVE  Multiple(k * x, d)
<1>1. PICK m \in Nat : x = m * d
  BY DEF Multiple
<1>2. k * x = (k * m) * d /\ k * m \in Nat
  BY <1>1, SMT
<1> QED  BY <1>2 DEF Multiple

\* Multiples that are different are at least d apart.
LEMMA MultiplesApart ==
  ASSUME NEW x \in Nat, NEW y \in Nat, NEW d \in Nat, Multiple(x, d), Multiple(y, d),
         x <= y, y < x + d
  PROVE  x = y
<1>1. PICK m \in Nat : x = m * d
  BY DEF Multiple
<1>2. PICK n \in Nat : y = n * d
  BY DEF Multiple
<1>3. CASE n <= m
  <2>1. (m - n) * d >= 0  BY <1>3, SMT
  <2>2. (m - n) * d = m * d - n * d  BY SMT
  <2> QED  BY <1>1, <1>2, <2>1, <2>2
<1>4. CASE n >= m + 1
  <2>1. (n - (m + 1)) * d >= 0  BY <1>4, SMT
  <2>2. (n - (m + 1)) * d = n * d - m * d - d  BY SMT
  <2> QED  BY <1>1, <1>2, <2>1, <2>2
<1> QED  BY <1>3, <1>4

LEMMA QuotientBelow ==
  ASSUME NEW x \in Nat, NEW d \in Nat, d >= 1, NEW k \in Nat
  PROVE  /\ x \div d \in Nat
         /\ x \div d < k => x < k * d
         /\ k <= x \div d => k * d <= x
<1> DEFINE q == x \div d
<1>1. q \in Nat /\ q * d <= x /\ x < q * d + d
  BY SMT
<1> HIDE DEF q
<1>2. ASSUME q < k PROVE x < k * d
  <2>1. (k - (q + 1)) * d >= 0  BY <1>1, <1>2, SMT
  <2>2. (k - (q + 1)) * d = k * d - q * d - d  BY <1>1, SMT
  <2>3. k * d \in Int /\ q * d \in Int  BY <1>1
  <2> QED  BY <1>1, <2>1, <2>2, <2>3
<1>3. ASSUME k <= q PROVE k * d <= x
  <2>1. (q - k) * d >= 0  BY <1>1, <1>3, SMT
  <2>2. (q - k) * d = q * d - k * d  BY <1>1, SMT
  <2>3. k * d \in Int /\ q * d \in Int  BY <1>1
  <2> QED  BY <1>1, <2>1, <2>2, <2>3
<1> QED  BY <1>1, <1>2, <1>3 DEF q

LEMMA QuotientExact ==
  ASSUME NEW k \in Nat, NEW d \in Nat, d >= 1
  PROVE  (d * k) \div d = k /\ (d * k) % d = 0
<1> DEFINE x == d * k
           q == x \div d
<1>1. x \in Nat /\ x = k * d
  BY SMT
<1>2. q <= k
  <2>1. (k + 1) * d = k * d + d  BY SMT
  <2>2. ~(k + 1 <= q)
    <3> HIDE DEF x, q
    <3>1. k + 1 <= q => (k + 1) * d <= x  BY <1>1, QuotientBelow DEF q
    <3> QED  BY <1>1, <2>1, <3>1
  <2> QED  BY <1>1, <2>2, QuotientBelow
<1>3. q >= k
  <2>1. q < k => x < k * d  BY <1>1, QuotientBelow
  <2> QED  BY <1>1, <2>1, QuotientBelow
<1>4. q = k
  BY <1>1, <1>2, <1>3, QuotientBelow
<1>5. x = d * q + (x % d) /\ x % d \in Nat
  BY <1>1, SMT
<1>6. x % d = 0
  <2> HIDE DEF q
  <2>1. d * q = x  BY <1>4
  <2> HIDE DEF x
  <2> QED  BY <1>1, <1>5, <2>1
<1> QED  BY <1>4, <1>6

-------------------------------------------------------------------------------
(***************************************************************************)
(* A polynomial that is being filled.  sn are the candidates that were     *)
(* read of its stream, gd the acceptable ones, and m holds the first n.    *)
(***************************************************************************)
Ordered(m, n, gd) == \A i \in 0 .. n - 1 : m[i] \in gd /\ Rank(gd, m[i]) = i

Partial(sn, gd, m, n, upto) ==
  /\ sn = 0 .. upto - 1 /\ gd \subseteq sn
  /\ n = Cardinality(gd)
  /\ Ordered(m, n, gd)

Complete(sn, gd, m, upto) ==
  /\ gd \subseteq sn
  /\ \E c \in Nat : sn = 0 .. c - 1 /\ c <= upto
  /\ Ordered(m, N, gd)

\* The next n candidates are read, of which S are acceptable; the first j of them
\* are stored behind the k that m holds, which makes it m2.
Takes(b, n, sn, gd, m, k, S, j, m2) ==
  /\ b \in Nat /\ n \in Nat /\ j \in Nat
  /\ Partial(sn, gd, m, k, b)
  /\ S \subseteq b .. b + n - 1 /\ j <= Cardinality(S)
  /\ \A i \in 0 .. k - 1 : m2[i] = m[i]
  /\ \A i \in 0 .. j - 1 : m2[k + i] = Ith(S, i)

LEMMA TakeNext ==
  ASSUME NEW b, NEW n, NEW sn, NEW gd, NEW m, NEW k, NEW S, NEW j, NEW m2,
         Takes(b, n, sn, gd, m, k, S, j, m2)
  PROVE  LET g == gd \cup S IN
         /\ k \in Nat /\ Cardinality(S) \in Nat /\ Cardinality(S) <= n
         /\ sn \cup (b .. b + n - 1) = 0 .. b + n - 1
         /\ g \subseteq 0 .. b + n - 1
         /\ Ordered(m2, k + j, g)
         /\ j = Cardinality(S) => Partial(0 .. b + n - 1, g, m2, k + j, b + n)
<1>g. PICK g : g = gd \cup S
  OBVIOUS
<1>0. /\ b \in Nat /\ n \in Nat /\ j \in Nat /\ Partial(sn, gd, m, k, b)
      /\ S \in SUBSET (b .. b + n - 1) /\ j <= Cardinality(S)
      /\ \A i \in 0 .. k - 1 : m2[i] = m[i]
      /\ \A i \in 0 .. j - 1 : m2[k + i] = Ith(S, i)
  BY DEF Takes
<1>1. sn = 0 .. b - 1 /\ gd \subseteq 0 .. b - 1 /\ k = Cardinality(gd) /\ Ordered(m, k, gd)
  BY <1>0 DEF Partial
<1> USE <1>0, <1>g
<1>2. sn \cup (b .. b + n - 1) = 0 .. b + n - 1
  BY <1>1
<1>3. g \subseteq 0 .. b + n - 1
  BY <1>1
<1>4. IsFiniteSet(0 .. b - 1) /\ IsFiniteSet(b .. b + n - 1) /\ Cardinality(b .. b + n - 1) = n
  <2>1. b \in Int /\ b + n - 1 \in Int /\ (b > b + n - 1 => n = 0)
        /\ ((b + n - 1) - b) + 1 = n
    OBVIOUS
  <2>2. 0 \in Int /\ b - 1 \in Int
    OBVIOUS
  <2> QED  BY <2>1, <2>2, FS_Interval
<1>5. /\ IsFiniteSet(gd) /\ k \in Nat
      /\ IsFiniteSet(S) /\ Cardinality(S) \in Nat /\ Cardinality(S) <= n
  BY <1>1, <1>4, FinitePart
<1>6. \A x \in gd, y \in S : x < y /\ x \in Int /\ y \in Int
  BY <1>1
<1>7. ASSUME NEW T \in SUBSET S
      PROVE  Cardinality(gd \cup T) = k + Cardinality(T)
  <2>1. IsFiniteSet(T) /\ Cardinality(T) \in Nat
    BY <1>5, FinitePart
  <2>2. gd \cap T = {}
    <3> SUFFICES ASSUME NEW x \in gd, x \in S PROVE FALSE
      OBVIOUS
    <3>1. x < x /\ x \in Int
      BY <1>6
    <3> QED  BY <3>1
  <2>3. Cardinality(gd \cup T) = Cardinality(gd) + Cardinality(T) - Cardinality({})
    BY <1>5, <2>1, <2>2, FS_Union
  <2>4. Cardinality({}) = 0
    BY FS_EmptySet
  <2> QED  BY <1>1, <1>5, <2>1, <2>3, <2>4
<1>8. ASSUME NEW x \in gd PROVE Rank(g, x) = Rank(gd, x)
  <2>1. \A y \in S : ~(y < x)
    BY <1>6
  <2>2. {y \in g : y < x} = {y \in gd : y < x}
    BY <2>1
  <2> QED  BY <2>2 DEF Rank
<1>9. ASSUME NEW x \in S PROVE Rank(g, x) = k + Rank(S, x)
  <2>1. \A y \in gd : y < x
    BY <1>6
  <2>2. {y \in g : y < x} = gd \cup {y \in S : y < x}
    BY <2>1
  <2>3. {y \in S : y < x} \in SUBSET S
    OBVIOUS
  <2> QED  BY <1>7, <2>2, <2>3 DEF Rank
<1>10. ASSUME NEW i \in 0 .. k + j - 1
       PROVE  m2[i] \in g /\ Rank(g, m2[i]) = i
  <2>1. CASE i < k
    <3>1. i \in 0 .. k - 1
      BY <1>5, <2>1
    <3>2. m2[i] \in gd /\ Rank(gd, m2[i]) = i
      BY <1>1, <3>1 DEF Ordered
    <3> QED  BY <1>8, <3>2
  <2>2. CASE i >= k
    <3>1. i - k \in 0 .. j - 1 /\ i - k \in Nat /\ k + (i - k) = i /\ i - k < Cardinality(S)
      BY <1>5, <2>2
    <3>2. m2[i] = Ith(S, i - k)
      BY <3>1
    <3>3. S \in SUBSET Int
      BY <1>6 DEF Partial
    <3>4. m2[i] \in S /\ Rank(S, m2[i]) = i - k
      BY <1>5, <3>1, <3>2, <3>3, IthHasRank
    <3> QED  BY <1>5, <1>9, <3>1, <3>4
  <2> QED  BY <1>5, <2>1, <2>2
<1>11. Ordered(m2, k + j, g)
  <2>1. 0 .. (k + j) - 1 = 0 .. k + j - 1
    BY <1>5
  <2>2. \A i \in 0 .. (k + j) - 1 : m2[i] \in g /\ Rank(g, m2[i]) = i
    BY <1>10, <2>1
  <2> QED  BY <2>2 DEF Ordered
<1>12. j = Cardinality(S) => k + j = Cardinality(g)
  BY <1>7
<1>13. 0 .. b + n - 1 = 0 .. (b + n) - 1
  OBVIOUS
<1> QED  BY <1>2, <1>3, <1>5, <1>11, <1>12, <1>13 DEF Partial

\* The same for a polynomial of which no more than N coefficients are stored.
LEMMA Fills ==
  ASSUME N \in Nat,
         NEW b, NEW n, NEW sn, NEW gd, NEW m, NEW k, NEW S, NEW j, NEW m2,
         Takes(b, n, sn, gd, m, k, S, j, m2),
         k + j <= N, k + j < N => j = Cardinality(S)
  PROVE  /\ k + j < N => Partial(sn \cup (b .. b + n - 1), gd \cup S, m2, k + j, b + n)
         /\ k + j >= N => Complete(sn \cup (b .. b + n - 1), gd \cup S, m2, b + n)
<1>1. /\ k \in Nat /\ sn \cup (b .. b + n - 1) = 0 .. b + n - 1
      /\ gd \cup S \subseteq 0 .. b + n - 1 /\ Ordered(m2, k + j, gd \cup S)
      /\ j = Cardinality(S) => Partial(0 .. b + n - 1, gd \cup S, m2, k + j, b + n)
  BY TakeNext
<1>0. b \in Nat /\ n \in Nat /\ j \in Nat
  BY DEF Takes
<1>2. 0 .. b + n - 1 = 0 .. (b + n) - 1 /\ b + n \in Nat
  BY <1>0
<1>3. CASE k + j < N
  <2>1. ~(k + j >= N)
    BY <1>0, <1>1, <1>3
  <2> QED  BY <1>1, <1>3, <2>1
<1>4. CASE k + j >= N
  <2>1. k + j = N /\ ~(k + j < N)
    BY <1>0, <1>1, <1>4
  <2>2. Ordered(m2, N, gd \cup S)
    BY <1>1, <2>1
  <2>3. \E c \in Nat : sn \cup (b .. b + n - 1) = 0 .. c - 1 /\ c <= b + n
    <3>1. b + n \in Nat /\ b + n <= b + n /\ sn \cup (b .. b + n - 1) = 0 .. (b + n) - 1
      BY <1>0, <1>1, <1>2
    <3> QED  BY <3>1
  <2> QED  BY <1>1, <2>1, <2>2, <2>3 DEF Complete
<1> QED  BY <1>0, <1>1, <1>3, <1>4

\* Of n candidates, no more than n are acceptable.
LEMMA AcceptableOfRead ==
  ASSUME NEW b \in Nat, NEW n \in Nat, NEW S \in SUBSET (b .. b + n - 1)
  PROVE  IsFiniteSet(S) /\ Cardinality(S) \in Nat /\ Cardinality(S) <= n
<1>1. b \in Int /\ b + n - 1 \in Int /\ ((b + n - 1) - b) + 1 = n /\ (b > b + n - 1 => n = 0)
  OBVIOUS
<1>2. IsFiniteSet(b .. b + n - 1) /\ Cardinality(b .. b + n - 1) = n
  BY <1>1, FS_Interval
<1> QED  BY <1>2, FinitePart

\* Fewer coefficients than there are acceptable candidates are in order as well.
LEMMA OrderedPrefix ==
  ASSUME NEW m, NEW gd, NEW n \in Nat, NEW k \in Nat, k <= n, Ordered(m, n, gd),
         NEW m2, \A i \in 0 .. k - 1 : m2[i] = m[i]
  PROVE  Ordered(m2, k, gd)
BY DEF Ordered

-------------------------------------------------------------------------------
(***************************************************************************)
(* A sampler.                                                              *)
(***************************************************************************)
LEMMA Sizes ==
  ASSUME sampler \in Samplers
  PROVE  /\ N \in Nat /\ N >= 1 /\ Ways \in Nat /\ Ways >= 1 /\ Unit \in Nat /\ Unit >= 1
         /\ Block \in Nat /\ NBlocks \in Nat /\ NBlocks * Block \in Nat
         /\ Lanes \in Nat /\ Lanes >= 1 /\ Lanes <= N /\ Width \in Nat /\ Width >= 1
         /\ Groups \in Nat /\ Groups >= 1 /\ Groups * Lanes \in Nat
         /\ Ahead \in Nat /\ Ahead >= Groups * Lanes
         /\ Tail \in Nat /\ Tail < Groups
         /\ Multiple(Block, Unit) /\ Multiple(NBlocks * Block, Unit) /\ Multiple(Lanes, Unit)
         /\ backend = "aarch64" => 2 * Tail \in {0, Groups} /\ Width * Lanes <= 255
<1>1. /\ {N, Ways, Block, NBlocks, Unit, Lanes, Groups, Width} \subseteq Nat \ {0}
      /\ Block % Unit = 0 /\ Lanes % Unit = 0 /\ Lanes <= N
      /\ Ahead \in Nat /\ Ahead >= Groups * Lanes
      /\ Tail \in 0 .. Groups - 1
      /\ backend = "aarch64" => 2 * Tail \in {0, Groups} /\ Width * Lanes <= 255
  BY SamplerAssumption
     DEF N, Ways, Block, NBlocks, Unit, Lanes, Groups, Tail, Ahead, Width, backend
<1>2. /\ N \in Nat /\ N >= 1 /\ Ways \in Nat /\ Ways >= 1 /\ Unit \in Nat /\ Unit >= 1
      /\ Block \in Nat /\ NBlocks \in Nat /\ Width \in Nat /\ Width >= 1
      /\ Lanes \in Nat /\ Lanes >= 1 /\ Groups \in Nat /\ Groups >= 1
  BY <1>1
<1>3. Multiple(Block, Unit) /\ Multiple(Lanes, Unit)
  BY <1>1, <1>2, ModIsMultiple
<1>4. Multiple(NBlocks * Block, Unit)
  BY <1>2, <1>3, MultipleTimes
<1>5. NBlocks * Block \in Nat /\ Groups * Lanes \in Nat
  BY <1>2, SMT
<1> QED  BY <1>1, <1>2, <1>3, <1>4, <1>5

\* The tables bring the acceptable lanes to the front of a vector, in order.
LEMMA PackedLanes ==
  ASSUME sampler \in Samplers, base \in Nat, pos \in Nat,
         NEW S \in Here(Lanes), NEW i \in Nat, i < Cardinality(S)
  PROVE  /\ i < Lanes
         /\ Permute(Vector, LaneTable(LanesOf(S)))[i] = Ith(S, i)
         /\ backend = "aarch64" => Tbl(Vector, ByteTable(LanesOf(S)))[i] = Ith(S, i)
<1> DEFINE T == LanesOf(S)
           q == Ith(T, i)
           c == Cardinality(T)
<1>1. Lanes \in Nat /\ Width \in Nat /\ Width >= 1
  BY Sizes
<1>2. PICK b \in Nat : b = base + pos
  OBVIOUS
<1>3. S \subseteq b .. b + Lanes - 1 /\ T = {x - b : x \in S}
  BY <1>2 DEF Here, LanesOf
<1>4. IsFiniteSet(b .. b + Lanes - 1) /\ Cardinality(b .. b + Lanes - 1) = Lanes
  <2>1. /\ b \in Int /\ b + Lanes - 1 \in Int /\ (b > b + Lanes - 1 => Lanes = 0)
        /\ ((b + Lanes - 1) - b) + 1 = Lanes
    BY <1>1
  <2> QED  BY <1>1, <2>1, FS_Interval
<1>5. S \in SUBSET Int /\ IsFiniteSet(S) /\ Cardinality(S) \in Nat /\ Cardinality(S) <= Lanes
  <2>1. S \in SUBSET (b .. b + Lanes - 1)
    BY <1>3
  <2>2. S \in SUBSET Int
    BY <1>1, <2>1
  <2> QED  BY <1>4, <2>1, <2>2, FinitePart
<1>6. /\ T \in SUBSET Int /\ IsFiniteSet(T) /\ c = Cardinality(S)
      /\ Ith(S, i) = b + Ith(T, i)
  <2>1. b \in Int /\ T = Shift(S, b)
    BY <1>3 DEF Shift
  <2> QED  BY <1>5, <2>1, ShiftedRank
<1>7. i < c /\ c \in Nat /\ c <= Lanes /\ i \in 0 .. Lanes - 1
  BY <1>1, <1>5, <1>6
<1>8. q \in T
  BY <1>6, <1>7, IthHasRank
<1>9. q \in 0 .. Lanes - 1
  <2> HIDE DEF q, T
  <2> QED  BY <1>1, <1>3, <1>8
<1>10. Vector[q] = Ith(S, i)
  <2>1. Vector[q] = base + pos + q
    BY <1>9 DEF Vector
  <2> QED  BY <1>2, <1>6, <2>1
<1>11. Permute(Vector, LaneTable(T))[i] = Ith(S, i)
  <2>1. LaneTable(T)[i] = q
    BY <1>7 DEF LaneTable
  <2> QED  BY <1>7, <1>10, <2>1 DEF Permute
<1>12. ASSUME Width * Lanes <= 255 PROVE Tbl(Vector, ByteTable(T))[i] = Ith(S, i)
  <2> HIDE DEF q, T, c
  <2> DEFINE w == Width
             k == w * i
  <2>1. k \in Nat /\ k < w * c /\ k < w * Lanes /\ k \div w = i /\ k % w = 0
    <3>1. w * (c - i) >= w
      <4>1. w * (c - i - 1) >= 0  BY <1>1, <1>7, SMT
      <4>2. w * (c - i - 1) = w * (c - i) - w  BY <1>1, <1>7, SMT
      <4>3. w * (c - i) \in Int  BY <1>1, <1>7
      <4> QED  BY <1>1, <4>1, <4>2, <4>3
    <3>2. w * (c - i) = w * c - w * i  BY <1>1, <1>7, SMT
    <3>3. w * c <= w * Lanes
      <4>1. w * (Lanes - c) >= 0  BY <1>1, <1>7, SMT
      <4>2. w * (Lanes - c) = w * Lanes - w * c  BY <1>1, <1>7, SMT
      <4>3. w * Lanes \in Int /\ w * c \in Int  BY <1>1, <1>7
      <4> QED  BY <4>1, <4>2, <4>3
    <3>4. w * i \in Nat /\ w * c \in Nat /\ w * Lanes \in Nat
      BY <1>1, <1>7, SMT
    <3>5. w * i < w * c
      BY <1>1, <3>1, <3>2, <3>4
    <3>6. k \div w = i /\ k % w = 0
      BY <1>1, QuotientExact
    <3> QED  BY <3>3, <3>4, <3>5, <3>6
  <2>2. k \in 0 .. w * Lanes - 1
    BY <1>1, <2>1
  <2>3. ByteTable(T)[k] = w * Ith(T, i) + 0
    <3> HIDE DEF k
    <3>1. ByteTable(T)[k] = w * Ith(T, k \div w) + (k % w)
      BY <2>1, <2>2 DEF ByteTable, c
    <3> QED  BY <2>1, <3>1
  <2>4. ByteTable(T)[k] = w * q
    <3>1. w * q \in Int  BY <1>1, <1>9
    <3> QED  BY <2>3, <3>1 DEF q
  <2>5. w * q # 255 /\ (w * q) \div w = q
    <3>1. q \in Nat /\ q < Lanes  BY <1>1, <1>9
    <3>2. w * (Lanes - q - 1) >= 0  BY <1>1, <3>1, SMT
    <3>3. w * (Lanes - q - 1) = w * Lanes - w * q - w  BY <1>1, <3>1, SMT
    <3>4. w * q \in Int /\ w * Lanes \in Int  BY <1>1, <3>1
    <3>5. w * q < w * Lanes  BY <1>1, <3>2, <3>3, <3>4
    <3>6. (w * q) \div w = q  BY <1>1, <3>1, QuotientExact
    <3> QED  BY <1>12, <3>4, <3>5, <3>6
  <2>6. Tbl(Vector, ByteTable(T))[i] =
          IF ByteTable(T)[Width * i] = 255 THEN Zero
          ELSE Vector[ByteTable(T)[Width * i] \div Width]
    BY <1>7 DEF Tbl
  <2> QED  BY <1>10, <2>4, <2>5, <2>6
<1>13. backend = "aarch64" => Width * Lanes <= 255
  BY Sizes
<1>14. i < Lanes
  BY <1>1, <1>7
<1> QED  BY <1>11, <1>12, <1>13, <1>14

-------------------------------------------------------------------------------
(***************************************************************************)
(* The inductive invariant.                                                *)
(***************************************************************************)
Iter == IF Tail = 0 THEN Groups ELSE Tail         \* vectors that AArch64 never divides

\* The candidates of the stream that were offered to it so far.
Upto(w) ==
  IF pc \in {"batch", "done"} \/ w < way THEN base + buflen
  ELSE IF w = way THEN base + pos ELSE base

StreamInv(w) ==
  IF pc = "neon" /\ w = way
  THEN ctr[w] = 0 /\ Partial(seen[w], good[w], tmp, stored, Upto(w))
  ELSE IF ctr[w] < N THEN Partial(seen[w], good[w], a[w], ctr[w], Upto(w))
  ELSE Complete(seen[w], good[w], a[w], Upto(w))

TypeInv ==
  /\ sampler \in Samplers
  /\ pc \in {"call", "vector", "neon", "scalar", "batch", "done"}
  /\ way \in Streams /\ group \in 0 .. Groups - 1
  /\ base \in Nat /\ buflen \in {Block, NBlocks * Block} /\ pos \in 0 .. buflen
  /\ ctr \in [Streams -> 0 .. N] /\ stored \in Nat
  /\ DOMAIN a = Streams /\ DOMAIN seen = Streams /\ DOMAIN good = Streams

MemoryInv ==
  /\ \A w \in Streams :
       /\ DOMAIN a[w] = 0 .. N + Lanes - 1
       /\ \A i \in N .. N + Lanes - 1 : a[w][i] = Junk
  /\ pc = "neon" =>
       /\ DOMAIN tmp = 0 .. N + Slack + Lanes - 1
       /\ \A i \in N + Slack .. N + Slack + Lanes - 1 : tmp[i] = Junk

PositionInv ==
  /\ pc \in {"call", "batch"} => pos = 0
  /\ pc = "batch" => way = 0
  /\ pc = "done" => \A w \in Streams : ctr[w] = N
  /\ group # 0 => pc \in {"vector", "neon"}
  /\ Multiple(pos, Unit) /\ pos + group * Lanes <= buflen

NeonInv ==
  pc = "neon" =>
    /\ backend = "aarch64"
    /\ Multiple(pos + group * Lanes, Lanes * Iter) /\ Multiple(buflen, Lanes * Iter)
    /\ group > 0 => stored + group * Lanes < N + Slack

SamplerInv ==
  /\ TypeInv /\ MemoryInv /\ PositionInv /\ NeonInv
  /\ \A w \in Streams : StreamInv(w)

LEMMA SameSampler ==
  ASSUME sampler' = sampler
  PROVE  /\ N' = N /\ Lanes' = Lanes /\ Unit' = Unit /\ Groups' = Groups /\ Slack' = Slack
         /\ Block' = Block /\ NBlocks' = NBlocks /\ Ways' = Ways /\ Streams' = Streams
         /\ Iter' = Iter /\ backend' = backend
BY DEF N, Lanes, Unit, Groups, Slack, Block, NBlocks, Ways, Streams, Iter, Tail, backend

\* A stream about which nothing changes.
LEMMA StreamKept ==
  ASSUME sampler' = sampler, NEW w, StreamInv(w),
         ~(pc = "neon" /\ w = way), ~(pc' = "neon" /\ w = way'), Upto(w)' = Upto(w),
         seen'[w] = seen[w], good'[w] = good[w], a'[w] = a[w], ctr'[w] = ctr[w]
  PROVE  StreamInv(w)'
BY SameSampler DEF StreamInv, Complete, Partial

LEMMA InitSampler == Init => SamplerInv
<1> SUFFICES ASSUME Init PROVE SamplerInv
  OBVIOUS
<1>s. sampler \in Samplers
  BY DEF Init
<1>1. TypeInv /\ way = 0 /\ pos = 0
  BY <1>s, Sizes DEF Init, TypeInv, Streams
<1>2. MemoryInv
  BY <1>s, Sizes DEF Init, MemoryInv
<1>3. PositionInv /\ NeonInv
  BY <1>s, <1>1, Sizes, ZeroIsMultiple DEF Init, PositionInv, NeonInv, TypeInv
<1>4. ASSUME NEW w \in Streams PROVE StreamInv(w)
  <2>1. pc = "call" /\ ctr[w] = 0 /\ 0 < N /\ Upto(w) = 0 /\ seen[w] = {} /\ good[w] = {}
    BY <1>s, <1>1, Sizes DEF Init, Upto, Streams
  <2>2. 0 .. 0 - 1 = {} /\ Cardinality({}) = 0
    BY FS_EmptySet
  <2>3. Partial({}, {}, a[w], 0, 0)
    BY <2>2 DEF Partial, Ordered
  <2> QED  BY <2>1, <2>3 DEF StreamInv
<1> QED  BY <1>1, <1>2, <1>3, <1>4 DEF SamplerInv

\* A buffer that the AArch64 code takes leaves no remainder.
LEMMA NeonBuffer ==
  ASSUME TypeInv, backend = "aarch64", NativeTakes(buflen)
  PROVE  Multiple(buflen, Lanes * Iter)
<1>0. /\ Lanes \in Nat /\ Lanes >= 1 /\ Tail \in Nat /\ Groups \in Nat /\ Groups >= 1
      /\ Block \in Nat /\ NBlocks * Block \in Nat
  BY Sizes DEF TypeInv
<1>1. CASE Tail = 0
  <2>1. buflen = NBlocks * Block
    BY <1>1 DEF NativeTakes
  <2>2. (NBlocks * Block) % (Lanes * Groups) = 0
    BY <1>1, SamplerAssumption DEF TypeInv, NBlocks, Block, Lanes, Groups, Tail, backend
  <2>3. Lanes * Groups \in Nat /\ Lanes * Groups >= 1
    <3>1. Lanes * (Groups - 1) >= 0  BY <1>0, SMT
    <3>2. Lanes * (Groups - 1) = Lanes * Groups - Lanes  BY <1>0, SMT
    <3>3. Lanes * Groups \in Int  BY <1>0
    <3> QED  BY <1>0, <3>1, <3>2, <3>3
  <2> QED  BY <1>0, <1>1, <2>1, <2>2, <2>3, ModIsMultiple DEF Iter
<1>2. CASE Tail # 0
  <2>1. buflen % (Tail * Lanes) = 0
    BY <1>2 DEF NativeTakes
  <2>2. Tail * Lanes \in Nat /\ Tail * Lanes >= 1 /\ Tail * Lanes = Lanes * Tail
    <3>1. Lanes * (Tail - 1) >= 0  BY <1>0, <1>2, SMT
    <3>2. Lanes * (Tail - 1) = Lanes * Tail - Lanes  BY <1>0, SMT
    <3>3. Lanes * Tail \in Int  BY <1>0
    <3>4. Tail * Lanes = Lanes * Tail  BY <1>0, SMT
    <3> QED  BY <1>0, <3>1, <3>2, <3>3, <3>4
  <2>3. buflen \in Nat
    BY <1>0 DEF TypeInv
  <2> QED  BY <1>2, <2>1, <2>2, <2>3, ModIsMultiple DEF Iter
<1> QED  BY <1>1, <1>2

LEMMA RejCallStep ==
  ASSUME SamplerInv, RejCall
  PROVE  SamplerInv'
<1>s. sampler \in Samplers /\ sampler' = sampler
  BY DEF SamplerInv, TypeInv, RejCall
<1>1. /\ pc = "call" /\ pc' \in {"vector", "neon", "scalar"} /\ pos = 0 /\ group = 0
      /\ pc' = "neon" => /\ backend = "aarch64" /\ NativeTakes(buflen) /\ ctr[way] = 0
                         /\ stored' = 0
                         /\ tmp' = [i \in 0 .. N + Slack + Lanes - 1 |-> IF i < N THEN Zero ELSE Junk]
      /\ pc' # "neon" => stored' = stored
      /\ UNCHANGED <<base, buflen, way, pos, group, ctr, a, seen, good>>
  BY DEF RejCall, SamplerInv, PositionInv
<1>2. TypeInv'
  BY <1>s, <1>1, SameSampler DEF SamplerInv, TypeInv
<1>3. MemoryInv'
  <2>1. N \in Nat /\ Lanes \in Nat /\ Slack \in Nat
    BY <1>s, Sizes DEF Slack
  <2>2. pc' = "neon" => /\ DOMAIN tmp' = 0 .. N + Slack + Lanes - 1
                        /\ \A i \in N + Slack .. N + Slack + Lanes - 1 : tmp'[i] = Junk
    BY <1>1, <2>1
  <2> QED  BY <1>s, <1>1, <2>2, SameSampler DEF SamplerInv, MemoryInv
<1>4. PositionInv'
  BY <1>s, <1>1, SameSampler DEF SamplerInv, PositionInv
<1>5. NeonInv'
  <2>1. Lanes * Iter \in Nat /\ 0 + 0 * Lanes = 0
    BY <1>s, Sizes, SMT DEF Iter
  <2>2. Multiple(pos + group * Lanes, Lanes * Iter)
    BY <1>1, <2>1, ZeroIsMultiple
  <2> QED  BY <1>s, <1>1, <2>2, NeonBuffer, SameSampler DEF SamplerInv, NeonInv
<1>6. ASSUME NEW w \in Streams PROVE StreamInv(w)'
  <2>1. Upto(w)' = Upto(w) /\ StreamInv(w)
    BY <1>1 DEF Upto, SamplerInv
  <2>2. CASE ~(pc' = "neon" /\ w = way)
    BY <1>s, <1>1, <2>1, <2>2, StreamKept
  <2>3. CASE pc' = "neon" /\ w = way
    <3>1. ctr[w] = 0 /\ 0 < N
      BY <1>s, <1>1, <2>3, Sizes
    <3>2. Partial(seen[w], good[w], a[w], 0, Upto(w))
      BY <1>1, <2>1, <3>1 DEF StreamInv
    <3>3. Partial(seen[w], good[w], tmp', 0, Upto(w))
      BY <3>2 DEF Partial, Ordered
    <3> QED  BY <1>1, <2>1, <2>3, <3>1, <3>3 DEF StreamInv
  <2> QED  BY <2>2, <2>3
<1> QED  BY <1>s, <1>2, <1>3, <1>4, <1>5, <1>6, SameSampler DEF SamplerInv

(***************************************************************************)
(* The steps that read candidates of stream way: n of them, from the       *)
(* position on, of which S are acceptable.                                 *)
(***************************************************************************)
LEMMA ReadSets ==
  ASSUME TypeInv, NEW n \in Nat, NEW S, Read(n, S)
  PROVE  /\ S \in SUBSET (base + pos .. base + pos + n - 1)
         /\ seen'[way] = seen[way] \cup (base + pos .. base + pos + n - 1)
         /\ good'[way] = good[way] \cup S
         /\ DOMAIN seen' = Streams /\ DOMAIN good' = Streams
         /\ \A w \in Streams : w # way => seen'[w] = seen[w] /\ good'[w] = good[w]
         /\ pos' = pos + n
BY DEF Read, TypeInv

LEMMA OtherStreams ==
  ASSUME SamplerInv, NEW n \in Nat, NEW S, Read(n, S),
         pc \in {"vector", "neon", "scalar"},
         UNCHANGED <<sampler, pc, base, buflen, way>>,
         NEW w \in Streams, w # way, a'[w] = a[w], ctr'[w] = ctr[w]
  PROVE  StreamInv(w)'
<1>1. seen'[w] = seen[w] /\ good'[w] = good[w]
  BY ReadSets DEF SamplerInv
<1>2. Upto(w)' = Upto(w)
  BY DEF Upto
<1> QED  BY <1>1, <1>2, StreamKept DEF SamplerInv

\* A step of a vector loop does not leave the buffer, wherever it stops later.
LEMMA VectorPositions ==
  ASSUME SamplerInv, pos' = pos + Lanes, pos + Lanes <= buflen
  PROVE  pos' \in 0 .. buflen /\ Multiple(pos', Unit)
<1>1. Lanes \in Nat /\ Unit \in Nat /\ Multiple(Lanes, Unit) /\ buflen \in Nat
  BY Sizes DEF SamplerInv, TypeInv
<1>2. Multiple(pos + Lanes, Unit)
  BY <1>1, MultiplesAdd DEF SamplerInv, PositionInv
<1> QED  BY <1>1, <1>2 DEF SamplerInv, TypeInv

LEMMA StoredVector ==
  ASSUME Lanes \in Nat, NEW m, DOMAIN m \subseteq Int, NEW k \in Nat,
         k .. k + Lanes - 1 \subseteq DOMAIN m, NEW v
  PROVE  LET s == Store(m, k, v) IN
         /\ DOMAIN s = DOMAIN m
         /\ \A i \in DOMAIN m : i < k \/ i >= k + Lanes => s[i] = m[i]
         /\ \A i \in 0 .. Lanes - 1 : s[k + i] = v[i]
<1>s. PICK s : s = Store(m, k, v)
  OBVIOUS
<1>1. DOMAIN s = DOMAIN m
  BY <1>s DEF Store
<1>2. \A i \in DOMAIN m : s[i] = IF i \in k .. k + Lanes - 1 THEN v[i - k] ELSE m[i]
  BY <1>s DEF Store
<1>3. ASSUME NEW i \in DOMAIN m, i < k \/ i >= k + Lanes PROVE s[i] = m[i]
  <2>1. i \notin k .. k + Lanes - 1
    BY <1>3
  <2> QED  BY <1>2, <2>1
<1>4. ASSUME NEW i \in 0 .. Lanes - 1 PROVE s[k + i] = v[i]
  <2>1. k + i \in DOMAIN m /\ k + i \in k .. k + Lanes - 1 /\ (k + i) - k = i
    OBVIOUS
  <2> QED  BY <1>2, <2>1
<1> QED  BY <1>s, <1>1, <1>3, <1>4

LEMMA VectorStepKeeps ==
  ASSUME SamplerInv, VectorStep
  PROVE  SamplerInv'
<1>s. sampler \in Samplers /\ sampler' = sampler
  BY DEF SamplerInv, TypeInv, VectorStep
<1>c. /\ N \in Nat /\ N >= 1 /\ Lanes \in Nat /\ Lanes >= 1 /\ Lanes <= N
      /\ Groups \in Nat /\ Groups >= 1 /\ Groups * Lanes \in Nat
      /\ Ahead \in Nat /\ Ahead >= Groups * Lanes
  BY <1>s, Sizes
<1>t. TypeInv /\ base \in Nat /\ pos \in Nat /\ buflen \in Nat /\ way \in Streams /\ way \in Nat
      /\ group \in Nat
  <2>1. /\ TypeInv /\ base \in Nat /\ pos \in 0 .. buflen /\ way \in Streams
        /\ group \in 0 .. Groups - 1 /\ buflen \in {Block, NBlocks * Block}
    BY DEF SamplerInv, TypeInv
  <2>2. Block \in Nat /\ NBlocks * Block \in Nat /\ Ways \in Nat
    BY <1>s, Sizes
  <2> QED  BY <1>c, <2>1, <2>2 DEF Streams
<1>1. PICK S \in Here(Lanes) :
        /\ Read(Lanes, S)
        /\ a' = [a EXCEPT ![way] = Store(@, ctr[way], Permute(Vector, LaneTable(LanesOf(S))))]
        /\ ctr' = [ctr EXCEPT ![way] = @ + Cardinality(S)]
  BY DEF VectorStep
<1>2. /\ pc = "vector" /\ pc' = "vector" /\ ~Full /\ (group = 0 => pos + Ahead <= buflen)
      /\ group' = (IF group = 0 THEN Groups ELSE group) - 1
      /\ UNCHANGED <<base, buflen, way, tmp, stored>>
  BY DEF VectorStep
<1>k. PICK k \in Nat : k = ctr[way] /\ k + Lanes <= N
  <2>1. ctr[way] \in Nat /\ ctr[way] + Lanes <= N
    BY <1>c, <1>t, <1>2 DEF Full, TypeInv
  <2> QED  BY <2>1
<1>b. PICK b \in Nat : b = base + pos
  BY <1>t
<1>v. PICK v : v = Permute(Vector, LaneTable(LanesOf(S)))
  OBVIOUS
<1>m. PICK m : m = Store(a[way], k, v)
  OBVIOUS
\* The vectors that are left of the iteration are in the buffer.
<1>4. pos + Lanes <= buflen /\ group' \in 0 .. Groups - 1 /\ pos + Lanes + group' * Lanes <= buflen
  <2>1. CASE group = 0
    <3>1. group' = Groups - 1
      BY <1>2, <2>1
    <3>2. (Groups - 1) * Lanes = Groups * Lanes - Lanes /\ (Groups - 1) * Lanes >= 0
      BY <1>c, SMT
    <3> QED  BY <1>c, <1>t, <1>2, <2>1, <3>1, <3>2
  <2>2. CASE group # 0
    <3>1. group' = group - 1 /\ group \in 0 .. Groups - 1
      BY <1>2, <2>2, <1>t DEF TypeInv
    <3>2. (group - 1) * Lanes = group * Lanes - Lanes /\ (group - 1) * Lanes >= 0
          /\ group * Lanes \in Int
      BY <1>c, <1>t, <2>2, SMT
    <3>3. pos + group * Lanes <= buflen
      BY DEF SamplerInv, PositionInv
    <3> QED  BY <1>c, <1>t, <2>2, <3>1, <3>2, <3>3
  <2> QED  BY <2>1, <2>2
<1>5. /\ S \in SUBSET (b .. b + Lanes - 1)
      /\ seen'[way] = seen[way] \cup (b .. b + Lanes - 1) /\ good'[way] = good[way] \cup S
      /\ DOMAIN seen' = Streams /\ DOMAIN good' = Streams /\ pos' = pos + Lanes
  BY <1>c, <1>t, <1>1, <1>b, ReadSets
<1>6. pos' \in 0 .. buflen /\ Multiple(pos', Unit)
  BY <1>4, <1>5, VectorPositions
<1>7. /\ DOMAIN a' = Streams /\ a'[way] = m /\ ctr'[way] = k + Cardinality(S)
      /\ \A w \in Streams : w # way => a'[w] = a[w] /\ ctr'[w] = ctr[w]
  BY <1>t, <1>1, <1>k, <1>v, <1>m DEF TypeInv
<1>e. Cardinality(S) \in Nat /\ Cardinality(S) <= Lanes
  BY <1>c, <1>5, AcceptableOfRead
\* The vector is stored where there is room for it.
<1>8. /\ DOMAIN m = 0 .. N + Lanes - 1
      /\ \A i \in 0 .. k - 1 : m[i] = a[way][i]
      /\ \A i \in 0 .. Cardinality(S) - 1 : m[k + i] = v[i]
      /\ \A i \in k + Lanes .. N + Lanes - 1 : m[i] = a[way][i]
  <2>1. DOMAIN a[way] = 0 .. N + Lanes - 1
    BY <1>t DEF SamplerInv, MemoryInv
  <2>2. 0 .. N + Lanes - 1 \subseteq Int /\ k .. k + Lanes - 1 \subseteq 0 .. N + Lanes - 1
    BY <1>c, <1>k
  <2>3. /\ DOMAIN m = 0 .. N + Lanes - 1
        /\ \A i \in 0 .. N + Lanes - 1 : i < k \/ i >= k + Lanes => m[i] = a[way][i]
        /\ \A i \in 0 .. Lanes - 1 : m[k + i] = v[i]
    <3>1. PICK old : old = a[way]
      OBVIOUS
    <3>2. DOMAIN old \subseteq Int /\ k .. k + Lanes - 1 \subseteq DOMAIN old /\ Lanes \in Nat
      BY <1>c, <2>1, <2>2, <3>1
    <3>3. /\ DOMAIN Store(old, k, v) = DOMAIN old
          /\ \A i \in DOMAIN old : i < k \/ i >= k + Lanes => Store(old, k, v)[i] = old[i]
          /\ \A i \in 0 .. Lanes - 1 : Store(old, k, v)[k + i] = v[i]
      BY <3>2, StoredVector
    <3> QED  BY <1>m, <2>1, <3>1, <3>3
  <2>4. /\ \A i \in 0 .. k - 1 : i \in 0 .. N + Lanes - 1 /\ i < k
        /\ \A i \in k + Lanes .. N + Lanes - 1 : i \in 0 .. N + Lanes - 1 /\ i >= k + Lanes
        /\ \A i \in 0 .. Cardinality(S) - 1 : i \in 0 .. Lanes - 1
    BY <1>c, <1>k, <1>e
  <2> QED  BY <2>3, <2>4
<1>9. Partial(seen[way], good[way], a[way], k, b)
  <2>1. Upto(way) = b
    BY <1>2, <1>t, <1>c, <1>b DEF Upto
  <2>2. k < N
    BY <1>c, <1>k
  <2>3. StreamInv(way)
    BY <1>t DEF SamplerInv
  <2> QED  BY <1>2, <1>k, <2>1, <2>2, <2>3 DEF StreamInv
<1>10. ASSUME NEW i \in 0 .. Cardinality(S) - 1 PROVE m[k + i] = Ith(S, i)
  <2>1. i \in Nat /\ i < Cardinality(S)
    BY <1>e
  <2>2. v[i] = Ith(S, i)
    BY <1>s, <1>t, <1>v, <2>1, PackedLanes
  <2> QED  BY <1>8, <2>2
<1>11. ASSUME NEW w \in Streams, w = way PROVE StreamInv(w)'
  <2>1. Upto(w)' = b + Lanes
    BY <1>2, <1>t, <1>c, <1>5, <1>b, <1>11 DEF Upto
  <2>2. /\ k + Cardinality(S) < N =>
             Partial(seen'[way], good'[way], m, k + Cardinality(S), b + Lanes)
        /\ k + Cardinality(S) >= N => Complete(seen'[way], good'[way], m, b + Lanes)
        /\ k + Cardinality(S) \in Int
    <3>1. k + Cardinality(S) <= N
      BY <1>c, <1>k, <1>e
    <3>2. Takes(b, Lanes, seen[way], good[way], a[way], k, S, Cardinality(S), m)
      BY <1>c, <1>5, <1>8, <1>9, <1>10, <1>e DEF Takes
    <3>3. PICK sn, gd, old, c : sn = seen[way] /\ gd = good[way] /\ old = a[way] /\ c = Cardinality(S)
      OBVIOUS
    <3>4. Takes(b, Lanes, sn, gd, old, k, S, c, m) /\ k + c <= N
      BY <3>1, <3>2, <3>3
    <3>5. k + c < N => c = Cardinality(S)
      BY <3>3
    <3>6. N \in Nat
      BY <1>c
    <3>7. /\ k + c < N => Partial(sn \cup (b .. b + Lanes - 1), gd \cup S, m, k + c, b + Lanes)
          /\ k + c >= N => Complete(sn \cup (b .. b + Lanes - 1), gd \cup S, m, b + Lanes)
      BY <3>4, <3>5, <3>6, Fills
    <3> QED  BY <1>c, <1>5, <1>e, <3>3, <3>7
  <2>3. CASE k + Cardinality(S) < N
    BY <1>s, <1>2, <1>7, <1>11, <2>1, <2>2, <2>3, SameSampler DEF StreamInv, Partial
  <2>4. CASE k + Cardinality(S) >= N
    <3>1. ~(ctr'[w] < N)
      BY <1>c, <1>7, <1>11, <2>2, <2>4
    <3>2. Complete(seen[w], good[w], a[w], Upto(w))'
      BY <1>s, <1>2, <1>7, <1>11, <2>1, <2>2, <2>4, SameSampler DEF Complete
    <3> QED  BY <1>s, <1>2, <1>11, <3>1, <3>2, SameSampler DEF StreamInv
  <2> QED  BY <1>c, <2>2, <2>3, <2>4
<1>12. ASSUME NEW w \in Streams PROVE StreamInv(w)'
  <2>1. CASE w # way
    BY <1>s, <1>c, <1>1, <1>2, <1>7, <2>1, OtherStreams
  <2> QED  BY <1>11, <2>1
<1>13. TypeInv'
  <2>1. ASSUME NEW w \in Streams PROVE ctr'[w] \in 0 .. N
    <3>1. CASE w # way
      BY <1>t, <1>7, <3>1 DEF TypeInv
    <3>2. CASE w = way
      BY <1>c, <1>k, <1>e, <1>7, <3>2
    <3> QED  BY <3>1, <3>2
  <2>2. ctr' \in [Streams -> 0 .. N]
    BY <1>1, <1>t, <2>1 DEF TypeInv
  <2> QED  BY <1>s, <1>t, <1>2, <1>4, <1>5, <1>6, <1>7, <2>2, SameSampler DEF TypeInv
<1>14. MemoryInv'
  <2>1. ASSUME NEW w \in Streams
        PROVE  /\ DOMAIN a'[w] = 0 .. N + Lanes - 1
               /\ \A i \in N .. N + Lanes - 1 : a'[w][i] = Junk
    <3>1. CASE w # way
      BY <1>7, <3>1 DEF SamplerInv, MemoryInv
    <3>2. CASE w = way
      <4>1. \A i \in N .. N + Lanes - 1 : i \in k + Lanes .. N + Lanes - 1
        BY <1>c, <1>k
      <4>2. \A i \in N .. N + Lanes - 1 : a[way][i] = Junk
        BY <1>t DEF SamplerInv, MemoryInv
      <4> QED  BY <1>7, <1>8, <3>2, <4>1, <4>2
    <3> QED  BY <3>1, <3>2
  <2> QED  BY <1>s, <1>2, <2>1, SameSampler DEF MemoryInv
<1>15. PositionInv'
  BY <1>s, <1>2, <1>4, <1>5, <1>6, SameSampler DEF PositionInv
<1>16. NeonInv'
  BY <1>2 DEF NeonInv
<1> QED  BY <1>s, <1>12, <1>13, <1>14, <1>15, <1>16, SameSampler DEF SamplerInv

LEMMA VectorEndKeeps ==
  ASSUME SamplerInv, VectorEnd
  PROVE  SamplerInv'
<1>s. sampler \in Samplers /\ sampler' = sampler
  BY DEF SamplerInv, TypeInv, VectorEnd
<1>1. /\ pc = "vector" /\ pc' = "scalar" /\ group' = 0
      /\ UNCHANGED <<base, buflen, way, pos, ctr, a, tmp, stored, seen, good>>
  BY DEF VectorEnd
<1>2. Lanes \in Nat /\ Groups \in Nat /\ Groups >= 1 /\ 0 * Lanes = 0 /\ pos + 0 <= buflen
  <2>1. /\ Lanes \in Nat /\ Groups \in Nat /\ Groups >= 1
        /\ Block \in Nat /\ NBlocks * Block \in Nat
    BY <1>s, Sizes
  <2>2. 0 * Lanes = 0
    BY <2>1
  <2>3. buflen \in Nat /\ pos \in 0 .. buflen
    BY <2>1 DEF SamplerInv, TypeInv
  <2> QED  BY <2>1, <2>2, <2>3
<1>3. TypeInv' /\ MemoryInv'
  BY <1>s, <1>1, <1>2, SameSampler DEF SamplerInv, TypeInv, MemoryInv
<1>4. PositionInv' /\ NeonInv'
  BY <1>s, <1>1, <1>2, SameSampler DEF SamplerInv, PositionInv, NeonInv
<1>5. ASSUME NEW w \in Streams PROVE StreamInv(w)'
  <2>1. Upto(w)' = Upto(w)
    BY <1>1 DEF Upto
  <2> QED  BY <1>s, <1>1, <2>1, StreamKept DEF SamplerInv
<1> QED  BY <1>s, <1>3, <1>4, <1>5, SameSampler DEF SamplerInv

\* When a call returns, its stream has been offered the whole buffer, and the
\* others what they were offered before.
LEMMA NextStream ==
  ASSUME TypeInv, ToNextStream, pc \in {"neon", "scalar"}, UNCHANGED <<sampler, base, buflen>>
  PROVE  /\ way' \in Streams /\ pos' = 0 /\ pc' \in {"call", "batch"} /\ (pc' = "batch" => way' = 0)
         /\ \A w \in Streams : Upto(w)' = IF w = way THEN base + buflen ELSE Upto(w)
<1>1. Ways \in Nat /\ Ways >= 1 /\ way \in 0 .. Ways - 1 /\ base \in Nat
  BY Sizes DEF TypeInv, Streams
<1>2. \/ way + 1 < Ways /\ way' = way + 1 /\ pc' = "call" /\ pos' = 0
      \/ ~(way + 1 < Ways) /\ way' = 0 /\ pc' = "batch" /\ pos' = 0
  BY DEF ToNextStream
<1>3. way' \in Streams
  BY <1>1, <1>2 DEF Streams
<1>4. ASSUME NEW w \in Streams
      PROVE  Upto(w)' = IF w = way THEN base + buflen ELSE Upto(w)
  <2>1. w \in 0 .. Ways - 1
    BY DEF Streams
  <2>2. CASE w = way
    BY <1>1, <1>2, <2>2 DEF Upto
  <2>3. CASE w < way
    BY <1>1, <1>2, <2>1, <2>3 DEF Upto
  <2>4. CASE w > way
    <3>1. way + 1 < Ways /\ way' = way + 1 /\ pc' = "call" /\ pos' = 0
      BY <1>1, <1>2, <2>1, <2>4
    <3>2. ~(w < way) /\ w # way /\ ~(w < way')
      BY <1>1, <2>1, <2>4, <3>1
    <3>3. Upto(w) = base
      BY <3>2 DEF Upto
    <3>4. Upto(w)' = base
      BY <1>1, <3>1, <3>2 DEF Upto
    <3> QED  BY <3>2, <3>3, <3>4
  <2> QED  BY <1>1, <2>1, <2>2, <2>3, <2>4
<1> QED  BY <1>2, <1>3, <1>4

LEMMA ScalarEndKeeps ==
  ASSUME SamplerInv, ScalarEnd
  PROVE  SamplerInv'
<1>s. sampler \in Samplers /\ sampler' = sampler /\ TypeInv
  BY DEF SamplerInv, TypeInv, ScalarEnd
<1>1. /\ pc = "scalar" /\ (ctr[way] >= N \/ pos + Unit > buflen) /\ ToNextStream
      /\ UNCHANGED <<base, buflen, group, ctr, a, tmp, stored, seen, good>>
  BY DEF ScalarEnd
<1>2. /\ way' \in Streams /\ pos' = 0 /\ pc' \in {"call", "batch"} /\ (pc' = "batch" => way' = 0)
      /\ \A w \in Streams : Upto(w)' = IF w = way THEN base + buflen ELSE Upto(w)
  BY <1>s, <1>1, NextStream
<1>3. /\ buflen \in Nat /\ pos \in 0 .. buflen /\ base \in Nat /\ N \in Nat
      /\ Unit \in Nat /\ Lanes \in Nat /\ Multiple(buflen, Unit)
  BY <1>s, Sizes DEF TypeInv
<1>4. group = 0 /\ Multiple(pos, Unit) /\ 0 * Lanes = 0 /\ Multiple(0, Unit)
  BY <1>1, <1>3, ZeroIsMultiple DEF SamplerInv, PositionInv
<1>5. TypeInv' /\ MemoryInv' /\ PositionInv' /\ NeonInv'
  BY <1>s, <1>1, <1>2, <1>3, <1>4, SameSampler DEF SamplerInv, TypeInv, MemoryInv, PositionInv, NeonInv
<1>6. ASSUME NEW w \in Streams PROVE StreamInv(w)'
  <2>1. StreamInv(w)
    BY DEF SamplerInv
  <2>2. CASE w # way \/ pos = buflen
    <3>1. Upto(w)' = Upto(w)
      BY <1>1, <1>2, <1>3, <2>2, <1>s DEF Upto, TypeInv, Streams
    <3> QED  BY <1>s, <1>1, <1>2, <2>1, <3>1, StreamKept
  <2>3. CASE w = way /\ pos # buflen
    <3>1. ctr[way] >= N
      <4>1. ~(pos + Unit > buflen)
        BY <1>3, <1>4, <2>3, MultiplesApart
      <4> QED  BY <1>1, <4>1
    <3>2. ~(ctr[w] < N)
      BY <1>s, <1>3, <2>3, <3>1 DEF TypeInv
    <3>3. Complete(seen[w], good[w], a[w], base + pos)
      <4>1. Upto(w) = base + pos
        BY <1>s, <1>1, <2>3, Sizes DEF Upto, TypeInv, Streams
      <4> QED  BY <1>1, <2>1, <3>2, <4>1 DEF StreamInv
    <3>4. Complete(seen[w], good[w], a[w], base + buflen)
      <4>1. base + pos <= base + buflen /\ base + pos \in Int /\ base + buflen \in Int
        BY <1>3
      <4>2. PICK c \in Nat : seen[w] = 0 .. c - 1 /\ c <= base + pos
        BY <3>3 DEF Complete
      <4>3. c <= base + buflen
        BY <4>1, <4>2
      <4> QED  BY <3>3, <4>2, <4>3 DEF Complete
    <3> QED  BY <1>s, <1>1, <1>2, <2>3, <3>2, <3>4, SameSampler DEF StreamInv, Complete
  <2> QED  BY <2>2, <2>3
<1> QED  BY <1>s, <1>5, <1>6, SameSampler DEF SamplerInv

LEMMA RefillKeeps ==
  ASSUME SamplerInv, Refill
  PROVE  SamplerInv'
<1>s. sampler \in Samplers /\ sampler' = sampler /\ TypeInv
  BY DEF SamplerInv, TypeInv, Refill
<1>1. /\ pc = "batch" /\ pc' = "call" /\ base' = base + buflen /\ buflen' = Block
      /\ UNCHANGED <<way, pos, group, ctr, a, tmp, stored, seen, good>>
  BY DEF Refill
<1>2. /\ buflen \in Nat /\ base \in Nat /\ Block \in Nat /\ Lanes \in Nat /\ 0 * Lanes = 0
      /\ Ways \in Nat
  BY <1>s, Sizes DEF TypeInv
<1>3. pos = 0 /\ way = 0 /\ group = 0
  BY <1>1 DEF SamplerInv, PositionInv
<1>4. TypeInv' /\ MemoryInv' /\ PositionInv' /\ NeonInv'
  <2>1. base' \in Nat /\ pos' \in 0 .. buflen' /\ pos' + group' * Lanes <= buflen'
    BY <1>1, <1>2, <1>3
  <2>2. TypeInv'
    BY <1>s, <1>1, <2>1, SameSampler DEF TypeInv
  <2> QED  BY <1>s, <1>1, <2>1, <2>2, SameSampler DEF SamplerInv, MemoryInv, PositionInv, NeonInv
<1>5. ASSUME NEW w \in Streams PROVE StreamInv(w)'
  <2>1. Upto(w)' = Upto(w)
    BY <1>1, <1>2, <1>3 DEF Upto, Streams
  <2> QED  BY <1>s, <1>1, <2>1, StreamKept DEF SamplerInv
<1> QED  BY <1>s, <1>4, <1>5, SameSampler DEF SamplerInv

LEMMA DoneKeeps ==
  ASSUME SamplerInv, Done
  PROVE  SamplerInv'
<1>s. sampler \in Samplers /\ sampler' = sampler
  BY DEF SamplerInv, TypeInv, Done
<1>1. /\ pc = "batch" /\ pc' = "done" /\ \A w \in Streams : ctr[w] = N
      /\ UNCHANGED <<base, buflen, way, pos, group, ctr, a, tmp, stored, seen, good>>
  BY DEF Done
<1>2. TypeInv' /\ MemoryInv' /\ PositionInv' /\ NeonInv'
  BY <1>s, <1>1, SameSampler DEF SamplerInv, TypeInv, MemoryInv, PositionInv, NeonInv
<1>3. ASSUME NEW w \in Streams PROVE StreamInv(w)'
  <2>1. Upto(w)' = Upto(w)
    BY <1>1 DEF Upto
  <2> QED  BY <1>s, <1>1, <2>1, StreamKept DEF SamplerInv
<1> QED  BY <1>s, <1>2, <1>3, SameSampler DEF SamplerInv

LEMMA ScalarStepKeeps ==
  ASSUME SamplerInv, ScalarStep
  PROVE  SamplerInv'
<1>s. sampler \in Samplers /\ sampler' = sampler /\ TypeInv
  BY DEF SamplerInv, TypeInv, ScalarStep
<1>c. /\ N \in Nat /\ N >= 1 /\ Lanes \in Nat /\ Unit \in Nat /\ Multiple(Unit, Unit)
      /\ Groups \in Nat /\ Groups >= 1
  <2>1. /\ N \in Nat /\ N >= 1 /\ Lanes \in Nat /\ Unit \in Nat
        /\ Groups \in Nat /\ Groups >= 1
    BY <1>s, Sizes
  <2>2. Unit = 1 * Unit
    BY <2>1
  <2> QED  BY <2>1, <2>2 DEF Multiple
<1>t. /\ base \in Nat /\ pos \in Nat /\ pos \in 0 .. buflen /\ buflen \in Nat
      /\ way \in Streams /\ way \in Nat
  <2>1. /\ base \in Nat /\ pos \in 0 .. buflen /\ way \in Streams
        /\ buflen \in {Block, NBlocks * Block}
    BY <1>s DEF TypeInv
  <2>2. Block \in Nat /\ NBlocks * Block \in Nat /\ Ways \in Nat
    BY <1>s, Sizes
  <2> QED  BY <2>1, <2>2 DEF Streams
<1>2. /\ pc = "scalar" /\ pc' = "scalar" /\ ctr[way] < N /\ pos + Unit <= buflen
      /\ UNCHANGED <<base, buflen, way, group, tmp, stored>>
  BY DEF ScalarStep
<1>k. PICK k \in Nat : k = ctr[way] /\ k < N
  BY <1>s, <1>c, <1>t, <1>2 DEF TypeInv
<1>b. PICK b \in Nat : b = base + pos
  BY <1>t
<1>1. PICK S \in Here(Unit) :
        /\ Read(Unit, S)
        /\ LET n == IF Cardinality(S) < N - k THEN Cardinality(S) ELSE N - k IN
           /\ a' = [a EXCEPT ![way] = [i \in DOMAIN @ |->
                      IF k <= i /\ i < k + n THEN Ith(S, i - k) ELSE @[i]]]
           /\ ctr' = [ctr EXCEPT ![way] = @ + n]
  BY <1>k DEF ScalarStep
<1>5. /\ S \in SUBSET (b .. b + Unit - 1)
      /\ seen'[way] = seen[way] \cup (b .. b + Unit - 1) /\ good'[way] = good[way] \cup S
      /\ DOMAIN seen' = Streams /\ DOMAIN good' = Streams /\ pos' = pos + Unit
  BY <1>s, <1>c, <1>1, <1>b, ReadSets
<1>e. Cardinality(S) \in Nat /\ Cardinality(S) <= Unit
  BY <1>c, <1>5, AcceptableOfRead
\* The candidates that are stored: those for which there is room.
<1>n. PICK n \in Nat : /\ n = IF Cardinality(S) < N - k THEN Cardinality(S) ELSE N - k
                       /\ n <= Cardinality(S) /\ k + n <= N
                       /\ k + n < N => n = Cardinality(S)
  BY <1>c, <1>k, <1>e
<1>m. PICK m : m = [i \in 0 .. N + Lanes - 1 |->
                      IF k <= i /\ i < k + n THEN Ith(S, i - k) ELSE a[way][i]]
  OBVIOUS
<1>7. /\ DOMAIN a' = Streams /\ a'[way] = m /\ ctr'[way] = k + n
      /\ \A w \in Streams : w # way => a'[w] = a[w] /\ ctr'[w] = ctr[w]
  <2>1. DOMAIN a[way] = 0 .. N + Lanes - 1
    BY <1>t DEF SamplerInv, MemoryInv
  <2>2. DOMAIN a = Streams /\ DOMAIN ctr = Streams
    BY <1>s DEF TypeInv
  <2>3. /\ a' = [a EXCEPT ![way] = [i \in DOMAIN a[way] |->
                   IF k <= i /\ i < k + n THEN Ith(S, i - k) ELSE a[way][i]]]
        /\ ctr' = [ctr EXCEPT ![way] = ctr[way] + n]
    BY <1>1, <1>n
  <2> QED  BY <1>t, <1>k, <1>m, <2>1, <2>2, <2>3
<1>8. /\ \A i \in 0 .. k - 1 : m[i] = a[way][i]
      /\ \A i \in 0 .. n - 1 : m[k + i] = Ith(S, i)
      /\ \A i \in N .. N + Lanes - 1 : m[i] = a[way][i]
  <2>1. ASSUME NEW i \in 0 .. k - 1 PROVE m[i] = a[way][i]
    <3>1. i \in 0 .. N + Lanes - 1 /\ ~(k <= i)
      BY <1>c, <1>k
    <3> QED  BY <1>m, <3>1
  <2>2. ASSUME NEW i \in 0 .. n - 1 PROVE m[k + i] = Ith(S, i)
    <3>1. k + i \in 0 .. N + Lanes - 1 /\ k <= k + i /\ k + i < k + n /\ (k + i) - k = i
      BY <1>c, <1>k, <1>n
    <3> QED  BY <1>m, <3>1
  <2>3. ASSUME NEW i \in N .. N + Lanes - 1 PROVE m[i] = a[way][i]
    <3>1. i \in 0 .. N + Lanes - 1 /\ ~(i < k + n)
      BY <1>c, <1>k, <1>n
    <3> QED  BY <1>m, <3>1
  <2> QED  BY <2>1, <2>2, <2>3
<1>9. Partial(seen[way], good[way], a[way], k, b)
  <2>1. Upto(way) = b
    BY <1>2, <1>t, <1>c, <1>b DEF Upto
  <2>2. StreamInv(way)
    BY <1>t DEF SamplerInv
  <2> QED  BY <1>2, <1>k, <2>1, <2>2 DEF StreamInv
<1>10. /\ k + n < N => Partial(seen'[way], good'[way], m, k + n, b + Unit)
       /\ k + n >= N => Complete(seen'[way], good'[way], m, b + Unit)
  <2>1. PICK sn, gd, old : sn = seen[way] /\ gd = good[way] /\ old = a[way]
    OBVIOUS
  <2>2. Takes(b, Unit, sn, gd, old, k, S, n, m)
    BY <1>c, <1>5, <1>8, <1>9, <1>n, <2>1 DEF Takes
  <2>3. /\ k + n < N => Partial(sn \cup (b .. b + Unit - 1), gd \cup S, m, k + n, b + Unit)
        /\ k + n >= N => Complete(sn \cup (b .. b + Unit - 1), gd \cup S, m, b + Unit)
    BY <1>c, <1>n, <2>2, Fills
  <2> QED  BY <1>5, <2>1, <2>3
<1>11. ASSUME NEW w \in Streams, w = way PROVE StreamInv(w)'
  <2>1. Upto(w)' = b + Unit
    BY <1>2, <1>t, <1>c, <1>5, <1>b, <1>11 DEF Upto
  <2>2. CASE k + n < N
    BY <1>s, <1>2, <1>7, <1>10, <1>11, <2>1, <2>2, SameSampler DEF StreamInv, Partial
  <2>3. CASE k + n >= N
    <3>1. ~(ctr'[w] < N)
      BY <1>c, <1>7, <1>11, <2>3
    <3>2. Complete(seen[w], good[w], a[w], Upto(w))'
      BY <1>s, <1>2, <1>7, <1>10, <1>11, <2>1, <2>3, SameSampler DEF Complete
    <3> QED  BY <1>s, <1>2, <1>11, <3>1, <3>2, SameSampler DEF StreamInv
  <2> QED  BY <1>c, <2>2, <2>3
<1>12. ASSUME NEW w \in Streams PROVE StreamInv(w)'
  <2>1. CASE w # way
    BY <1>s, <1>c, <1>1, <1>2, <1>7, <2>1, OtherStreams
  <2> QED  BY <1>11, <2>1
<1>g. group = 0 /\ 0 * Lanes = 0
  BY <1>c, <1>2 DEF SamplerInv, PositionInv
<1>6. pos' \in 0 .. buflen /\ Multiple(pos', Unit) /\ pos' + group * Lanes <= buflen
  <2>1. Multiple(pos + Unit, Unit)
    BY <1>c, MultiplesAdd DEF SamplerInv, PositionInv
  <2> QED  BY <1>c, <1>t, <1>2, <1>5, <1>g, <2>1
<1>13. TypeInv'
  <2>1. ASSUME NEW w \in Streams PROVE ctr'[w] \in 0 .. N
    <3>1. CASE w # way
      BY <1>s, <1>7, <3>1 DEF TypeInv
    <3>2. CASE w = way
      BY <1>c, <1>k, <1>n, <1>7, <3>2
    <3> QED  BY <3>1, <3>2
  <2>2. ctr' \in [Streams -> 0 .. N]
    BY <1>1, <1>s, <2>1 DEF TypeInv
  <2> QED  BY <1>s, <1>t, <1>2, <1>5, <1>6, <1>7, <2>2, SameSampler DEF TypeInv
<1>14. MemoryInv'
  <2>1. ASSUME NEW w \in Streams
        PROVE  /\ DOMAIN a'[w] = 0 .. N + Lanes - 1
               /\ \A i \in N .. N + Lanes - 1 : a'[w][i] = Junk
    <3>1. CASE w # way
      BY <1>7, <3>1 DEF SamplerInv, MemoryInv
    <3>2. CASE w = way
      <4>1. \A i \in N .. N + Lanes - 1 : a[way][i] = Junk
        BY <1>t DEF SamplerInv, MemoryInv
      <4>2. DOMAIN m = 0 .. N + Lanes - 1
        BY <1>m
      <4> QED  BY <1>7, <1>8, <3>2, <4>1, <4>2
    <3> QED  BY <3>1, <3>2
  <2> QED  BY <1>s, <1>2, <2>1, SameSampler DEF MemoryInv
<1>15. PositionInv' /\ NeonInv'
  BY <1>s, <1>2, <1>g, <1>6, SameSampler DEF PositionInv, NeonInv
<1> QED  BY <1>s, <1>12, <1>13, <1>14, <1>15, SameSampler DEF SamplerInv

\* The vectors that an AArch64 iteration takes: they are in the buffer, and for
\* all of them there is room in the stack buffer.
LEMMA NeonIteration ==
  ASSUME SamplerInv, pc = "neon", group = 0 => stored < N /\ Iteration > 0,
         NEW G, G = IF group = 0 THEN Iteration ELSE group
  PROVE  /\ G \in 1 .. Groups /\ G * Lanes \in Nat
         /\ pos + G * Lanes <= buflen /\ Multiple(pos + G * Lanes, Lanes * Iter)
         /\ stored + G * Lanes < N + Slack
<1>s. sampler \in Samplers /\ TypeInv
  BY DEF SamplerInv, TypeInv
<1>0. /\ N \in Nat /\ Lanes \in Nat /\ Lanes >= 1 /\ Groups \in Nat /\ Groups >= 1
      /\ Tail \in Nat /\ Tail < Groups /\ Block \in Nat /\ NBlocks * Block \in Nat
      /\ backend = "aarch64" => 2 * Tail \in {0, Groups}
  BY <1>s, Sizes
<1>1. /\ group \in 0 .. Groups - 1 /\ buflen \in Nat /\ pos \in 0 .. buflen /\ stored \in Nat
      /\ pos + group * Lanes <= buflen
      /\ backend = "aarch64" /\ Multiple(pos + group * Lanes, Lanes * Iter)
      /\ group > 0 => stored + group * Lanes < N + Slack
  BY <1>0 DEF SamplerInv, TypeInv, PositionInv, NeonInv
<1>2. CASE group # 0
  <2>1. G = group /\ group > 0 /\ group \in 1 .. Groups
    BY <1>0, <1>1, <1>2
  <2>2. group * Lanes \in Nat
    BY <1>0, <2>1, SMT
  <2> QED  BY <1>1, <2>1, <2>2
<1>3. CASE group = 0
  <2>1. G = Iteration /\ Iteration > 0 /\ stored < N
    BY <1>3
  <2>2. Remaining \in Nat /\ \A n \in Nat : n <= Remaining => n * Lanes <= buflen - pos
    <3>1. buflen - pos \in Nat
      BY <1>1
    <3> QED  BY <1>0, <3>1, QuotientBelow DEF Remaining
  <2>3. G \in 1 .. Groups /\ G <= Remaining /\ G \in {Groups, Tail}
    BY <1>0, <2>1, <2>2 DEF Iteration
  <2>4. G * Lanes \in Nat /\ G * Lanes <= buflen - pos
    <3>1. G \in Nat
      BY <1>0, <2>3
    <3>2. G * Lanes \in Nat
      BY <1>0, <3>1, SMT
    <3> QED  BY <2>2, <2>3, <3>1, <3>2
  <2>5. pos + G * Lanes <= buflen
    BY <1>1, <2>4
  <2>6. stored + G * Lanes < N + Slack
    <3>1. (Groups - G) * Lanes >= 0
      BY <1>0, <2>3, SMT
    <3>2. (Groups - G) * Lanes = Groups * Lanes - G * Lanes
      BY <1>0, <2>3, SMT
    <3>3. Groups * Lanes \in Nat
      BY <1>0, SMT
    <3>4. Slack = Groups * Lanes
      BY DEF Slack
    <3> QED  BY <1>0, <1>1, <2>1, <2>4, <3>1, <3>2, <3>3, <3>4
  <2>7. Multiple(G * Lanes, Lanes * Iter)
    <3>1. PICK h \in Nat : G = h * Iter
      <4>1. CASE Tail = 0
        <5>1. G = Groups /\ Iter = Groups /\ Groups = 1 * Groups
          BY <1>0, <2>3, <4>1 DEF Iter
        <5> QED  BY <5>1
      <4>2. CASE Tail # 0
        <5>1. Groups = 2 * Tail /\ Tail = 1 * Tail /\ Iter = Tail
          BY <1>0, <1>1, <4>2 DEF Iter
        <5> QED  BY <2>3, <5>1
      <4> QED  BY <4>1, <4>2
    <3>2. Iter \in Nat
      BY <1>0 DEF Iter
    <3>3. (h * Iter) * Lanes = h * (Lanes * Iter)
      BY <1>0, <3>2, SMT
    <3> QED  BY <3>1, <3>3 DEF Multiple
  <2>8. Multiple(pos, Lanes * Iter)
    <3>1. 0 * Lanes = 0 /\ pos + 0 = pos
      BY <1>0, <1>1
    <3> QED  BY <1>1, <1>3, <3>1
  <2>9. Lanes * Iter \in Nat
    BY <1>0, SMT DEF Iter
  <2> QED  BY <2>3, <2>4, <2>5, <2>6, <2>7, <2>8, <2>9, MultiplesAdd
<1> QED  BY <1>2, <1>3

LEMMA NeonStepKeeps ==
  ASSUME SamplerInv, NeonStep
  PROVE  SamplerInv'
<1>s. sampler \in Samplers /\ sampler' = sampler /\ TypeInv
  BY DEF SamplerInv, TypeInv, NeonStep
<1>c. /\ N \in Nat /\ N >= 1 /\ Lanes \in Nat /\ Lanes >= 1
      /\ Groups \in Nat /\ Groups >= 1 /\ Slack \in Nat
  BY <1>s, Sizes DEF Slack
<1>t. /\ base \in Nat /\ pos \in Nat /\ pos \in 0 .. buflen /\ buflen \in Nat
      /\ way \in Streams /\ way \in Nat
  <2>1. /\ base \in Nat /\ pos \in 0 .. buflen /\ way \in Streams
        /\ buflen \in {Block, NBlocks * Block}
    BY <1>s DEF TypeInv
  <2>2. Block \in Nat /\ NBlocks * Block \in Nat /\ Ways \in Nat
    BY <1>s, Sizes
  <2> QED  BY <2>1, <2>2 DEF Streams
<1>1. PICK S \in Here(Lanes) :
        /\ Read(Lanes, S)
        /\ tmp' = Store(tmp, stored, Tbl(Vector, ByteTable(LanesOf(S))))
        /\ stored' = stored + Cardinality(S)
  BY DEF NeonStep
<1>2. /\ pc = "neon" /\ pc' = "neon" /\ (group = 0 => stored < N /\ Iteration > 0)
      /\ group' = (IF group = 0 THEN Iteration ELSE group) - 1
      /\ UNCHANGED <<base, buflen, way, ctr, a>>
  BY DEF NeonStep
<1>k. PICK k \in Nat : k = stored
  BY <1>s DEF TypeInv
<1>b. PICK b \in Nat : b = base + pos
  BY <1>t
<1>v. PICK v : v = Tbl(Vector, ByteTable(LanesOf(S)))
  OBVIOUS
<1>m. PICK old, m : old = tmp /\ m = Store(old, k, v) /\ m = tmp'
  BY <1>1, <1>k, <1>v
<1>4. PICK G : /\ G \in 1 .. Groups /\ G * Lanes \in Nat /\ group' = G - 1
               /\ pos + G * Lanes <= buflen /\ Multiple(pos + G * Lanes, Lanes * Iter)
               /\ k + G * Lanes < N + Slack
  BY <1>2, <1>k, NeonIteration
\* The vector, and those that are left of the iteration.
<1>6. /\ (G - 1) * Lanes \in Nat /\ G * Lanes = Lanes + (G - 1) * Lanes
      /\ pos + Lanes <= buflen /\ pos + Lanes + (G - 1) * Lanes = pos + G * Lanes
      /\ k + Lanes + (G - 1) * Lanes < N + Slack
  <2>1. (G - 1) * Lanes = G * Lanes - Lanes /\ (G - 1) * Lanes >= 0
    BY <1>c, <1>4, SMT
  <2> QED  BY <1>c, <1>t, <1>4, <2>1
<1>5. /\ S \in SUBSET (b .. b + Lanes - 1)
      /\ seen'[way] = seen[way] \cup (b .. b + Lanes - 1) /\ good'[way] = good[way] \cup S
      /\ DOMAIN seen' = Streams /\ DOMAIN good' = Streams /\ pos' = pos + Lanes
  BY <1>s, <1>c, <1>1, <1>b, ReadSets
<1>7. pos' \in 0 .. buflen /\ Multiple(pos', Unit)
  BY <1>5, <1>6, VectorPositions
<1>e. Cardinality(S) \in Nat /\ Cardinality(S) <= Lanes
  BY <1>c, <1>5, AcceptableOfRead
\* The vector is stored where there is room for it.
<1>8. /\ DOMAIN m = 0 .. N + Slack + Lanes - 1
      /\ \A i \in 0 .. k - 1 : m[i] = old[i]
      /\ \A i \in 0 .. Cardinality(S) - 1 : m[k + i] = v[i]
      /\ \A i \in N + Slack .. N + Slack + Lanes - 1 : m[i] = Junk
  <2>1. /\ DOMAIN old = 0 .. N + Slack + Lanes - 1
        /\ \A i \in N + Slack .. N + Slack + Lanes - 1 : old[i] = Junk
    BY <1>2, <1>m DEF SamplerInv, MemoryInv
  <2>2. k + Lanes < N + Slack
    BY <1>c, <1>6
  <2>3. DOMAIN old \subseteq Int /\ k .. k + Lanes - 1 \subseteq DOMAIN old
    BY <1>c, <2>1, <2>2
  <2>4. /\ DOMAIN Store(old, k, v) = DOMAIN old
        /\ \A i \in DOMAIN old : i < k \/ i >= k + Lanes => Store(old, k, v)[i] = old[i]
        /\ \A i \in 0 .. Lanes - 1 : Store(old, k, v)[k + i] = v[i]
    BY <1>c, <2>3, StoredVector
  <2>5. /\ \A i \in 0 .. k - 1 : i \in 0 .. N + Slack + Lanes - 1 /\ i < k
        /\ \A i \in N + Slack .. N + Slack + Lanes - 1 :
             i \in 0 .. N + Slack + Lanes - 1 /\ i >= k + Lanes
        /\ \A i \in 0 .. Cardinality(S) - 1 : i \in 0 .. Lanes - 1
    BY <1>c, <1>e, <2>2
  <2> QED  BY <1>m, <2>1, <2>4, <2>5
<1>9. ctr[way] = 0 /\ Partial(seen[way], good[way], old, k, b)
  <2>1. Upto(way) = b
    BY <1>2, <1>t, <1>c, <1>b DEF Upto
  <2>2. StreamInv(way)
    BY <1>t DEF SamplerInv
  <2> QED  BY <1>2, <1>k, <1>m, <2>1, <2>2 DEF StreamInv
<1>10. ASSUME NEW i \in 0 .. Cardinality(S) - 1 PROVE m[k + i] = Ith(S, i)
  <2>1. i \in Nat /\ i < Cardinality(S)
    BY <1>e
  <2>2. backend = "aarch64"
    BY <1>2 DEF SamplerInv, NeonInv
  <2>3. v[i] = Ith(S, i)
    BY <1>s, <1>t, <1>v, <2>1, <2>2, PackedLanes
  <2> QED  BY <1>8, <2>3
<1>11. Partial(seen'[way], good'[way], m, k + Cardinality(S), b + Lanes)
  <2>1. PICK sn, gd, c : sn = seen[way] /\ gd = good[way] /\ c = Cardinality(S)
    OBVIOUS
  <2>2. Takes(b, Lanes, sn, gd, old, k, S, c, m)
    BY <1>c, <1>5, <1>8, <1>9, <1>10, <1>e, <2>1 DEF Takes
  <2>3. /\ sn \cup (b .. b + Lanes - 1) = 0 .. b + Lanes - 1
        /\ c = Cardinality(S) => Partial(0 .. b + Lanes - 1, gd \cup S, m, k + c, b + Lanes)
    BY <2>2, TakeNext
  <2> QED  BY <1>5, <2>1, <2>3
<1>12. ASSUME NEW w \in Streams PROVE StreamInv(w)'
  <2>1. CASE w # way
    BY <1>s, <1>c, <1>1, <1>2, <2>1, OtherStreams
  <2>2. CASE w = way
    <3>1. Upto(w)' = b + Lanes
      BY <1>2, <1>t, <1>c, <1>5, <1>b, <2>2 DEF Upto
    <3>2. stored' = k + Cardinality(S)
      BY <1>1, <1>k
    <3> QED  BY <1>2, <1>m, <1>9, <1>11, <2>2, <3>1, <3>2 DEF StreamInv, Partial
  <2> QED  BY <2>1, <2>2
<1>13. TypeInv'
  <2>1. group' \in 0 .. Groups - 1 /\ stored' \in Nat
    BY <1>c, <1>4, <1>1, <1>k, <1>e
  <2> QED  BY <1>s, <1>t, <1>2, <1>5, <1>7, <2>1, SameSampler DEF TypeInv
<1>14. MemoryInv'
  BY <1>s, <1>2, <1>m, <1>8, SameSampler DEF SamplerInv, MemoryInv
<1>15. pos' + group' * Lanes = pos + G * Lanes
  BY <1>4, <1>5, <1>6
<1>16. PositionInv'
  BY <1>s, <1>2, <1>4, <1>7, <1>15, SameSampler DEF PositionInv
<1>17. NeonInv'
  <2>1. stored' + group' * Lanes < N + Slack
    BY <1>c, <1>1, <1>k, <1>e, <1>4, <1>6
  <2> QED  BY <1>s, <1>2, <1>4, <1>15, <2>1, SameSampler DEF SamplerInv, NeonInv
<1> QED  BY <1>s, <1>12, <1>13, <1>14, <1>16, <1>17, SameSampler DEF SamplerInv

LEMMA NeonEndKeeps ==
  ASSUME SamplerInv, NeonEnd
  PROVE  SamplerInv'
<1>s. sampler \in Samplers /\ sampler' = sampler /\ TypeInv
  BY DEF SamplerInv, TypeInv, NeonEnd
<1>c. /\ N \in Nat /\ N >= 1 /\ Lanes \in Nat /\ Lanes >= 1 /\ Unit \in Nat /\ Slack \in Nat
      /\ Groups \in Nat /\ Groups >= 1 /\ Tail \in Nat /\ Tail < Groups
  BY <1>s, Sizes DEF Slack
<1>t. /\ base \in Nat /\ pos \in Nat /\ pos \in 0 .. buflen /\ buflen \in Nat
      /\ way \in Streams /\ way \in Nat /\ stored \in Nat
  <2>1. /\ base \in Nat /\ pos \in 0 .. buflen /\ way \in Streams /\ stored \in Nat
        /\ buflen \in {Block, NBlocks * Block}
    BY <1>s DEF TypeInv
  <2>2. Block \in Nat /\ NBlocks * Block \in Nat /\ Ways \in Nat
    BY <1>s, Sizes
  <2> QED  BY <2>1, <2>2 DEF Streams
<1>1. /\ pc = "neon" /\ group = 0 /\ (stored >= N \/ Iteration = 0) /\ ToNextStream
      /\ a' = [a EXCEPT ![way] = [i \in DOMAIN a[way] |-> IF i < N THEN tmp[i] ELSE a[way][i]]]
      /\ ctr' = [ctr EXCEPT ![way] = IF stored < N THEN stored ELSE N]
      /\ stored' = 0 /\ UNCHANGED <<base, buflen, group, seen, good>>
  BY DEF NeonEnd
<1>2. /\ way' \in Streams /\ pos' = 0 /\ pc' \in {"call", "batch"} /\ (pc' = "batch" => way' = 0)
      /\ \A w \in Streams : Upto(w)' = IF w = way THEN base + buflen ELSE Upto(w)
  BY <1>s, <1>1, NextStream
<1>m. PICK m, old : m = a'[way] /\ old = tmp
  OBVIOUS
<1>3. /\ DOMAIN a' = Streams /\ ctr'[way] = IF stored < N THEN stored ELSE N
      /\ DOMAIN m = 0 .. N + Lanes - 1
      /\ \A i \in 0 .. N + Lanes - 1 : m[i] = IF i < N THEN old[i] ELSE a[way][i]
      /\ \A w \in Streams : w # way => a'[w] = a[w] /\ ctr'[w] = ctr[w]
  <2>1. DOMAIN a[way] = 0 .. N + Lanes - 1
    BY <1>t DEF SamplerInv, MemoryInv
  <2> QED  BY <1>s, <1>t, <1>1, <1>m, <2>1 DEF TypeInv
\* A polynomial that is not full has taken the whole buffer.
<1>4. stored < N => pos = buflen
  <2> SUFFICES ASSUME stored < N PROVE pos = buflen
    OBVIOUS
  <2>1. Iteration = 0
    BY <1>c, <1>t, <1>1
  <2>2. Iter \in Nat /\ buflen - pos \in Nat
    BY <1>c, <1>t DEF Iter
  <2>3. Remaining \in Nat /\ (Remaining < Iter => buflen - pos < Iter * Lanes)
    BY <1>c, <2>2, QuotientBelow DEF Remaining
  <2>4. Remaining < Iter
    BY <1>c, <2>1, <2>3 DEF Iteration, Iter
  <2>5. Lanes * Iter \in Nat /\ Iter * Lanes = Lanes * Iter
    BY <1>c, <2>2, SMT
  <2>6. buflen < pos + Lanes * Iter /\ pos <= buflen
    BY <1>t, <2>3, <2>4, <2>5
  <2>7. Multiple(pos, Lanes * Iter) /\ Multiple(buflen, Lanes * Iter)
    <3>1. 0 * Lanes = 0 /\ pos + 0 = pos
      BY <1>c, <1>t
    <3>2. Multiple(pos + group * Lanes, Lanes * Iter) /\ Multiple(buflen, Lanes * Iter)
      BY <1>1 DEF SamplerInv, NeonInv
    <3> QED  BY <1>1, <3>1, <3>2
  <2> QED  BY <1>t, <2>5, <2>6, <2>7, MultiplesApart
<1>5. Partial(seen[way], good[way], old, stored, base + pos)
  <2>1. Upto(way) = base + pos
    BY <1>1, <1>t DEF Upto
  <2>2. StreamInv(way)
    BY <1>t DEF SamplerInv
  <2> QED  BY <1>1, <1>m, <2>1, <2>2 DEF StreamInv
<1>6. ASSUME NEW w \in Streams, w = way PROVE StreamInv(w)'
  <2>1. Upto(w)' = base + buflen /\ ~(pc' = "neon")
    BY <1>2, <1>6
  <2>2. CASE stored < N
    <3>1. \A i \in 0 .. stored - 1 : m[i] = old[i]
      <4>1. \A i \in 0 .. stored - 1 : i \in 0 .. N + Lanes - 1 /\ i < N
        BY <1>c, <1>t, <2>2
      <4> QED  BY <1>3, <4>1
    <3>2. Partial(seen[way], good[way], m, stored, base + buflen)
      BY <1>4, <1>5, <2>2, <3>1 DEF Partial, Ordered
    <3>3. ctr'[w] = stored
      BY <1>3, <1>6, <2>2
    <3> QED  BY <1>s, <1>1, <1>m, <1>6, <2>1, <2>2, <3>2, <3>3, SameSampler DEF StreamInv, Partial
  <2>3. CASE ~(stored < N)
    <3>1. \A i \in 0 .. N - 1 : m[i] = old[i]
      <4>1. \A i \in 0 .. N - 1 : i \in 0 .. N + Lanes - 1 /\ i < N
        BY <1>c
      <4> QED  BY <1>3, <4>1
    <3>2. ctr'[w] = N /\ ~(N < N) /\ N <= stored
      BY <1>3, <1>c, <1>t, <1>6, <2>3
    <3>3. /\ seen[way] = 0 .. (base + pos) - 1 /\ good[way] \subseteq seen[way]
          /\ Ordered(old, stored, good[way])
      BY <1>5 DEF Partial
    <3>4. Ordered(m, N, good[way])
      BY <1>c, <1>t, <3>1, <3>2, <3>3, OrderedPrefix
    <3>5. \E c \in Nat : seen[way] = 0 .. c - 1 /\ c <= base + buflen
      <4>1. base + pos \in Nat /\ base + pos <= base + buflen
        BY <1>t
      <4> QED  BY <3>3, <4>1
    <3>6. Complete(seen[way], good[way], m, base + buflen)
      BY <3>3, <3>4, <3>5 DEF Complete
    <3>7. Complete(seen[w], good[w], a[w], Upto(w))'
      BY <1>s, <1>1, <1>m, <1>6, <2>1, <3>6, SameSampler DEF Complete
    <3> QED  BY <1>s, <2>1, <3>2, <3>7, SameSampler DEF StreamInv
  <2> QED  BY <2>2, <2>3
<1>7. ASSUME NEW w \in Streams PROVE StreamInv(w)'
  <2>1. CASE w # way
    <3>1. Upto(w)' = Upto(w) /\ StreamInv(w)
      BY <1>2, <2>1 DEF SamplerInv
    <3> QED  BY <1>s, <1>1, <1>2, <1>3, <2>1, <3>1, StreamKept
  <2> QED  BY <1>6, <2>1
<1>8. TypeInv'
  <2>1. ASSUME NEW w \in Streams PROVE ctr'[w] \in 0 .. N
    <3>1. CASE w # way
      BY <1>s, <1>3, <3>1 DEF TypeInv
    <3>2. CASE w = way
      BY <1>c, <1>t, <1>3, <3>2
    <3> QED  BY <3>1, <3>2
  <2>2. ctr' \in [Streams -> 0 .. N]
    BY <1>1, <1>s, <2>1 DEF TypeInv
  <2>3. pos' \in 0 .. buflen'
    BY <1>1, <1>2, <1>t
  <2> QED  BY <1>s, <1>1, <1>2, <1>3, <2>2, <2>3, SameSampler DEF TypeInv
<1>9. MemoryInv'
  <2>1. ASSUME NEW w \in Streams
        PROVE  /\ DOMAIN a'[w] = 0 .. N + Lanes - 1
               /\ \A i \in N .. N + Lanes - 1 : a'[w][i] = Junk
    <3>1. CASE w # way
      BY <1>3, <3>1 DEF SamplerInv, MemoryInv
    <3>2. CASE w = way
      <4>1. \A i \in N .. N + Lanes - 1 : a[way][i] = Junk
        BY <1>t DEF SamplerInv, MemoryInv
      <4>2. \A i \in N .. N + Lanes - 1 : i \in 0 .. N + Lanes - 1 /\ ~(i < N)
        BY <1>c
      <4> QED  BY <1>3, <1>m, <3>2, <4>1, <4>2
    <3> QED  BY <3>1, <3>2
  <2> QED  BY <1>s, <1>2, <2>1, SameSampler DEF MemoryInv
<1>10. PositionInv' /\ NeonInv'
  <2>1. Multiple(0, Unit) /\ 0 + 0 * Lanes <= buflen
    BY <1>c, <1>t, ZeroIsMultiple
  <2> QED  BY <1>s, <1>1, <1>2, <2>1, SameSampler DEF PositionInv, NeonInv
<1> QED  BY <1>s, <1>7, <1>8, <1>9, <1>10, SameSampler DEF SamplerInv

LEMMA StutterKeeps ==
  ASSUME SamplerInv, UNCHANGED vars
  PROVE  SamplerInv'
<1>1. UNCHANGED <<sampler, pc, base, buflen, way, pos, group, ctr, a, tmp, stored, seen, good>>
  BY DEF vars
<1>2. sampler' = sampler
  BY <1>1
<1>3. TypeInv' /\ MemoryInv' /\ PositionInv' /\ NeonInv'
  BY <1>1, <1>2, SameSampler DEF SamplerInv, TypeInv, MemoryInv, PositionInv, NeonInv
<1>4. ASSUME NEW w \in Streams PROVE StreamInv(w)'
  <2>1. Upto(w)' = Upto(w)
    BY <1>1 DEF Upto
  <2> QED  BY <1>1, <2>1, SameSampler DEF SamplerInv, StreamInv, Partial, Complete
<1> QED  BY <1>2, <1>3, <1>4, SameSampler DEF SamplerInv

LEMMA Inductive == Spec => []SamplerInv
<1>1. SamplerInv /\ [Next]_vars => SamplerInv'
  <2> SUFFICES ASSUME SamplerInv, [Next]_vars PROVE SamplerInv'
    OBVIOUS
  <2>1. CASE RejCall      BY <2>1, RejCallStep
  <2>2. CASE VectorStep   BY <2>2, VectorStepKeeps
  <2>3. CASE VectorEnd    BY <2>3, VectorEndKeeps
  <2>4. CASE NeonStep     BY <2>4, NeonStepKeeps
  <2>5. CASE NeonEnd      BY <2>5, NeonEndKeeps
  <2>6. CASE ScalarStep   BY <2>6, ScalarStepKeeps
  <2>7. CASE ScalarEnd    BY <2>7, ScalarEndKeeps
  <2>8. CASE Refill       BY <2>8, RefillKeeps
  <2>9. CASE Done         BY <2>9, DoneKeeps
  <2>10. CASE UNCHANGED vars  BY <2>10, StutterKeeps
  <2> QED  BY <2>1, <2>2, <2>3, <2>4, <2>5, <2>6, <2>7, <2>8, <2>9, <2>10 DEF Next
<1> QED  BY <1>1, InitSampler, PTL DEF Spec

-------------------------------------------------------------------------------
(***************************************************************************)
(* The theorems.                                                           *)
(***************************************************************************)
\* mld_rej_uniform and mld_rej_eta, in C, for AVX2 and for AArch64: no loop reads
\* beyond its buffer, no vector is stored behind a polynomial or behind the stack
\* buffer, whatever the sizes and the candidates.
THEOREM TypeCorrect == Spec => []TypeOK
<1>1. SamplerInv => TypeOK
  <2> SUFFICES ASSUME SamplerInv PROVE TypeOK
    OBVIOUS
  <2> QED  BY DEF SamplerInv, TypeInv, MemoryInv, TypeOK
<1> QED  BY <1>1, Inductive, PTL

LEMMA CountFromZero ==
  ASSUME NEW c \in Nat, NEW sn, sn = 0 .. c - 1
  PROVE  sn = 0 .. Cardinality(sn) - 1
<1>1. 0 \in Int /\ c - 1 \in Int /\ (0 > c - 1 => c = 0) /\ ((c - 1) - 0) + 1 = c
  OBVIOUS
<1>2. Cardinality(0 .. c - 1) = c
  BY <1>1, FS_Interval
<1> QED  BY <1>2

\* mld_poly_uniform(_4x) and mld_poly_uniform_eta(_4x): each polynomial is filled
\* with the acceptable candidates of its stream in their order, whichever loops
\* read them and however many blocks the batch needs.
THEOREM FilledInOrder == Spec => []SampledInOrder
<1>1. SamplerInv => SampledInOrder
  <2> SUFFICES ASSUME SamplerInv, NEW w \in Streams
               PROVE  /\ seen[w] = 0 .. Cardinality(seen[w]) - 1
                      /\ IF pc = "neon" /\ w = way
                         THEN stored = Cardinality(good[w]) /\ InOrder(tmp, stored, w)
                         ELSE ctr[w] < N => ctr[w] = Cardinality(good[w])
                      /\ InOrder(a[w], ctr[w], w)
                      /\ pc = "done" => ctr[w] = N
    BY DEF SampledInOrder
  <2>0. StreamInv(w) /\ ctr[w] \in 0 .. N /\ N \in Nat /\ base \in Nat /\ pos \in Nat /\ buflen \in Nat
    BY Sizes DEF SamplerInv, TypeInv
  <2>1. Upto(w) \in Nat
    BY <2>0 DEF Upto
  <2>2. \A m, n : Ordered(m, n, good[w]) => InOrder(m, n, w)
    BY DEF Ordered, Rank, InOrder
  <2>3. pc = "done" => ctr[w] = N
    BY DEF SamplerInv, PositionInv
  <2>4. CASE pc = "neon" /\ w = way
    <3>1. /\ ctr[w] = 0 /\ seen[w] = 0 .. Upto(w) - 1 /\ stored = Cardinality(good[w])
          /\ Ordered(tmp, stored, good[w])
      BY <2>0, <2>4 DEF StreamInv, Partial
    <3>2. seen[w] = 0 .. Cardinality(seen[w]) - 1
      BY <2>1, <3>1, CountFromZero
    <3>3. Ordered(a[w], 0, good[w])
      <4>1. 0 .. 0 - 1 = {}
        OBVIOUS
      <4> QED  BY <4>1 DEF Ordered
    <3> QED  BY <2>2, <2>3, <2>4, <3>1, <3>2, <3>3
  <2>5. CASE ~(pc = "neon" /\ w = way) /\ ctr[w] < N
    <3>1. /\ seen[w] = 0 .. Upto(w) - 1 /\ ctr[w] = Cardinality(good[w])
          /\ Ordered(a[w], ctr[w], good[w])
      BY <2>0, <2>5 DEF StreamInv, Partial
    <3>2. seen[w] = 0 .. Cardinality(seen[w]) - 1
      BY <2>1, <3>1, CountFromZero
    <3> QED  BY <2>2, <2>3, <2>5, <3>1, <3>2
  <2>6. CASE ~(pc = "neon" /\ w = way) /\ ~(ctr[w] < N)
    <3>1. ctr[w] = N
      BY <2>0, <2>6
    <3>2. Complete(seen[w], good[w], a[w], Upto(w))
      BY <2>0, <2>6 DEF StreamInv
    <3>3. PICK c \in Nat : seen[w] = 0 .. c - 1
      BY <3>2 DEF Complete
    <3>4. seen[w] = 0 .. Cardinality(seen[w]) - 1
      BY <3>3, CountFromZero
    <3>5. Ordered(a[w], ctr[w], good[w])
      BY <3>1, <3>2 DEF Complete
    <3> QED  BY <2>2, <2>3, <2>6, <3>4, <3>5
  <2> QED  BY <2>4, <2>5, <2>6
<1> QED  BY <1>1, Inductive, PTL
-------------------------------------------------------------------------------
(***************************************************************************)
(* mld_poly_challenge.  Its three invariants are inductive together.       *)
(***************************************************************************)
\* At the start of mld_poly_challenge every variable has its type.
THEOREM ChallengeTypeInit == ChallengeInit => ChallengeTypeOK
BY ChallengeAssumption, SMT DEF ChallengeInit, ChallengeTypeOK, Coefficients, Steps

\* No step of the loops reads outside the block or the coefficients.
THEOREM ChallengeTypeNext == ChallengeTypeOK /\ [ChallengeNext]_cvars => ChallengeTypeOK'
<1> SUFFICES ASSUME ChallengeTypeOK, [ChallengeNext]_cvars PROVE ChallengeTypeOK'
  OBVIOUS
<1> USE ChallengeAssumption
<1>1. CASE NextBlock
  BY <1>1, SMT DEF ChallengeTypeOK, NextBlock
<1>2. CASE TooLarge
  BY <1>2, SMT DEF ChallengeTypeOK, TooLarge, ReadByte
<1>3. CASE Place
  <2>1. PICK j \in Coefficients : /\ j <= next
                                  /\ cp' = [cp EXCEPT ![next] = cp[j], ![j] = Sign]
                                  /\ token' = Moved(j)
    BY <1>3 DEF Place
  <2>2. stage = "place" /\ next \in MLDSA_N - TAU .. MLDSA_N - 1 /\ next' = next + 1 /\ signs' = signs
        /\ blocks' = blocks /\ read' = read + 1 /\ offset' = offset + 1 /\ offset < Rate
        /\ stage' = (IF next' < MLDSA_N THEN "place" ELSE "done")
    BY <1>3, SMT DEF ChallengeTypeOK, Place, ReadByte
  <2>3. next \in Coefficients /\ next - (MLDSA_N - TAU) \in Steps
    BY <2>2, SMT DEF Coefficients, Steps
  <2>4. signs[next - (MLDSA_N - TAU)] \in {0, 1}
    BY <2>3 DEF ChallengeTypeOK
  <2>5. Sign \in {-1, 0, 1}
    BY <2>4, SMT DEF Sign
  <2>6. cp' \in [Coefficients -> {-1, 0, 1}]
    BY <2>1, <2>3, <2>5 DEF ChallengeTypeOK
  <2>7. token' \in [Steps -> -1 .. MLDSA_N - 1]
    BY <2>1, <2>3, SMT DEF ChallengeTypeOK, Moved, Coefficients
  <2>8. next' \in MLDSA_N - TAU .. MLDSA_N /\ (stage' = "done" <=> next' = MLDSA_N) /\ stage' \in {"place", "done"}
    BY <2>2, SMT
  <2>9. offset' \in 0 .. Rate /\ blocks' \in Nat /\ read' \in Nat
    BY <2>2, SMT DEF ChallengeTypeOK
  <2> QED BY <2>2, <2>6, <2>7, <2>8, <2>9 DEF ChallengeTypeOK
<1>4. CASE UNCHANGED cvars
  BY <1>4 DEF ChallengeTypeOK, cvars
<1> QED BY <1>1, <1>2, <1>3, <1>4 DEF ChallengeNext

\* Type correctness: no byte is read outside the buffer of one block, and the
\* outer loop ends exactly when all TAU places are taken.
THEOREM ChallengeTypeCorrect == ChallengeSpec => []ChallengeTypeOK
BY ChallengeTypeInit, ChallengeTypeNext, PTL DEF ChallengeSpec

-------------------------------------------------------------------------------
\* The empty polynomial holds no coefficient yet.
THEOREM BallInit == ChallengeInit => InBall
BY ChallengeAssumption, SMT DEF ChallengeInit, InBall, Placed, Coefficients

\* The step that places a coefficient: iteration `now` puts its sign at j, and
\* whichever coefficient was at j moves to i, where none was before.
LEMMA BallPlace == ChallengeTypeOK /\ InBall /\ Place => InBall'
<1> SUFFICES ASSUME ChallengeTypeOK, InBall, Place PROVE InBall'
  OBVIOUS
<1> USE ChallengeAssumption
<1> DEFINE now == next - (MLDSA_N - TAU)
<1>1. PICK j \in Coefficients : /\ j <= next
                                /\ cp' = [cp EXCEPT ![next] = cp[j], ![j] = Sign]
                                /\ token' = Moved(j)
  BY DEF Place
<1>2. next \in MLDSA_N - TAU .. MLDSA_N - 1 /\ next' = next + 1 /\ signs' = signs
  BY SMT DEF ChallengeTypeOK, Place, ReadByte
<1>3. next \in Coefficients /\ now \in Steps /\ j \in 0 .. next
  BY <1>1, <1>2, SMT DEF Coefficients, Steps
<1>4. Placed' = Placed \cup {now} /\ now \notin Placed /\ Placed \subseteq Steps
  BY <1>2, SMT DEF Placed, Steps
<1>5. cp \in [Coefficients -> {-1, 0, 1}]
  BY DEF ChallengeTypeOK
<1>6. \A x \in Coefficients : cp'[x] = IF x = j THEN Sign ELSE IF x = next THEN cp[j] ELSE cp[x]
  BY <1>1, <1>3, <1>5
<1>7. \A k \in Steps : token'[k] = IF k = now THEN j ELSE IF token[k] = j THEN next ELSE token[k]
  BY <1>1 DEF Moved
<1>8. \A k \in Placed : token[k] \in 0 .. next - 1 /\ cp[token[k]] = 1 - 2 * signs[k]
  BY DEF InBall
<1>9. next' - 1 = next
  BY <1>2, SMT
<1>10. \A k \in Placed' : token'[k] \in 0 .. next /\ cp'[token'[k]] = 1 - 2 * signs[k]
  <2> SUFFICES ASSUME NEW k \in Placed'
               PROVE  token'[k] \in 0 .. next /\ cp'[token'[k]] = 1 - 2 * signs[k]
    OBVIOUS
  <2>1. CASE k = now
    BY <2>1, <1>3, <1>6, <1>7 DEF Sign
  <2>2. CASE k # now
    <3>1. k \in Placed /\ k \in Steps
      BY <2>2, <1>4
    <3>2. token[k] \in 0 .. next - 1 /\ token[k] \in Coefficients
      BY <3>1, <1>8, <1>2, SMT DEF Coefficients
    <3>3. CASE token[k] = j
      BY <3>1, <3>2, <3>3, <2>2, <1>2, <1>3, <1>6, <1>7, <1>8, SMT
    <3>4. CASE token[k] # j
      <4>1. token'[k] = token[k]
        BY <3>1, <3>4, <2>2, <1>7
      <4>2. token[k] # next /\ token[k] \in 0 .. next
        BY <3>2, <1>2, SMT
      <4> QED BY <4>1, <4>2, <3>1, <3>2, <3>4, <1>6, <1>8
    <3> QED BY <3>3, <3>4
  <2> QED BY <2>1, <2>2
<1>11. \A k \in Placed' : \A l \in Placed' : k # l => token'[k] # token'[l]
  <2>1. \A k \in Placed : \A l \in Placed : k # l => token[k] # token[l]
    BY DEF InBall
  <2>2. \A k \in Placed : token[k] # next
    BY <1>8, <1>2, SMT
  <2> SUFFICES ASSUME NEW k \in Placed', NEW l \in Placed', k # l
               PROVE  token'[k] # token'[l]
    OBVIOUS
  <2>3. ASSUME NEW p \in Placed PROVE token'[p] # j /\ token'[now] = j
    <3>1. p \in Steps /\ p # now
      BY <1>4
    <3>2. token'[p] = IF token[p] = j THEN next ELSE token[p]
      BY <3>1, <1>7
    <3>3. token[p] # next
      BY <2>2
    <3>4. token'[now] = j
      BY <1>3, <1>7
    <3> QED BY <3>2, <3>3, <3>4
  <2>4. CASE k = now
    <3>1. l \in Placed
      BY <2>4, <1>4
    <3> QED BY <3>1, <2>4, <2>3
  <2>5. CASE l = now
    <3>1. k \in Placed
      BY <2>5, <1>4
    <3> QED BY <3>1, <2>5, <2>3
  <2>6. CASE k # now /\ l # now
    BY <2>6, <2>1, <2>2, <1>4, <1>7
  <2> QED BY <2>4, <2>5, <2>6
<1>12. \A x \in Coefficients : cp'[x] # 0 => \E k \in Placed' : token'[k] = x
  <2> SUFFICES ASSUME NEW x \in Coefficients, cp'[x] # 0
               PROVE  \E k \in Placed' : token'[k] = x
    OBVIOUS
  <2>0. \A z \in Coefficients : cp[z] # 0 => \E k \in Placed : token[k] = z
    BY DEF InBall
  <2>1. CASE x = j
    BY <2>1, <1>3, <1>4, <1>7
  <2>2. CASE x # j /\ x = next
    <3>1. cp[j] # 0
      BY <2>2, <1>6
    <3>2. PICK k \in Placed : token[k] = j
      BY <3>1, <2>0
    <3> QED BY <3>2, <2>2, <1>4, <1>7
  <2>3. CASE x # j /\ x # next
    <3>1. cp[x] # 0
      BY <2>3, <1>6
    <3>2. PICK k \in Placed : token[k] = x
      BY <3>1, <2>0
    <3> QED BY <3>2, <2>3, <1>4, <1>7
  <2> QED BY <2>1, <2>2, <2>3
<1> QED BY <1>2, <1>9, <1>10, <1>11, <1>12 DEF InBall

\* No step of the loops loses a coefficient: only Place touches the polynomial.
THEOREM BallNext == ChallengeTypeOK /\ InBall /\ [ChallengeNext]_cvars => InBall'
<1> SUFFICES ASSUME ChallengeTypeOK, InBall, [ChallengeNext]_cvars PROVE InBall'
  OBVIOUS
<1>1. CASE Place
  BY <1>1, BallPlace
<1>2. ASSUME UNCHANGED <<signs, cp, next, token>> PROVE InBall'
  BY <1>2 DEF InBall, Placed
<1>3. CASE NextBlock \/ TooLarge \/ UNCHANGED cvars
  BY <1>3, <1>2 DEF NextBlock, TooLarge, cvars
<1> QED BY <1>1, <1>3 DEF ChallengeNext

\* mld_poly_challenge builds a polynomial of exactly TAU coefficients of 1 or
\* -1: no iteration loses a coefficient of an earlier one, whatever the stream.
THEOREM ChallengeInBall == ChallengeSpec => []InBall
<1>1. ChallengeInit => ChallengeTypeOK /\ InBall
  BY ChallengeTypeInit, BallInit
<1>2. ChallengeTypeOK /\ InBall /\ [ChallengeNext]_cvars => ChallengeTypeOK' /\ InBall'
  BY ChallengeTypeNext, BallNext
<1> QED BY <1>1, <1>2, PTL DEF ChallengeSpec

-------------------------------------------------------------------------------
\* The places are consecutive bytes of the stream, across the ends of blocks.
THEOREM PlacesInOrder == ChallengeSpec => []StreamInOrder
<1> USE ChallengeAssumption
<1>1. ChallengeInit => StreamInOrder
  BY SMT DEF ChallengeInit, StreamInOrder
<1>2. ChallengeTypeOK /\ StreamInOrder /\ [ChallengeNext]_cvars => StreamInOrder'
  <2> SUFFICES ASSUME ChallengeTypeOK, StreamInOrder, [ChallengeNext]_cvars PROVE StreamInOrder'
    OBVIOUS
  <2>1. CASE NextBlock
    <3>1. offset = Rate /\ offset' = 0 /\ blocks' = blocks + 1 /\ read' = read
      BY <2>1, SMT DEF NextBlock, ChallengeTypeOK
    <3>2. blocks * Rate = (blocks - 1) * Rate + Rate
      BY SMT DEF ChallengeTypeOK
    <3>3. (blocks + 1) - 1 = blocks
      BY SMT DEF ChallengeTypeOK
    <3>4. blocks * Rate \in Int /\ (blocks - 1) * Rate \in Int
      BY SMT DEF ChallengeTypeOK
    <3> QED BY <3>1, <3>2, <3>3, <3>4, SMT DEF StreamInOrder
  <2>2. CASE TooLarge \/ Place
    <3>1. offset' = offset + 1 /\ read' = read + 1 /\ blocks' = blocks
      BY <2>2 DEF TooLarge, Place, ReadByte
    <3>2. (blocks - 1) * Rate \in Int
      BY SMT DEF ChallengeTypeOK
    <3> QED BY <3>1, <3>2, SMT DEF StreamInOrder, ChallengeTypeOK
  <2>3. CASE UNCHANGED cvars
    BY <2>3 DEF StreamInOrder, cvars
  <2> QED BY <2>1, <2>2, <2>3 DEF ChallengeNext
<1> QED BY <1>1, <1>2, ChallengeTypeCorrect, PTL DEF ChallengeSpec
===============================================================================
