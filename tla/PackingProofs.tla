------------------------------ MODULE PackingProofs ------------------------------
(***************************************************************************)
(* What packing.c and poly.c write into keys and signatures.               *)
(*                                                                         *)
(* The hint section, for every K, N and OMEGA: mld_pack_sig writes the     *)
(* encoding of the hint vector, and mld_unpack_hints accepts exactly the   *)
(* encodings.                                                              *)
(*                                                                         *)
(* Well(s, v) is what the checks of the decoder have established when it   *)
(* accepts s and returns v.  That a section is well-formed for v exactly   *)
(* if it is the encoding of v is a matter of counting: the positions of a  *)
(* well-formed section enumerate the ones of v in their order (WellIs-     *)
(* Encode), and those of an encoding do by definition (EncodeIsWell).      *)
(*                                                                         *)
(* The coefficients, for every value of them: the bits that a group of     *)
(* them is packed into, and unpacked from (EveryFieldInPlace).             *)
(*                                                                         *)
(* The keys, in every parameter set: which seed each polynomial of the     *)
(* matrix and of the short vectors is sampled from (MatrixExpanded,        *)
(* ShortExpanded), and where each item of a key is written and read        *)
(* (KeyTypeCorrect, KeysUnpackAsPacked).                                   *)
(***************************************************************************)
EXTENDS HintCodec, CoeffPacking, KeyMaterial, FiniteSetTheorems, FunctionTheorems, TLAPS

Vectors == [Polys -> [Bytes -> {0, 1}]]

\* The positions from Start to End - 1 belong to polynomial p.
Start(s, p) == IF p = 0 THEN 0 ELSE s[OMEGA + p - 1]
End(s, p) == s[OMEGA + p]
Of(s, l, p) == Start(s, p) <= l /\ l < End(s, p)

Rising(s, p) ==
  /\ Start(s, p) <= End(s, p) /\ End(s, p) <= OMEGA
  /\ \A q \in Polys : q < p => End(s, q) <= Start(s, p)
  /\ \A l, m \in Nat : Of(s, l, p) /\ Of(s, m, p) /\ l < m => s[l] < s[m]

Lists(s, v, p) ==
  \A c \in Bytes : v[p][c] = 1 <=> \E l \in Nat : Of(s, l, p) /\ s[l] = c

Well(s, v) ==
  /\ \A p \in Polys : Rising(s, p) /\ Lists(s, v, p)
  /\ \A l \in Nat : l < End(s, K - 1) => \E p \in Polys : Of(s, l, p)
  /\ \A l \in Nat : End(s, K - 1) <= l /\ l < OMEGA => s[l] = 0

-------------------------------------------------------------------------------
(***************************************************************************)
(* The order of the ones.                                                  *)
(***************************************************************************)
Earlier(v, o) == {a \in Ones(v) : Before(a, o)}
UpTo(v, p) == {o \in Ones(v) : o[1] <= p}

LEMMA OnesFinite ==
  ASSUME NEW v
  PROVE  /\ IsFiniteSet(Ones(v)) /\ Cardinality(Ones(v)) \in Nat
         /\ Ones(v) \subseteq Polys \X Bytes
<1>1. IsFiniteSet(Polys) /\ IsFiniteSet(Bytes)
  BY FS_Interval, HintAssumption DEF Polys, Bytes
<1>2. IsFiniteSet(Polys \X Bytes)
  BY <1>1, FS_Product
<1>3. Ones(v) \subseteq Polys \X Bytes
  BY DEF Ones
<1> QED  BY <1>2, <1>3, FS_Subset, FS_CardinalityType

LEMMA PartOfOnes ==
  ASSUME NEW v, NEW S \in SUBSET Ones(v)
  PROVE  /\ IsFiniteSet(S) /\ Cardinality(S) \in Nat
         /\ Cardinality(S) <= Cardinality(Ones(v))
BY OnesFinite, FS_Subset, FS_CardinalityType

LEMMA MoreOnes ==
  ASSUME NEW v, NEW T \in SUBSET Ones(v), NEW S \in SUBSET T
  PROVE  /\ Cardinality(S) <= Cardinality(T)
         /\ S # T => Cardinality(S) < Cardinality(T)
<1>1. IsFiniteSet(T) /\ Cardinality(T) \in Nat /\ Cardinality(S) \in Nat
  BY PartOfOnes
<1> QED  BY <1>1, FS_Subset

LEMMA TotalOrder ==
  ASSUME NEW a \in Polys \X Bytes, NEW b \in Polys \X Bytes
  PROVE  /\ a # b <=> Before(a, b) \/ Before(b, a)
         /\ ~(Before(a, b) /\ Before(b, a))
         /\ \A c \in Polys \X Bytes : Before(a, b) /\ Before(b, c) => Before(a, c)
<1>1. /\ a = <<a[1], a[2]>> /\ a[1] \in Int /\ a[2] \in Int
      /\ b = <<b[1], b[2]>> /\ b[1] \in Int /\ b[2] \in Int
  BY DEF Polys, Bytes
<1>2. a = b <=> a[1] = b[1] /\ a[2] = b[2]
  BY <1>1
<1>3. \A c \in Polys \X Bytes : c[1] \in Int /\ c[2] \in Int
  BY DEF Polys, Bytes
<1> QED  BY <1>1, <1>2, <1>3 DEF Before

LEMMA RankRises ==
  ASSUME NEW v, NEW a \in Ones(v), NEW b \in Ones(v)
  PROVE  /\ Rank(v, a) \in Nat /\ Rank(v, a) < Cardinality(Ones(v))
         /\ Before(a, b) <=> Rank(v, a) < Rank(v, b)
         /\ Rank(v, a) = Rank(v, b) => a = b
<1>0. \A o : Rank(v, o) = Cardinality(Earlier(v, o)) /\ Earlier(v, o) \subseteq Ones(v)
  BY DEF Rank, Earlier
<1>1. \A x, y \in Ones(v) : Before(x, y) => Rank(v, x) < Rank(v, y)
  <2> SUFFICES ASSUME NEW x \in Ones(v), NEW y \in Ones(v), Before(x, y)
               PROVE  Rank(v, x) < Rank(v, y)
    OBVIOUS
  <2>1. Earlier(v, x) \subseteq Earlier(v, y)
    BY OnesFinite, TotalOrder DEF Earlier
  <2>2. x \in Earlier(v, y) /\ x \notin Earlier(v, x)
    BY OnesFinite, TotalOrder DEF Earlier
  <2> QED  BY <1>0, <2>1, <2>2, MoreOnes
<1>2. Rank(v, a) \in Nat /\ Rank(v, b) \in Nat
  BY <1>0, PartOfOnes
<1>3. a \notin Earlier(v, a)
  BY OnesFinite, TotalOrder DEF Earlier
<1>4. Rank(v, a) < Cardinality(Ones(v))
  <2>1. Earlier(v, a) # Ones(v)
    BY <1>3
  <2> QED  BY <1>0, <2>1, MoreOnes
<1>5. a # b <=> Before(a, b) \/ Before(b, a)
  BY OnesFinite, TotalOrder
<1>6. ~(Before(a, b) /\ Before(b, a))
  BY OnesFinite, TotalOrder
<1> QED  BY <1>1, <1>2, <1>4, <1>5, <1>6

\* Every number below the weight is the rank of a one.
LEMMA RankOnto ==
  ASSUME NEW v, NEW n \in Nat, n < Cardinality(Ones(v))
  PROVE  \E o \in Ones(v) : Rank(v, o) = n
<1> DEFINE w == Cardinality(Ones(v))
           T == 0 .. w - 1
           rank == [o \in Ones(v) |-> Rank(v, o)]
<1>1. w \in Nat
  BY OnesFinite
<1>2. rank \in [Ones(v) -> T]
  <2> SUFFICES ASSUME NEW o \in Ones(v) PROVE Rank(v, o) \in T
    OBVIOUS
  <2>1. Rank(v, o) \in Nat /\ Rank(v, o) < w
    BY RankRises
  <2> QED  BY <1>1, <2>1
<1>3. \A a, b \in Ones(v) : rank[a] = rank[b] => a = b
  BY RankRises
<1>4. rank \in Injection(Ones(v), T)
  BY <1>2, <1>3, Fun_IsInj
<1>5. IsFiniteSet(T) /\ Cardinality(T) = w
  <2> HIDE DEF w
  <2>1. 0 \in Int /\ w - 1 \in Int /\ (0 > w - 1 => w = 0) /\ w - 1 - 0 + 1 = w
    BY <1>1
  <2> QED  BY <2>1, FS_Interval
<1>6. rank \in Surjection(Ones(v), T)
  BY <1>4, <1>5, FS_Injection
<1>7. n \in T
  BY <1>1
<1>8. \E o \in Ones(v) : rank[o] = n
  <2> HIDE DEF rank, T
  <2> QED  BY <1>6, <1>7 DEF Surjection
<1> QED  BY <1>8

\* A polynomial's ones have consecutive ranks.
LEMMA RankInPoly ==
  ASSUME NEW v, NEW o \in Ones(v)
  PROVE  /\ Rank(v, o) < Cardinality(UpTo(v, o[1]))
         /\ \A p \in Polys : p < o[1] => Cardinality(UpTo(v, p)) <= Rank(v, o)
<1>0. /\ Rank(v, o) = Cardinality(Earlier(v, o)) /\ Earlier(v, o) \subseteq Ones(v)
      /\ \A p : UpTo(v, p) \subseteq Ones(v)
  BY DEF Rank, Earlier, UpTo
<1>1. \A a \in Ones(v) : a[1] \in Int /\ a[2] \in Int
  BY OnesFinite DEF Polys, Bytes
<1>2. Earlier(v, o) \subseteq UpTo(v, o[1])
  BY <1>1 DEF Earlier, UpTo, Before
<1>3. o \in UpTo(v, o[1]) /\ o \notin Earlier(v, o)
  BY <1>1 DEF Earlier, UpTo, Before
<1>4. ASSUME NEW p \in Polys, p < o[1] PROVE UpTo(v, p) \subseteq Earlier(v, o)
  BY <1>1, <1>4 DEF Earlier, UpTo, Before, Polys
<1>5. \A p \in Polys : p < o[1] => Cardinality(UpTo(v, p)) <= Rank(v, o)
  BY <1>0, <1>4, MoreOnes
<1> QED  BY <1>0, <1>2, <1>3, <1>5, MoreOnes

-------------------------------------------------------------------------------
(***************************************************************************)
(* An encoding is well-formed.                                             *)
(***************************************************************************)
LEMMA EncodeIsWell ==
  ASSUME NEW v \in Hints
  PROVE  Well(Encode(v), v)
<1> DEFINE s == Encode(v)
           w == Cardinality(Ones(v))
           C(p) == Cardinality(UpTo(v, p))
<1>v. v \in Vectors /\ w \in Nat /\ w <= OMEGA
  BY OnesFinite DEF Hints, Vectors
<1>k. K \in Nat /\ K >= 1 /\ OMEGA \in Nat
  BY HintAssumption
<1>1. \A p \in Polys : End(s, p) = C(p) /\ C(p) \in Nat /\ C(p) <= w
  <2> SUFFICES ASSUME NEW p \in Polys PROVE End(s, p) = C(p) /\ C(p) \in Nat /\ C(p) <= w
    OBVIOUS
  <2>1. OMEGA + p \in 0 .. OMEGA + K - 1 /\ OMEGA + p >= OMEGA /\ OMEGA + p - OMEGA = p
    BY <1>k DEF Polys
  <2>2. s[OMEGA + p] = C(p)
    <3>1. PICK b : b = OMEGA + p
      OBVIOUS
    <3>2. s[b] = Cardinality({o \in Ones(v) : o[1] <= b - OMEGA})
      BY <2>1, <3>1, Zenon DEF Encode
    <3>3. b - OMEGA = p
      BY <1>k, <3>1 DEF Polys
    <3>4. s[b] = C(b - OMEGA)
      BY <3>2 DEF UpTo
    <3> QED  BY <3>1, <3>3, <3>4
  <2>3. UpTo(v, p) \subseteq Ones(v)
    BY DEF UpTo
  <2> QED  BY <2>2, <2>3, PartOfOnes DEF End
<1>2. \A p \in Polys : Start(s, p) = IF p = 0 THEN 0 ELSE C(p - 1)
  <2> SUFFICES ASSUME NEW p \in Polys, p # 0 PROVE Start(s, p) = C(p - 1)
    BY DEF Start
  <2>1. p - 1 \in Polys /\ OMEGA + p - 1 = OMEGA + (p - 1)
    BY <1>k DEF Polys
  <2> QED  BY <1>1, <2>1 DEF Start, End
<1>3. \A p, q \in Polys : p <= q => C(p) <= C(q)
  <2> SUFFICES ASSUME NEW p \in Polys, NEW q \in Polys, p <= q PROVE C(p) <= C(q)
    OBVIOUS
  <2>1. UpTo(v, p) \subseteq UpTo(v, q) /\ UpTo(v, q) \subseteq Ones(v)
    BY OnesFinite DEF UpTo, Polys
  <2> QED  BY <2>1, MoreOnes
<1>4. C(K - 1) = w
  <2>1. UpTo(v, K - 1) = Ones(v)
    BY OnesFinite, <1>k DEF UpTo, Polys
  <2> QED  BY <2>1
<1>5. \A p \in Polys : Start(s, p) \in Nat /\ Start(s, p) <= End(s, p)
  <2> SUFFICES ASSUME NEW p \in Polys PROVE Start(s, p) \in Nat /\ Start(s, p) <= End(s, p)
    OBVIOUS
  <2>1. p # 0 => p - 1 \in Polys /\ p - 1 <= p
    BY <1>k DEF Polys
  <2> HIDE DEF s, C
  <2> QED  BY <1>1, <1>2, <1>3, <2>1
<1>6. \A p, q \in Polys : q < p => End(s, q) <= Start(s, p)
  <2> SUFFICES ASSUME NEW p \in Polys, NEW q \in Polys, q < p PROVE End(s, q) <= Start(s, p)
    OBVIOUS
  <2>1. p # 0 /\ p - 1 \in Polys /\ q <= p - 1
    BY <1>k DEF Polys
  <2> HIDE DEF s, C
  <2> QED  BY <1>1, <1>2, <1>3, <2>1
<1>7. \A l \in Nat : l < w =>
        \E o \in Ones(v) : Rank(v, o) = l /\ s[l] = o[2] /\ Of(s, l, o[1])
  <2> SUFFICES ASSUME NEW l \in Nat, l < w
               PROVE  \E o \in Ones(v) : Rank(v, o) = l /\ s[l] = o[2] /\ Of(s, l, o[1])
    OBVIOUS
  <2>1. PICK o \in Ones(v) : o = CHOOSE x \in Ones(v) : Rank(v, x) = l
    BY RankOnto
  <2>2. Rank(v, o) = l
    BY RankOnto, <2>1
  <2>3. l \in 0 .. OMEGA + K - 1 /\ ~(l >= OMEGA)
    BY <1>v, <1>k
  <2>4. s[l] = o[2]
    BY <2>1, <2>3 DEF Encode
  <2>5. o[1] \in Polys
    BY OnesFinite
  <2>6. l < C(o[1])
    BY RankInPoly, <2>2
  <2>7. o[1] # 0 => o[1] - 1 \in Polys /\ o[1] - 1 < o[1]
    BY <2>5, <1>k DEF Polys
  <2>8. o[1] # 0 => C(o[1] - 1) <= l
    BY RankInPoly, <2>2, <2>7
  <2>9. Of(s, l, o[1])
    <3> HIDE DEF s, C
    <3> QED  BY <1>1, <1>2, <2>5, <2>6, <2>8 DEF Of
  <2> QED  BY <2>2, <2>4, <2>9
<1>8. \A l \in Nat, p \in Polys : Of(s, l, p) => l < w
  <2> HIDE DEF s, C, w
  <2> QED  BY <1>1, <1>v DEF Of
<1>9. \A l \in Nat, p, q \in Polys : Of(s, l, p) /\ Of(s, l, q) => p = q
  <2> SUFFICES ASSUME NEW l \in Nat, NEW p \in Polys, NEW q \in Polys,
                      Of(s, l, p), Of(s, l, q), p < q
               PROVE  FALSE
    BY DEF Polys
  <2> HIDE DEF s, C
  <2> QED  BY <1>1, <1>5, <1>6 DEF Of
\* The position of rank l in polynomial p is that of a one of p.
<1>10. \A l \in Nat, p \in Polys : Of(s, l, p) =>
         <<p, s[l]>> \in Ones(v) /\ Rank(v, <<p, s[l]>>) = l
  <2> SUFFICES ASSUME NEW l \in Nat, NEW p \in Polys, Of(s, l, p)
               PROVE  <<p, s[l]>> \in Ones(v) /\ Rank(v, <<p, s[l]>>) = l
    OBVIOUS
  <2>1. PICK o \in Ones(v) : Rank(v, o) = l /\ s[l] = o[2] /\ Of(s, l, o[1])
    BY <1>7, <1>8
  <2>2. o[1] \in Polys /\ o = <<o[1], o[2]>>
    BY OnesFinite
  <2>3. o[1] = p
    BY <1>9, <2>1, <2>2
  <2> QED  BY <2>1, <2>2, <2>3
<1>11. ASSUME NEW p \in Polys, NEW l \in Nat, NEW m \in Nat, Of(s, l, p), Of(s, m, p), l < m
       PROVE  s[l] < s[m]
  <2> DEFINE a == <<p, s[l]>>
             b == <<p, s[m]>>
  <2>1. a \in Ones(v) /\ b \in Ones(v) /\ Rank(v, a) = l /\ Rank(v, b) = m
    BY <1>10, <1>11
  <2>2. Before(a, b)
    BY <2>1, <1>11, RankRises
  <2> QED  BY <2>2 DEF Before, Polys
<1>12. ASSUME NEW p \in Polys PROVE Lists(s, v, p)
  <2> SUFFICES ASSUME NEW c \in Bytes
               PROVE  v[p][c] = 1 <=> \E l \in Nat : Of(s, l, p) /\ s[l] = c
    BY DEF Lists
  <2>1. v[p][c] = 1 <=> <<p, c>> \in Ones(v)
    BY DEF Ones
  <2>2. ASSUME <<p, c>> \in Ones(v) PROVE \E l \in Nat : Of(s, l, p) /\ s[l] = c
    <3>1. Rank(v, <<p, c>>) \in Nat /\ Rank(v, <<p, c>>) < w
      BY <2>2, RankRises
    <3>2. PICK o \in Ones(v) : /\ Rank(v, o) = Rank(v, <<p, c>>) /\ s[Rank(v, <<p, c>>)] = o[2]
                               /\ Of(s, Rank(v, <<p, c>>), o[1])
      BY <1>7, <3>1
    <3>3. o = <<p, c>>
      BY <2>2, <3>2, RankRises
    <3> QED  BY <3>1, <3>2, <3>3
  <2> QED  BY <1>10, <2>1, <2>2
<1>13. ASSUME NEW l \in Nat, w <= l, l < OMEGA PROVE s[l] = 0
  <2>1. l \in 0 .. OMEGA + K - 1 /\ ~(l >= OMEGA) /\ ~(l < w)
    BY <1>13, <1>v, <1>k
  <2> QED  BY <2>1 DEF Encode
<1>14. End(s, K - 1) = w
  <2>1. K - 1 \in Polys
    BY <1>k DEF Polys
  <2> QED  BY <1>1, <1>4, <2>1
<1>15. \A l \in Nat : l < w => \E p \in Polys : Of(s, l, p)
  BY <1>7, OnesFinite
<1>16. \A p \in Polys : Rising(s, p)
  <2> SUFFICES ASSUME NEW p \in Polys PROVE Rising(s, p)
    OBVIOUS
  <2>1. End(s, p) <= OMEGA
    <3> HIDE DEF s, C, w
    <3> QED  BY <1>1, <1>v, <1>k
  <2> QED  BY <2>1, <1>5, <1>6, <1>11 DEF Rising
<1> QED  BY <1>12, <1>13, <1>14, <1>15, <1>16 DEF Well

-------------------------------------------------------------------------------
(***************************************************************************)
(* A well-formed section is the encoding of what it lists.                 *)
(***************************************************************************)
LEMMA SectionValues ==
  ASSUME NEW s \in Sections
  PROVE  /\ \A p \in Polys : Start(s, p) \in Nat /\ End(s, p) \in Bytes
         /\ \A l \in Nat : l < OMEGA => s[l] \in Bytes
<1>k. K \in Nat /\ K >= 1 /\ OMEGA \in Nat /\ N \in Nat
  BY HintAssumption
<1>1. \A b \in 0 .. OMEGA + K - 1 : s[b] \in Bytes
  BY DEF Sections
<1>2. \A p \in Polys : OMEGA + p \in 0 .. OMEGA + K - 1
  BY <1>k DEF Polys
<1>3. \A p \in Polys : p # 0 => OMEGA + p - 1 \in 0 .. OMEGA + K - 1
  BY <1>k DEF Polys
<1>4. \A l \in Nat : l < OMEGA => l \in 0 .. OMEGA + K - 1
  BY <1>k
<1>5. \A b \in Bytes : b \in Nat
  BY DEF Bytes
<1> QED  BY <1>1, <1>2, <1>3, <1>4, <1>5 DEF Start, End

LEMMA WellIsEncode ==
  ASSUME NEW s \in Sections, NEW v \in Vectors, Well(s, v)
  PROVE  v \in Hints /\ s = Encode(v)
<1> DEFINE T == End(s, K - 1)
           poly(l) == CHOOSE p \in Polys : Of(s, l, p)
           e == [l \in 0 .. T - 1 |-> <<poly(l), s[l]>>]
<1>k. K \in Nat /\ K >= 1 /\ OMEGA \in Nat /\ N \in Nat /\ K - 1 \in Polys
  BY HintAssumption DEF Polys
<1>s. /\ \A p \in Polys : Start(s, p) \in Nat /\ End(s, p) \in Nat
      /\ \A l \in Nat : l < OMEGA => s[l] \in Bytes
  BY SectionValues DEF Bytes
<1>w. /\ \A p \in Polys : Rising(s, p) /\ Lists(s, v, p)
      /\ \A l \in Nat : l < T => \E p \in Polys : Of(s, l, p)
      /\ \A l \in Nat : T <= l /\ l < OMEGA => s[l] = 0
  BY DEF Well
<1>t. T \in Nat /\ T <= OMEGA
  BY <1>k, <1>s, <1>w DEF Rising
<1>1. \A l \in Nat : l < T => poly(l) \in Polys /\ Of(s, l, poly(l))
  BY <1>w
<1>2. \A l, m \in Nat, p, q \in Polys : Of(s, l, p) /\ Of(s, m, q) /\ q < p => m < l
  BY <1>s, <1>w DEF Of, Rising
<1>3. \A l \in Nat, p, q \in Polys : Of(s, l, p) /\ Of(s, l, q) => p = q
  BY <1>2 DEF Polys
<1>4. \A p \in Polys : End(s, p) <= T
  <2> SUFFICES ASSUME NEW p \in Polys, p # K - 1 PROVE End(s, p) <= T
    BY <1>t
  <2>1. p < K - 1
    BY <1>k DEF Polys
  <2>2. End(s, p) <= Start(s, K - 1) /\ Start(s, K - 1) <= T
    BY <2>1, <1>k, <1>w DEF Rising
  <2> QED  BY <2>2, <1>s, <1>k, <1>t
<1>5. \A l \in Nat : l < T => e[l] = <<poly(l), s[l]>> /\ e[l] \in Ones(v)
  <2> SUFFICES ASSUME NEW l \in Nat, l < T
               PROVE  e[l] = <<poly(l), s[l]>> /\ e[l] \in Ones(v)
    OBVIOUS
  <2>1. e[l] = <<poly(l), s[l]>>
    BY <1>t
  <2>2. s[l] \in Bytes
    BY <1>s, <1>t, <1>k
  <2> HIDE DEF poly, e
  <2>3. poly(l) \in Polys /\ Of(s, l, poly(l))
    BY <1>1
  <2>4. v[poly(l)][s[l]] = 1
    BY <1>w, <2>2, <2>3 DEF Lists
  <2> QED  BY <2>1, <2>2, <2>3, <2>4 DEF Ones
<1>6. \A l, m \in Nat : l < m /\ m < T => Before(e[l], e[m])
  <2> SUFFICES ASSUME NEW l \in Nat, NEW m \in Nat, l < m, m < T
               PROVE  Before(e[l], e[m])
    OBVIOUS
  <2> HIDE DEF poly, e
  <2>1. l < T /\ T \in Nat
    BY <1>t
  <2>2. /\ poly(l) \in Polys /\ Of(s, l, poly(l)) /\ poly(m) \in Polys /\ Of(s, m, poly(m))
    BY <1>1, <2>1
  <2>3. ~(poly(m) < poly(l))
    BY <1>2, <2>2
  <2>4. poly(l) = poly(m) => s[l] < s[m]
    BY <1>w, <2>2 DEF Rising
  <2>5. Before(<<poly(l), s[l]>>, <<poly(m), s[m]>>)
    BY <2>2, <2>3, <2>4 DEF Before, Polys
  <2> QED  BY <1>5, <2>1, <2>5
<1>7. \A o \in Ones(v) : \E l \in Nat : l < T /\ e[l] = o
  <2> SUFFICES ASSUME NEW o \in Ones(v) PROVE \E l \in Nat : l < T /\ e[l] = o
    OBVIOUS
  <2>1. o = <<o[1], o[2]>> /\ o[1] \in Polys /\ o[2] \in Bytes /\ v[o[1]][o[2]] = 1
    BY DEF Ones
  <2>2. PICK l \in Nat : Of(s, l, o[1]) /\ s[l] = o[2]
    BY <1>w, <2>1 DEF Lists
  <2>3. l < T
    BY <1>4, <1>s, <1>t, <2>1, <2>2 DEF Of
  <2> HIDE DEF poly, e
  <2>4. poly(l) = o[1]
    BY <1>1, <1>3, <2>1, <2>2, <2>3
  <2> QED  BY <1>5, <2>1, <2>2, <2>3, <2>4
<1> HIDE DEF poly, e, T
<1>8. \A l, m \in Nat : l < T /\ m < T /\ e[l] = e[m] => l = m
  <2> SUFFICES ASSUME NEW l \in Nat, NEW m \in Nat, l < m, m < T, l < T, e[l] = e[m]
               PROVE  FALSE
    OBVIOUS
  <2>1. Before(e[m], e[m])
    BY <1>6
  <2>2. e[m] \in Polys \X Bytes
    BY <1>5, OnesFinite
  <2> QED  BY <2>1, <2>2, TotalOrder
\* The first n ones of the enumeration are n in number.
<1>9. \A n \in Nat, A \in SUBSET Ones(v) :
        n <= T /\ (\A m \in Nat : m < T => (e[m] \in A <=> m < n)) => Cardinality(A) = n
  <2> SUFFICES ASSUME NEW n \in Nat, NEW A \in SUBSET Ones(v), n <= T,
                      \A m \in Nat : m < T => (e[m] \in A <=> m < n)
               PROVE  Cardinality(A) = n
    OBVIOUS
  <2> DEFINE I == 0 .. n - 1
             g == [m \in I |-> e[m]]
  <2>1. \A m \in I : m \in Nat /\ m < n /\ m < T
    BY <1>t
  <2>2. g \in [I -> A]
    BY <2>1
  <2>3. \A l, m \in I : g[l] = g[m] => l = m
    BY <1>8, <2>1
  <2>4. ASSUME NEW a \in A PROVE \E m \in I : g[m] = a
    <3>1. PICK m \in Nat : m < T /\ e[m] = a
      BY <1>7
    <3>2. m < n /\ m \in I
      BY <3>1
    <3> QED  BY <3>1, <3>2
  <2>5. g \in Bijection(I, A)
    <3> HIDE DEF I, g
    <3>1. g \in Injection(I, A)
      BY <2>2, <2>3, Fun_IsInj
    <3>2. g \in Surjection(I, A)
      BY <2>2, <2>4 DEF Surjection
    <3> QED  BY <3>1, <3>2 DEF Bijection
  <2>6. IsFiniteSet(I) /\ Cardinality(I) = n
    <3>1. 0 \in Int /\ n - 1 \in Int /\ (0 > n - 1 => n = 0) /\ n - 1 - 0 + 1 = n
      OBVIOUS
    <3> QED  BY <3>1, FS_Interval
  <2> QED  BY <2>5, <2>6, FS_Bijection DEF ExistsBijection
<1>10. Cardinality(Ones(v)) = T
  <2>1. \A m \in Nat : m < T => (e[m] \in Ones(v) <=> m < T)
    BY <1>5
  <2> QED  BY <1>9, <1>t, <2>1
<1>11. \A l \in Nat : l < T => Rank(v, e[l]) = l
  <2> SUFFICES ASSUME NEW l \in Nat, l < T PROVE Rank(v, e[l]) = l
    OBVIOUS
  <2>1. ASSUME NEW m \in Nat, m < T PROVE e[m] \in Earlier(v, e[l]) <=> m < l
    <3>1. e[m] \in Ones(v) /\ e[l] \in Ones(v) /\ e[m] \in Polys \X Bytes /\ e[l] \in Polys \X Bytes
      BY <1>5, <2>1, OnesFinite
    <3>2. CASE m < l
      BY <1>6, <3>1, <3>2 DEF Earlier
    <3>3. CASE m = l
      BY <3>1, <3>3, TotalOrder DEF Earlier
    <3>4. CASE l < m
      <4>1. Before(e[l], e[m])
        BY <1>6, <2>1, <3>4
      <4> QED  BY <3>1, <3>4, <4>1, TotalOrder DEF Earlier
    <3> QED  BY <3>2, <3>3, <3>4
  <2>2. Earlier(v, e[l]) \in SUBSET Ones(v) /\ l <= T
    BY <1>t DEF Earlier
  <2>3. Rank(v, e[l]) = Cardinality(Earlier(v, e[l]))
    BY DEF Rank, Earlier
  <2>4. Cardinality(Earlier(v, e[l])) = l
    BY <1>9, <2>1, <2>2
  <2> QED  BY <2>3, <2>4
<1>12. \A p \in Polys : Cardinality(UpTo(v, p)) = End(s, p)
  <2> SUFFICES ASSUME NEW p \in Polys PROVE Cardinality(UpTo(v, p)) = End(s, p)
    OBVIOUS
  <2>1. ASSUME NEW m \in Nat, m < T PROVE e[m] \in UpTo(v, p) <=> m < End(s, p)
    <3>1. e[m] = <<poly(m), s[m]>> /\ e[m] \in Ones(v) /\ poly(m) \in Polys /\ Of(s, m, poly(m))
      BY <1>1, <1>5, <2>1
    <3>2. e[m] \in UpTo(v, p) <=> poly(m) <= p
      BY <3>1 DEF UpTo
    <3>3. poly(m) \in Int /\ p \in Int
      BY <3>1 DEF Polys
    <3>4. CASE poly(m) = p
      BY <3>1, <3>2, <3>3, <3>4 DEF Of
    <3>5. CASE poly(m) < p
      <4>1. End(s, poly(m)) <= Start(s, p) /\ Start(s, p) <= End(s, p)
        BY <1>w, <3>1, <3>5 DEF Rising
      <4> QED  BY <1>s, <3>1, <3>2, <3>3, <3>5, <4>1 DEF Of
    <3>6. CASE p < poly(m)
      <4>1. End(s, p) <= Start(s, poly(m))
        BY <1>w, <3>1, <3>6 DEF Rising
      <4> QED  BY <1>s, <3>1, <3>2, <3>3, <3>6, <4>1 DEF Of
    <3> QED  BY <3>3, <3>4, <3>5, <3>6
  <2>2. UpTo(v, p) \in SUBSET Ones(v) /\ End(s, p) \in Nat /\ End(s, p) <= T
    BY <1>4, <1>s DEF UpTo
  <2> QED  BY <1>9, <2>1, <2>2
<1>13. v \in Hints
  BY <1>10, <1>t DEF Hints, Vectors
<1>14. ASSUME NEW b \in 0 .. OMEGA + K - 1 PROVE s[b] = Encode(v)[b]
  <2>1. CASE b >= OMEGA
    <3>1. b - OMEGA \in Polys /\ OMEGA + (b - OMEGA) = b
      BY <2>1, <1>k DEF Polys
    <3>2. Encode(v)[b] = Cardinality({o \in Ones(v) : o[1] <= b - OMEGA})
      BY <2>1, Zenon DEF Encode
    <3>3. Encode(v)[b] = Cardinality(UpTo(v, b - OMEGA))
      BY <3>2 DEF UpTo
    <3>4. End(s, b - OMEGA) = s[b]
      BY <3>1 DEF End
    <3> HIDE DEF e
    <3> QED  BY <1>12, <3>1, <3>3, <3>4
  <2>2. CASE b < T
    <3>1. b \in Nat /\ ~(b >= OMEGA)
      BY <2>2, <1>t, <1>k
    <3>2. e[b] \in Ones(v) /\ Rank(v, e[b]) = b /\ e[b] = <<poly(b), s[b]>>
      BY <1>5, <1>11, <2>2, <3>1
    <3>3. (CHOOSE o \in Ones(v) : Rank(v, o) = b) = e[b]
      BY <3>2, RankRises
    <3>4. b < Cardinality(Ones(v))
      BY <1>10, <2>2
    <3>5. Encode(v)[b] = (CHOOSE o \in Ones(v) : Rank(v, o) = b)[2]
      BY <3>1, <3>4, Zenon DEF Encode
    <3>6. e[b][2] = s[b]
      BY <3>2
    <3> QED  BY <3>3, <3>5, <3>6, Zenon
  <2>3. CASE T <= b /\ b < OMEGA
    <3>1. b \in Nat /\ ~(b >= OMEGA) /\ ~(b < Cardinality(Ones(v)))
      BY <1>10, <1>t, <1>k, <2>3
    <3>2. Encode(v)[b] = 0
      BY <3>1 DEF Encode
    <3> QED  BY <1>w, <2>3, <3>1, <3>2
  <2> QED  BY <1>k, <1>t, <2>1, <2>2, <2>3
<1>15. s = Encode(v)
  <2>1. DOMAIN s = 0 .. OMEGA + K - 1 /\ s = [b \in 0 .. OMEGA + K - 1 |-> s[b]]
    BY DEF Sections
  <2>2. Encode(v) = [b \in 0 .. OMEGA + K - 1 |-> Encode(v)[b]]
    BY DEF Encode
  <2> QED  BY <1>14, <2>1, <2>2, Zenon
<1> QED  BY <1>13, <1>15

-------------------------------------------------------------------------------
(***************************************************************************)
(* mld_pack_sig.  The number of ones that are encoded is the rank that a   *)
(* one at the loop counters would have.                                    *)
(***************************************************************************)
LEMMA RankFirst ==
  ASSUME NEW v
  PROVE  Rank(v, <<0, 0>>) = 0
<1>1. Earlier(v, <<0, 0>>) = {}
  BY OnesFinite DEF Earlier, Before, Polys, Bytes
<1> QED  BY <1>1, FS_EmptySet DEF Rank, Earlier

LEMMA RankNext ==
  ASSUME NEW v, NEW p \in Polys, NEW c \in Bytes
  PROVE  /\ Rank(v, <<p, c>>) \in Nat
         /\ <<p, c>> \in Ones(v) => Rank(v, <<p, c + 1>>) = Rank(v, <<p, c>>) + 1
         /\ <<p, c>> \notin Ones(v) => Rank(v, <<p, c + 1>>) = Rank(v, <<p, c>>)
<1> DEFINE A == Earlier(v, <<p, c>>)
           B == Earlier(v, <<p, c + 1>>)
<1>0. p \in Int /\ c \in Int /\ \A o \in Ones(v) : o = <<o[1], o[2]>> /\ o[1] \in Int /\ o[2] \in Int
  BY OnesFinite DEF Polys, Bytes
<1>1. IsFiniteSet(A) /\ Cardinality(A) \in Nat
  <2>1. A \subseteq Ones(v)
    BY DEF Earlier
  <2> QED  BY <2>1, PartOfOnes
<1>2. \A o \in Ones(v) : Before(o, <<p, c + 1>>) <=> Before(o, <<p, c>>) \/ o = <<p, c>>
  BY <1>0 DEF Before
<1>3. <<p, c>> \notin A
  BY <1>0 DEF Earlier, Before
<1>4. CASE <<p, c>> \in Ones(v)
  <2>1. B = A \cup {<<p, c>>}
    BY <1>2, <1>4 DEF Earlier
  <2>2. Cardinality(B) = Cardinality(A) + 1
    BY <1>1, <1>3, <2>1, FS_AddElement
  <2> QED  BY <1>1, <1>4, <2>2 DEF Rank, Earlier
<1>5. CASE <<p, c>> \notin Ones(v)
  <2>1. B = A
    BY <1>2, <1>5 DEF Earlier
  <2> QED  BY <1>1, <1>5, <2>1 DEF Rank, Earlier
<1> QED  BY <1>4, <1>5

LEMMA RankNextPoly ==
  ASSUME NEW v, NEW p \in Polys
  PROVE  /\ Rank(v, <<p, N>>) = Cardinality(UpTo(v, p))
         /\ Rank(v, <<p + 1, 0>>) = Cardinality(UpTo(v, p))
<1>0. /\ p \in Int /\ N \in Int
      /\ \A o \in Ones(v) : o[1] \in Int /\ o[2] \in Int /\ 0 <= o[2] /\ o[2] < N
  BY OnesFinite, HintAssumption DEF Polys, Bytes
<1>1. Earlier(v, <<p, N>>) = UpTo(v, p)
  BY <1>0 DEF Earlier, UpTo, Before
<1>2. Earlier(v, <<p + 1, 0>>) = UpTo(v, p)
  BY <1>0 DEF Earlier, UpTo, Before
<1> QED  BY <1>1, <1>2 DEF Rank, Earlier

PackInv ==
  pc = "pack" =>
    /\ h \in Hints /\ i < K
    /\ k = Rank(h, <<i, j>>)
    /\ \A b \in Nat : b < k => \E o \in Ones(h) : Rank(h, o) = b /\ sig[b] = o[2]
    /\ \A b \in Nat : k <= b /\ b < OMEGA => sig[b] = 0
    /\ \A p \in Polys : p < i => sig[OMEGA + p] = Cardinality(UpTo(h, p))

(***************************************************************************)
(* mld_unpack_hints.  The polynomials before i have passed their checks    *)
(* and are unpacked, polynomial i up to position j.                        *)
(***************************************************************************)
UnpackedBefore ==
  /\ k = Start(sig, i)
  /\ \A p \in Polys : p < i => Rising(sig, p) /\ Lists(sig, h, p) /\ End(sig, p) <= k
  /\ \A l \in Nat : l < k => \E p \in Polys : p < i /\ Of(sig, l, p)
  /\ \A p \in Polys, c \in Bytes : p > i => h[p][c] = 0

UnpackInv ==
  /\ pc = "count" =>
       /\ UnpackedBefore /\ j = k
       /\ i < K => \A c \in Bytes : h[i][c] = 0
  /\ pc = "indices" =>
       /\ UnpackedBefore /\ i < K
       /\ k <= j /\ j <= End(sig, i) /\ End(sig, i) <= OMEGA
       /\ \A l, m \in Nat : k <= l /\ l < m /\ m < j => sig[l] < sig[m]
       /\ \A c \in Bytes : h[i][c] = 1 <=> \E l \in Nat : k <= l /\ l < j /\ sig[l] = c

HintInv == TypeOK /\ PackInv /\ PackEncodes /\ UnpackInv /\ UnpackExact

LEMMA InitHolds == Init => HintInv
<1> SUFFICES ASSUME Init PROVE HintInv
  OBVIOUS
<1>1. TypeOK
  BY HintAssumption DEF Init, TypeOK, ZeroHint
<1>2. pc = "idle"
  BY DEF Init
<1> QED  BY <1>1, <1>2 DEF HintInv, PackInv, PackEncodes, UnpackInv, UnpackExact

LEMMA PackHintsStep ==
  ASSUME HintInv, PackHints
  PROVE  HintInv'
<1>k. K \in Nat /\ K >= 1 /\ OMEGA \in Nat /\ N \in Nat /\ OMEGA < N
  BY HintAssumption
<1>1. /\ pc' = "pack" /\ h' \in Hints /\ i' = 0 /\ j' = 0 /\ k' = 0 /\ ret' = ret
      /\ sig' = [b \in 0 .. OMEGA + K - 1 |-> 0] /\ TypeOK
  BY DEF PackHints, HintInv
<1>2. TypeOK'
  <2>1. sig' \in Sections
    BY <1>1, <1>k DEF Sections, Bytes
  <2> QED  BY <1>1, <1>k, <2>1 DEF TypeOK, Hints
<1>3. PackInv'
  <2>1. k' = Rank(h', <<i', j'>>)
    BY <1>1, RankFirst
  <2>2. \A b \in Nat : b < OMEGA => sig'[b] = 0
    BY <1>1, <1>k
  <2>3. \A p \in Polys : ~(p < 0)
    BY DEF Polys
  <2> QED  BY <1>1, <1>k, <2>1, <2>2, <2>3 DEF PackInv
<1> QED  BY <1>1, <1>2, <1>3 DEF HintInv, PackEncodes, UnpackInv, UnpackExact

LEMMA PackCoefficientStep ==
  ASSUME HintInv, PackCoefficient
  PROVE  HintInv'
<1>k. K \in Nat /\ K >= 1 /\ OMEGA \in Nat /\ N \in Nat /\ OMEGA < N
  BY HintAssumption
<1>1. /\ pc = "pack" /\ pc' = "pack" /\ j < N /\ j' = j + 1 /\ h' = h /\ i' = i /\ ret' = ret
      /\ TypeOK /\ PackInv
  BY DEF PackCoefficient, HintInv
<1>2. /\ i \in Polys /\ j \in Bytes /\ h \in Hints /\ h \in Vectors
      /\ sig \in Sections /\ k \in Nat
  BY <1>1, <1>k DEF TypeOK, PackInv, Polys, Bytes, Hints, Vectors
<1> DEFINE o == <<i, j>>
<1>3. h[i][j] # 0 <=> o \in Ones(h)
  BY <1>2 DEF Ones, Vectors
<1>4. k = Rank(h, o)
  BY <1>1 DEF PackInv
<1>5. CASE h[i][j] # 0
  <2>1. k < Cardinality(Ones(h)) /\ k < OMEGA
    BY <1>2, <1>3, <1>4, <1>5, <1>k, RankRises, OnesFinite DEF Hints
  <2>2. sig' = [sig EXCEPT ![k] = j] /\ k' = k + 1
    BY <1>5, <2>1 DEF PackCoefficient
  <2>3. k \in 0 .. OMEGA + K - 1
    BY <1>2, <1>k, <2>1
  <2>4. /\ sig' \in Sections /\ sig'[k] = j
        /\ \A b \in 0 .. OMEGA + K - 1 : b # k => sig'[b] = sig[b]
    BY <1>2, <2>2, <2>3 DEF Sections
  <2>5. TypeOK'
    BY <1>1, <1>2, <1>k, <2>1, <2>2, <2>4 DEF TypeOK
  <2>6. k' = Rank(h', <<i', j'>>)
    BY <1>1, <1>2, <1>3, <1>4, <1>5, <2>2, RankNext
  <2>7. ASSUME NEW b \in Nat, b < k'
        PROVE  \E x \in Ones(h) : Rank(h, x) = b /\ sig'[b] = x[2]
    <3>1. CASE b = k
      BY <1>3, <1>4, <1>5, <2>4, <3>1
    <3>2. CASE b < k
      <4>1. b \in 0 .. OMEGA + K - 1 /\ b # k
        BY <3>2, <1>2, <1>k, <2>1
      <4> QED  BY <1>1, <2>4, <3>2, <4>1 DEF PackInv
    <3> QED  BY <1>2, <2>2, <2>7, <3>1, <3>2
  <2>8. ASSUME NEW b \in Nat, k' <= b, b < OMEGA
        PROVE  sig'[b] = 0
    <3>1. b \in 0 .. OMEGA + K - 1 /\ b # k /\ k <= b
      BY <2>8, <1>2, <1>k, <2>2
    <3> QED  BY <1>1, <2>4, <2>8, <3>1 DEF PackInv
  <2>9. ASSUME NEW p \in Polys, p < i
        PROVE  sig'[OMEGA + p] = Cardinality(UpTo(h, p))
    <3>1. OMEGA + p \in 0 .. OMEGA + K - 1 /\ OMEGA + p # k
      BY <1>2, <1>k, <2>1 DEF Polys
    <3> QED  BY <1>1, <2>4, <2>9, <3>1 DEF PackInv
  <2>10. PackInv'
    BY <1>1, <2>6, <2>7, <2>8, <2>9 DEF PackInv
  <2> QED  BY <1>1, <2>5, <2>10 DEF HintInv, PackEncodes, UnpackInv, UnpackExact
<1>6. CASE h[i][j] = 0
  <2>1. sig' = sig /\ k' = k
    BY <1>6 DEF PackCoefficient
  <2>2. k' = Rank(h', <<i', j'>>)
    BY <1>1, <1>2, <1>3, <1>4, <1>6, <2>1, RankNext
  <2>3. PackInv'
    BY <1>1, <2>1, <2>2 DEF PackInv
  <2>4. TypeOK'
    BY <1>1, <1>2, <1>k, <2>1 DEF TypeOK
  <2> QED  BY <1>1, <2>3, <2>4 DEF HintInv, PackEncodes, UnpackInv, UnpackExact
<1> QED  BY <1>5, <1>6

LEMMA PackCountStep ==
  ASSUME HintInv, PackCount
  PROVE  HintInv'
<1>k. K \in Nat /\ K >= 1 /\ OMEGA \in Nat /\ N \in Nat /\ OMEGA < N
  BY HintAssumption
<1>1. /\ pc = "pack" /\ j = N /\ j' = 0 /\ i' = i + 1 /\ h' = h /\ k' = k /\ ret' = ret
      /\ sig' = [sig EXCEPT ![OMEGA + i] = k]
      /\ pc' = IF i + 1 < K THEN "pack" ELSE "packed"
      /\ TypeOK /\ PackInv
  BY DEF PackCount, HintInv
<1>2. /\ i \in Polys /\ h \in Hints /\ sig \in Sections /\ k \in Bytes /\ k \in Nat /\ k <= OMEGA
  BY <1>1, <1>k DEF TypeOK, PackInv, Polys, Bytes
<1>3. k = Cardinality(UpTo(h, i)) /\ k = Rank(h, <<i + 1, 0>>)
  BY <1>1, <1>2, RankNextPoly DEF PackInv
<1>4. OMEGA + i \in 0 .. OMEGA + K - 1
  BY <1>2, <1>k DEF Polys
<1>5. /\ sig' \in Sections /\ sig'[OMEGA + i] = k
      /\ \A b \in 0 .. OMEGA + K - 1 : b # OMEGA + i => sig'[b] = sig[b]
  BY <1>1, <1>2, <1>4 DEF Sections
<1>6. TypeOK'
  BY <1>1, <1>2, <1>k, <1>5 DEF TypeOK, Polys
<1>7. \A b \in Nat : b < OMEGA => sig'[b] = sig[b]
  <2> SUFFICES ASSUME NEW b \in Nat, b < OMEGA PROVE sig'[b] = sig[b]
    OBVIOUS
  <2>1. b \in 0 .. OMEGA + K - 1 /\ b # OMEGA + i
    BY <1>2, <1>k DEF Polys
  <2> QED  BY <1>5, <2>1
<1>8. \A p \in Polys : p <= i => sig'[OMEGA + p] = Cardinality(UpTo(h, p))
  <2> SUFFICES ASSUME NEW p \in Polys, p <= i PROVE sig'[OMEGA + p] = Cardinality(UpTo(h, p))
    OBVIOUS
  <2>1. CASE p = i
    BY <1>3, <1>5, <2>1
  <2>2. CASE p < i
    <3>1. OMEGA + p \in 0 .. OMEGA + K - 1 /\ OMEGA + p # OMEGA + i
      BY <1>2, <1>k, <2>2 DEF Polys
    <3> QED  BY <1>1, <1>5, <2>2, <3>1 DEF PackInv
  <2> QED  BY <1>2, <2>1, <2>2 DEF Polys
<1>9. CASE i + 1 < K
  <2>1. \A b \in Nat : b < k => \E o \in Ones(h) : Rank(h, o) = b /\ sig'[b] = o[2]
    BY <1>1, <1>2, <1>7, <1>k DEF PackInv
  <2>2. \A b \in Nat : k <= b /\ b < OMEGA => sig'[b] = 0
    BY <1>1, <1>7 DEF PackInv
  <2>3. \A p \in Polys : p < i + 1 => p <= i
    BY <1>2 DEF Polys
  <2>4. PackInv'
    BY <1>1, <1>2, <1>3, <1>8, <1>9, <2>1, <2>2, <2>3 DEF PackInv
  <2> QED  BY <1>1, <1>6, <1>9, <2>4 DEF HintInv, PackEncodes, UnpackInv, UnpackExact
<1>10. CASE ~(i + 1 < K)
  <2>1. i = K - 1 /\ \A p \in Polys : p <= i
    BY <1>2, <1>10, <1>k DEF Polys
  <2>2. UpTo(h, i) = Ones(h)
    BY <2>1, OnesFinite DEF UpTo
  <2>3. k = Cardinality(Ones(h))
    BY <1>3, <2>2
  <2>4. ASSUME NEW b \in 0 .. OMEGA + K - 1 PROVE sig'[b] = Encode(h)[b]
    <3>1. CASE b >= OMEGA
      <4>1. b - OMEGA \in Polys /\ OMEGA + (b - OMEGA) = b
        BY <3>1, <1>k DEF Polys
      <4>2. Encode(h)[b] = Cardinality({o \in Ones(h) : o[1] <= b - OMEGA})
        BY <3>1, Zenon DEF Encode
      <4>3. Encode(h)[b] = Cardinality(UpTo(h, b - OMEGA))
        BY <4>2 DEF UpTo
      <4> QED  BY <1>8, <2>1, <4>1, <4>3
    <3>2. CASE b < k
      <4>1. b \in Nat /\ ~(b >= OMEGA) /\ b < OMEGA /\ b < Cardinality(Ones(h))
        BY <3>2, <2>3, <1>2, <1>k
      <4>2. PICK o \in Ones(h) : Rank(h, o) = b /\ sig[b] = o[2]
        BY <1>1, <3>2, <4>1 DEF PackInv
      <4>3. (CHOOSE x \in Ones(h) : Rank(h, x) = b) = o
        BY <4>2, RankRises
      <4>4. Encode(h)[b] = (CHOOSE x \in Ones(h) : Rank(h, x) = b)[2]
        BY <4>1, Zenon DEF Encode
      <4>5. sig'[b] = sig[b]
        BY <1>7, <4>1
      <4> QED  BY <4>2, <4>3, <4>4, <4>5, Zenon
    <3>3. CASE k <= b /\ b < OMEGA
      <4>1. b \in Nat /\ ~(b >= OMEGA) /\ ~(b < Cardinality(Ones(h)))
        BY <3>3, <2>3, <1>2, <1>k
      <4>2. Encode(h)[b] = 0
        BY <4>1 DEF Encode
      <4>3. sig[b] = 0
        BY <1>1, <3>3, <4>1 DEF PackInv
      <4> QED  BY <1>7, <3>3, <4>1, <4>2, <4>3
    <3> QED  BY <1>2, <1>k, <3>1, <3>2, <3>3
  <2>5. sig' = Encode(h)
    <3>1. sig' = [b \in 0 .. OMEGA + K - 1 |-> sig'[b]]
      BY <1>5 DEF Sections
    <3>2. Encode(h) = [b \in 0 .. OMEGA + K - 1 |-> Encode(h)[b]]
      BY DEF Encode
    <3> QED  BY <2>4, <3>1, <3>2, Zenon
  <2>6. PackEncodes'
    BY <1>1, <2>5 DEF PackEncodes
  <2> QED  BY <1>1, <1>6, <1>10, <2>6 DEF HintInv, PackInv, UnpackInv, UnpackExact
<1> QED  BY <1>9, <1>10

-------------------------------------------------------------------------------
(***************************************************************************)
(* mld_unpack_hints: a check that fails shows that the section is not      *)
(* well-formed for any hint vector, and hence no encoding.                 *)
(***************************************************************************)
LEMMA RejectedIsNoEncoding ==
  ASSUME TypeOK, pc' = "unpacked", ret' = 1, sig' = sig,
         \A v \in Hints : ~Well(sig, v)
  PROVE  UnpackExact'
<1>1. sig \notin Encodings
  BY EncodeIsWell DEF Encodings
<1> QED  BY <1>1 DEF UnpackExact

LEMMA UnpackHintsStep ==
  ASSUME HintInv, UnpackHints
  PROVE  HintInv'
<1>k. K \in Nat /\ K >= 1 /\ OMEGA \in Nat /\ N \in Nat /\ OMEGA < N
  BY HintAssumption
<1>1. /\ pc' = "count" /\ i' = 0 /\ j' = 0 /\ k' = 0 /\ ret' = ret /\ sig' = sig
      /\ h' = ZeroHint /\ TypeOK
  BY DEF UnpackHints, HintInv
<1>2. h' \in Vectors /\ \A p \in Polys, c \in Bytes : h'[p][c] = 0
  BY <1>1 DEF ZeroHint, Vectors
<1>3. TypeOK'
  BY <1>1, <1>2, <1>k DEF TypeOK, Vectors
<1>4. UnpackedBefore'
  <2>1. \A p \in Polys : ~(p < 0)
    BY DEF Polys
  <2> QED  BY <1>1, <1>2, <2>1 DEF UnpackedBefore, Start
<1>5. 0 \in Polys
  BY <1>k DEF Polys
<1> QED  BY <1>1, <1>2, <1>3, <1>4, <1>5 DEF HintInv, PackInv, PackEncodes, UnpackInv, UnpackExact

LEMMA UnpackCountStep ==
  ASSUME HintInv, UnpackCount
  PROVE  HintInv'
<1>k. K \in Nat /\ K >= 1 /\ OMEGA \in Nat /\ N \in Nat /\ OMEGA < N
  BY HintAssumption
<1>1. /\ pc = "count" /\ i < K /\ h' = h /\ sig' = sig /\ i' = i /\ k' = k
      /\ TypeOK /\ UnpackedBefore /\ \A c \in Bytes : h[i][c] = 0
  BY DEF UnpackCount, HintInv, UnpackInv
<1>2. i \in Polys /\ sig \in Sections /\ k \in Nat /\ k <= OMEGA /\ k = Start(sig, i)
  BY <1>1, <1>k DEF TypeOK, Polys, UnpackedBefore
<1>3. End(sig, i) \in Nat /\ End(sig, i) = sig[OMEGA + i]
  BY <1>2, SectionValues DEF End, Bytes
<1>4. CASE End(sig, i) < k \/ End(sig, i) > OMEGA
  <2>1. pc' = "unpacked" /\ ret' = 1 /\ j' = j
    BY <1>3, <1>4 DEF UnpackCount, Return
  <2>2. TypeOK'
    BY <1>1, <2>1 DEF TypeOK
  <2>3. \A v \in Hints : ~Well(sig, v)
    BY <1>2, <1>3, <1>4, <1>k DEF Well, Rising
  <2>4. UnpackExact'
    BY <1>1, <2>1, <2>3, RejectedIsNoEncoding
  <2> QED  BY <2>1, <2>2, <2>4 DEF HintInv, PackInv, PackEncodes, UnpackInv
<1>5. CASE k <= End(sig, i) /\ End(sig, i) <= OMEGA
  <2>1. pc' = "indices" /\ j' = k /\ ret' = ret
    <3>1. ~(End(sig, i) < k \/ End(sig, i) > OMEGA)
      BY <1>2, <1>3, <1>5, <1>k
    <3> QED  BY <1>3, <3>1 DEF UnpackCount
  <2>2. TypeOK'
    BY <1>1, <1>2, <1>k, <2>1 DEF TypeOK
  <2>3. UnpackedBefore'
    BY <1>1 DEF UnpackedBefore
  <2>4. UnpackInv'
    <3>1. \A l \in Nat : ~(k <= l /\ l < k)
      BY <1>2
    <3>2. \A l, m \in Nat : ~(k <= l /\ l < m /\ m < k)
      BY <1>2
    <3>3. \A c \in Bytes : h[i][c] # 1
      BY <1>1
    <3>4. k <= k
      BY <1>2
    <3> QED  BY <1>1, <1>5, <2>1, <2>3, <3>1, <3>2, <3>3, <3>4 DEF UnpackInv
  <2> QED  BY <2>1, <2>2, <2>4 DEF HintInv, PackInv, PackEncodes, UnpackExact
<1> QED  BY <1>2, <1>3, <1>4, <1>5, <1>k

LEMMA UnpackIndexStep ==
  ASSUME HintInv, UnpackIndex
  PROVE  HintInv'
<1>k. K \in Nat /\ K >= 1 /\ OMEGA \in Nat /\ N \in Nat /\ OMEGA < N
  BY HintAssumption
<1>1. /\ pc = "indices" /\ j < End(sig, i) /\ sig' = sig /\ i' = i /\ k' = k
      /\ TypeOK /\ UnpackInv /\ UnpackedBefore
  BY DEF UnpackIndex, HintInv, UnpackInv, End
<1>2. /\ i \in Polys /\ sig \in Sections /\ h \in Vectors /\ k \in Nat /\ j \in Nat
      /\ k <= j /\ k = Start(sig, i) /\ End(sig, i) <= OMEGA
      /\ \A l, m \in Nat : k <= l /\ l < m /\ m < j => sig[l] < sig[m]
      /\ \A c \in Bytes : h[i][c] = 1 <=> \E l \in Nat : k <= l /\ l < j /\ sig[l] = c
  BY <1>1, <1>k DEF TypeOK, Polys, UnpackedBefore, UnpackInv, Vectors
<1>3. End(sig, i) \in Nat /\ \A l \in Nat : l < OMEGA => sig[l] \in Bytes
  BY <1>2, SectionValues DEF Bytes
<1>4. sig[j] \in Bytes /\ j < OMEGA
  BY <1>1, <1>2, <1>3, <1>k
<1>5. \A b \in Bytes : b \in Nat
  BY DEF Bytes
<1>6. j > k => j - 1 \in Nat /\ sig[j - 1] \in Bytes
  BY <1>2, <1>3, <1>4, <1>k
<1>7. CASE j > k /\ sig[j] <= sig[j - 1]
  <2>1. pc' = "unpacked" /\ ret' = 1 /\ j' = j /\ h' = h
    BY <1>7 DEF UnpackIndex, Return
  <2>2. TypeOK'
    BY <1>1, <2>1 DEF TypeOK
  <2>3. Of(sig, j - 1, i) /\ Of(sig, j, i) /\ j - 1 < j
    BY <1>1, <1>2, <1>3, <1>7 DEF Of
  <2>4. ~Rising(sig, i)
    <3> SUFFICES ASSUME Rising(sig, i) PROVE FALSE
      OBVIOUS
    <3>1. sig[j - 1] < sig[j]
      BY <1>2, <1>6, <1>7, <2>3 DEF Rising
    <3> QED  BY <3>1, <1>4, <1>5, <1>6, <1>7
  <2>5. \A v \in Hints : ~Well(sig, v)
    BY <1>2, <2>4 DEF Well
  <2>6. UnpackExact'
    BY <1>1, <2>1, <2>5, RejectedIsNoEncoding
  <2> QED  BY <2>1, <2>2, <2>6 DEF HintInv, PackInv, PackEncodes, UnpackInv
<1>8. CASE ~(j > k /\ sig[j] <= sig[j - 1])
  <2>1. pc' = "indices" /\ h' = [h EXCEPT ![i][sig[j]] = 1] /\ j' = j + 1 /\ ret' = ret
    BY <1>1, <1>8 DEF UnpackIndex
  <2>2. /\ h' \in Vectors
        /\ \A p \in Polys : p # i => h'[p] = h[p]
        /\ \A c \in Bytes : h'[i][c] = IF c = sig[j] THEN 1 ELSE h[i][c]
    BY <1>2, <1>4, <2>1 DEF Vectors
  <2>3. TypeOK'
    BY <1>1, <1>2, <1>4, <1>k, <2>1, <2>2 DEF TypeOK, Vectors
  <2>4. UnpackedBefore'
    <3>1. \A p \in Polys : p < i => Lists(sig', h', p)
      <4> SUFFICES ASSUME NEW p \in Polys, p < i PROVE Lists(sig', h', p)
        OBVIOUS
      <4>1. p # i
        BY <1>2 DEF Polys
      <4>2. Lists(sig, h, p)
        BY <1>1 DEF UnpackedBefore
      <4>3. h'[p] = h[p]
        BY <2>2, <4>1
      <4> QED  BY <1>1, <4>2, <4>3 DEF Lists
    <3>2. \A p \in Polys, c \in Bytes : p > i => h'[p][c] = 0
      BY <1>1, <1>2, <2>2 DEF UnpackedBefore, Polys
    <3> QED  BY <1>1, <3>1, <3>2 DEF UnpackedBefore
  <2>5. ASSUME NEW l \in Nat, NEW m \in Nat, k <= l, l < m, m < j + 1
        PROVE  sig[l] < sig[m]
    <3>1. CASE m < j
      BY <1>2, <2>5, <3>1
    <3>2. CASE m = j
      <4>1. j > k /\ l <= j - 1
        BY <1>2, <2>5, <3>2
      <4>2. sig[j - 1] < sig[j]
        BY <1>4, <1>5, <1>6, <1>8, <4>1
      <4>3. l < j - 1 => sig[l] < sig[j - 1]
        BY <1>2, <1>6, <2>5, <4>1
      <4>4. sig[l] \in Nat
        BY <1>2, <1>3, <1>4, <1>5, <1>k, <2>5, <3>2
      <4> QED  BY <1>4, <1>5, <1>6, <3>2, <4>1, <4>2, <4>3, <4>4
    <3> QED  BY <1>2, <2>5, <3>1, <3>2
  <2>6. ASSUME NEW c \in Bytes
        PROVE  h'[i][c] = 1 <=> \E l \in Nat : k <= l /\ l < j + 1 /\ sig[l] = c
    <3>1. CASE c = sig[j]
      <4>1. j < j + 1
        BY <1>2
      <4> QED  BY <1>2, <2>2, <3>1, <4>1
    <3>2. CASE c # sig[j]
      <4>1. h'[i][c] = h[i][c]
        BY <2>2, <3>2
      <4>2. \A l \in Nat : l < j + 1 /\ sig[l] = c <=> l < j /\ sig[l] = c
        BY <1>2, <3>2
      <4> QED  BY <1>2, <4>1, <4>2
    <3> QED  BY <3>1, <3>2
  <2>7. k <= j + 1 /\ j + 1 <= End(sig, i)
    BY <1>1, <1>2, <1>3
  <2>8. i < K
    BY <1>2, <1>k DEF Polys
  <2>9. UnpackInv'
    BY <1>1, <1>2, <2>1, <2>4, <2>5, <2>6, <2>7, <2>8 DEF UnpackInv
  <2> QED  BY <2>1, <2>3, <2>9 DEF HintInv, PackInv, PackEncodes, UnpackExact
<1> QED  BY <1>7, <1>8

LEMMA NextPolyStep ==
  ASSUME HintInv, NextPoly
  PROVE  HintInv'
<1>k. K \in Nat /\ K >= 1 /\ OMEGA \in Nat /\ N \in Nat /\ OMEGA < N
  BY HintAssumption
<1>1. /\ pc = "indices" /\ j = End(sig, i) /\ k' = End(sig, i) /\ i' = i + 1 /\ pc' = "count"
      /\ h' = h /\ sig' = sig /\ j' = j /\ ret' = ret
      /\ TypeOK /\ UnpackInv /\ UnpackedBefore
  BY DEF NextPoly, HintInv, UnpackInv, End
<1>2. /\ i \in Polys /\ sig \in Sections /\ k \in Nat /\ j \in Nat
      /\ k <= j /\ k = Start(sig, i) /\ j <= OMEGA
      /\ \A l, m \in Nat : k <= l /\ l < m /\ m < j => sig[l] < sig[m]
      /\ \A c \in Bytes : h[i][c] = 1 <=> \E l \in Nat : k <= l /\ l < j /\ sig[l] = c
  BY <1>1, <1>k DEF TypeOK, Polys, UnpackedBefore, UnpackInv
<1>3. TypeOK'
  BY <1>1, <1>2, <1>k DEF TypeOK, Polys
<1>4. \A l \in Nat : Of(sig, l, i) <=> k <= l /\ l < j
  BY <1>1, <1>2 DEF Of
<1>5. Rising(sig, i) /\ Lists(sig, h, i)
  BY <1>1, <1>2, <1>4 DEF Rising, Lists, UnpackedBefore
<1>6. j = Start(sig, i + 1)
  BY <1>1, <1>2, <1>k DEF Start, End, Polys
<1>7. \A p \in Polys : p < i + 1 => Rising(sig, p) /\ Lists(sig, h, p) /\ End(sig, p) <= j
  <2> SUFFICES ASSUME NEW p \in Polys, p < i + 1
               PROVE  Rising(sig, p) /\ Lists(sig, h, p) /\ End(sig, p) <= j
    OBVIOUS
  <2>1. CASE p = i
    BY <1>1, <1>2, <1>5, <2>1
  <2>2. CASE p < i
    <3>1. Rising(sig, p) /\ Lists(sig, h, p) /\ End(sig, p) <= k /\ End(sig, p) \in Bytes
      BY <1>1, <1>2, <2>2, SectionValues DEF UnpackedBefore
    <3> QED  BY <1>2, <3>1 DEF Bytes
  <2> QED  BY <1>2, <2>1, <2>2 DEF Polys
<1>8. \A l \in Nat : l < j => \E p \in Polys : p < i + 1 /\ Of(sig, l, p)
  <2> SUFFICES ASSUME NEW l \in Nat, l < j PROVE \E p \in Polys : p < i + 1 /\ Of(sig, l, p)
    OBVIOUS
  <2>1. CASE l < k
    BY <1>1, <1>2, <2>1 DEF UnpackedBefore, Polys
  <2>2. CASE k <= l
    BY <1>2, <1>4, <2>2 DEF Polys
  <2> QED  BY <1>2, <2>1, <2>2
<1>9. \A p \in Polys, c \in Bytes : p > i => h[p][c] = 0
  BY <1>1 DEF UnpackedBefore
<1>10. UnpackedBefore'
  <2>1. \A p \in Polys : p > i + 1 => p > i
    BY <1>2 DEF Polys
  <2> QED  BY <1>1, <1>6, <1>7, <1>8, <1>9, <2>1 DEF UnpackedBefore
<1>11. i + 1 < K => i + 1 \in Polys /\ i + 1 > i
  BY <1>2, <1>k DEF Polys
<1>12. UnpackInv'
  BY <1>1, <1>9, <1>10, <1>11 DEF UnpackInv
<1> QED  BY <1>1, <1>3, <1>12 DEF HintInv, PackInv, PackEncodes, UnpackExact

LEMMA UnpackRestStep ==
  ASSUME HintInv, UnpackRest
  PROVE  HintInv'
<1>k. K \in Nat /\ K >= 1 /\ OMEGA \in Nat /\ N \in Nat /\ OMEGA < N /\ K - 1 \in Polys
  BY HintAssumption DEF Polys
<1>1. /\ pc = "count" /\ i = K /\ pc' = "unpacked"
      /\ ret' = IF \E l \in k .. OMEGA - 1 : sig[l] # 0 THEN 1 ELSE 0
      /\ h' = h /\ sig' = sig /\ i' = i /\ j' = j /\ k' = k
      /\ TypeOK /\ UnpackedBefore
  BY DEF UnpackRest, Return, HintInv, UnpackInv
<1>2. sig \in Sections /\ h \in Vectors /\ k \in Nat /\ k <= OMEGA
  BY <1>1, <1>k DEF TypeOK, Vectors
<1>3. k = End(sig, K - 1)
  BY <1>1, <1>k DEF UnpackedBefore, Start, End
<1>4. TypeOK'
  BY <1>1 DEF TypeOK
<1>5. CASE \E l \in k .. OMEGA - 1 : sig[l] # 0
  <2>1. PICK l \in k .. OMEGA - 1 : sig[l] # 0
    BY <1>5
  <2>2. l \in Nat /\ k <= l /\ l < OMEGA
    BY <1>2, <1>k
  <2>3. \A v \in Hints : ~Well(sig, v)
    BY <1>3, <2>1, <2>2 DEF Well
  <2>4. UnpackExact'
    BY <1>1, <1>5, <2>3, RejectedIsNoEncoding
  <2> QED  BY <1>1, <1>4, <2>4 DEF HintInv, PackInv, PackEncodes, UnpackInv
<1>6. CASE ~\E l \in k .. OMEGA - 1 : sig[l] # 0
  <2>1. \A l \in Nat : k <= l /\ l < OMEGA => sig[l] = 0
    BY <1>2, <1>6, <1>k
  <2>2. \A p \in Polys : p < i
    BY <1>1, <1>k DEF Polys
  <2>3. Well(sig, h)
    BY <1>1, <1>3, <2>1, <2>2 DEF Well, UnpackedBefore
  <2>4. h \in Hints /\ sig = Encode(h)
    BY <1>2, <2>3, WellIsEncode
  <2>5. UnpackExact'
    BY <1>1, <1>6, <2>4 DEF UnpackExact, Encodings
  <2> QED  BY <1>1, <1>4, <2>5 DEF HintInv, PackInv, PackEncodes, UnpackInv
<1> QED  BY <1>5, <1>6

-------------------------------------------------------------------------------
LEMMA InvStep == HintInv /\ [Next]_vars => HintInv'
<1> SUFFICES ASSUME HintInv, [Next]_vars PROVE HintInv'
  OBVIOUS
<1>1. CASE PackHints
  BY <1>1, PackHintsStep
<1>2. CASE PackCoefficient
  BY <1>2, PackCoefficientStep
<1>3. CASE PackCount
  BY <1>3, PackCountStep
<1>4. CASE UnpackHints
  BY <1>4, UnpackHintsStep
<1>5. CASE UnpackCount
  BY <1>5, UnpackCountStep
<1>6. CASE UnpackIndex
  BY <1>6, UnpackIndexStep
<1>7. CASE NextPoly
  BY <1>7, NextPolyStep
<1>8. CASE UnpackRest
  BY <1>8, UnpackRestStep
<1>9. CASE UNCHANGED vars
  BY <1>9 DEF vars, HintInv, TypeOK, PackInv, PackEncodes, UnpackInv, UnpackedBefore, UnpackExact
<1> QED  BY <1>1, <1>2, <1>3, <1>4, <1>5, <1>6, <1>7, <1>8, <1>9 DEF Next

LEMMA InvHolds == Spec => []HintInv
BY InitHolds, InvStep, PTL DEF Spec

\* Whatever the bytes of a section, the decoder reads and writes within its arrays, and
\* the encoder never writes beyond OMEGA positions.
THEOREM TypeCorrect == Spec => []TypeOK
<1>1. HintInv => TypeOK
  BY DEF HintInv
<1> QED  BY <1>1, InvHolds, PTL

\* mld_pack_sig leaves the encoding of h in the hint section, whatever it held before.
THEOREM PackingEncodes == Spec => []PackEncodes
<1>1. HintInv => PackEncodes
  BY DEF HintInv
<1> QED  BY <1>1, InvHolds, PTL

\* mld_unpack_hints accepts exactly the encodings of hint vectors, and decodes them.
THEOREM UnpackingIsExact == Spec => []UnpackExact
<1>1. HintInv => UnpackExact
  BY DEF HintInv
<1> QED  BY <1>1, InvHolds, PTL

-------------------------------------------------------------------------------
(*****************************************************************************)
(* Packed coefficients.  A shift moves every bit of a number; the bits of    *)
(* a byte are therefore those that its expression lists, and the bits of a   *)
(* field those of the bytes it is read from.                                 *)
(*****************************************************************************)
LEMMA Right ==
  ASSUME NEW x \in SUBSET Nat, NEW n \in Nat, NEW b \in Nat
  PROVE  b \in (x \gg n) <=> b + n \in x
<1>1. ASSUME b + n \in x PROVE b \in (x \gg n)
  <2>1. b + n \in {c \in x : c >= n} /\ b = (b + n) - n
    BY <1>1
  <2>2. QED  BY <2>1 DEF \gg
<1>2. ASSUME b \in (x \gg n) PROVE b + n \in x
  BY <1>2 DEF \gg
<1>3. QED  BY <1>1, <1>2

LEMMA Left ==
  ASSUME NEW x \in SUBSET Nat, NEW n \in Nat, NEW b \in Nat
  PROVE  b \in (x \ll n) <=> b - n \in x
<1>1. ASSUME b - n \in x PROVE b \in (x \ll n)
  <2>1. b = (b - n) + n
    OBVIOUS
  <2>2. QED  BY <1>1, <2>1 DEF \ll
<1>2. ASSUME b \in (x \ll n) PROVE b - n \in x
  BY <1>2 DEF \ll
<1>3. QED  BY <1>1, <1>2

LEMMA FormatsAre ==
  /\ DOMAIN Formats = {"eta2", "eta4", "t1", "t0", "z18", "z20", "w6", "w4"}
  /\ Formats["eta2"].group = 8 /\ Formats["eta2"].width = 3
  /\ Formats["eta4"].group = 2 /\ Formats["eta4"].width = 4
  /\ Formats["t1"].group = 4 /\ Formats["t1"].width = 10
  /\ Formats["t0"].group = 8 /\ Formats["t0"].width = 13
  /\ Formats["z18"].group = 4 /\ Formats["z18"].width = 18
  /\ Formats["z20"].group = 2 /\ Formats["z20"].width = 20
  /\ Formats["w6"].group = 4 /\ Formats["w6"].width = 6
  /\ Formats["w4"].group = 2 /\ Formats["w4"].width = 4
BY DEF Formats, Format

LEMMA FormatType ==
  ASSUME NEW f \in DOMAIN Formats
  PROVE  Formats[f].group \in 2 .. 8 /\ Formats[f].width \in 3 .. 20
BY FormatsAre

\* Bit g of the string is bit g - c * width of a field c.
InString(f, v, g) == \E c \in Group(f) : g - c * Formats[f].width \in v[c]

LEMMA FieldType ==
  ASSUME NEW f \in DOMAIN Formats, NEW v \in Fields(f), NEW c \in Group(f)
  PROVE  /\ v[c] \in SUBSET (0 .. Formats[f].width - 1)
         /\ v[c] \in SUBSET Nat
BY FormatType DEF Fields, Mask

LEMMA StringOfBits ==
  ASSUME NEW f \in DOMAIN Formats, NEW v \in Fields(f), NEW g \in Nat
  PROVE  g \in UNION {{c * Formats[f].width + b : b \in v[c]} : c \in Group(f)}
           <=> InString(f, v, g)
<1> DEFINE w == Formats[f].width
           BitsOf(c) == {c * w + b : b \in v[c]}
<1>1. w \in Nat /\ \A c \in Group(f) : c \in Nat /\ c * w \in Nat /\ v[c] \in SUBSET Nat
  BY FormatType, FieldType DEF Group
<1>2. g \in UNION {BitsOf(c) : c \in Group(f)} <=> \E c \in Group(f) : g \in BitsOf(c)
  OBVIOUS
<1>3. ASSUME NEW c \in Group(f) PROVE g \in BitsOf(c) <=> g - c * w \in v[c]
  <2>1. PICK m \in Nat : m = c * w
    BY <1>1
  <2>2. \A b \in v[c] : b \in Nat
    BY <1>1
  <2>3. BitsOf(c) = {m + b : b \in v[c]}
    BY <2>1
  <2>4. g \in {m + b : b \in v[c]} <=> g - m \in v[c]
    <3>1. ASSUME g - m \in v[c] PROVE g \in {m + b : b \in v[c]}
      <4>1. g = m + (g - m)
        OBVIOUS
      <4>2. QED  BY <3>1, <4>1
    <3>2. QED  BY <2>2, <3>1
  <2>5. QED  BY <2>1, <2>3, <2>4
<1>4. QED  BY <1>2, <1>3 DEF InString

\* A field's bits are no other field's: fields do not overlap.
LEMMA FieldInString ==
  ASSUME NEW f \in DOMAIN Formats, NEW v \in Fields(f), NEW c \in Group(f),
         NEW b \in 0 .. Formats[f].width - 1
  PROVE  InString(f, v, c * Formats[f].width + b) <=> b \in v[c]
<1>1. PICK w \in Nat : w = Formats[f].width
  BY FormatType
<1>2. \A d \in Group(f) : d \in Nat /\ d * w \in Nat /\ v[d] \in SUBSET (0 .. w - 1)
  BY <1>1, FieldType DEF Group
<1>3. ASSUME NEW d \in Group(f), d # c PROVE (c * w + b) - d * w \notin 0 .. w - 1
  <2>1. c \in Nat /\ d \in Nat /\ b \in 0 .. w - 1
    BY <1>1, <1>2
  <2>2. CASE d < c
    <3>1. d * w + w <= c * w
      <4>1. PICK e \in Nat : c = d + 1 + e
        <5>1. c - d - 1 \in Nat /\ c = d + 1 + (c - d - 1)
          BY <2>1, <2>2
        <5>2. QED  BY <5>1
      <4>2. c * w = d * w + w + e * w /\ e * w \in Nat
        BY <2>1, <4>1
      <4>3. QED  BY <2>1, <4>2, <1>2
    <3>2. QED  BY <1>2, <2>1, <3>1
  <2>3. CASE c < d
    <3>1. c * w + w <= d * w
      <4>1. PICK e \in Nat : d = c + 1 + e
        <5>1. d - c - 1 \in Nat /\ d = c + 1 + (d - c - 1)
          BY <2>1, <2>3
        <5>2. QED  BY <5>1
      <4>2. d * w = c * w + w + e * w /\ e * w \in Nat
        BY <2>1, <4>1
      <4>3. QED  BY <2>1, <4>2, <1>2
    <3>2. QED  BY <1>2, <2>1, <3>1
  <2>4. QED  BY <1>3, <2>1, <2>2, <2>3
<1>4. (c * w + b) - c * w = b
  BY <1>1, <1>2
<1>5. QED  BY <1>1, <1>2, <1>3, <1>4 DEF InString

\* The last byte of a group of coefficients.
Last(f) == (Formats[f].group * Formats[f].width) \div 8 - 1

LEMMA LastByte ==
  /\ Last("eta2") = 2 /\ Last("eta4") = 0 /\ Last("t1") = 4 /\ Last("t0") = 12
  /\ Last("z18") = 8 /\ Last("z20") = 4 /\ Last("w6") = 2 /\ Last("w4") = 0
BY FormatsAre DEF Last

LEMMA BytesOfBitPack ==
  ASSUME NEW f \in DOMAIN Formats, NEW v \in Fields(f)
  PROVE  /\ BitPack(f, v) = [x \in 0 .. Last(f) |-> BitPack(f, v)[x]]
         /\ \A x \in 0 .. Last(f) : /\ BitPack(f, v)[x] \in SUBSET FF
                                  /\ \A b \in FF : b \in BitPack(f, v)[x] <=> InString(f, v, 8 * x + b)
<1> DEFINE ones == UNION {{c * Formats[f].width + b : b \in v[c]} : c \in Group(f)}
<1>1. BitPack(f, v) = [x \in 0 .. Last(f) |-> {b \in FF : 8 * x + b \in ones}]
  BY DEF BitPack, Last
<1>2. \A x \in 0 .. Last(f) : \A b \in FF : 8 * x + b \in Nat
  BY DEF FF, Mask
<1>3. \A x \in 0 .. Last(f) : \A b \in FF : 8 * x + b \in ones <=> InString(f, v, 8 * x + b)
  BY <1>2, StringOfBits
<1> HIDE DEF ones
<1>4. QED  BY <1>1, <1>3

LEMMA IsBitPack ==
  ASSUME NEW f \in DOMAIN Formats, NEW v \in Fields(f),
         NEW B, B = [x \in 0 .. Last(f) |-> B[x]],
         \A x \in 0 .. Last(f) : /\ B[x] \in SUBSET FF
                               /\ \A b \in FF : b \in B[x] <=> InString(f, v, 8 * x + b)
  PROVE  B = BitPack(f, v)
<1> DEFINE P == BitPack(f, v)
<1>1. /\ P = [x \in 0 .. Last(f) |-> P[x]]
      /\ \A x \in 0 .. Last(f) : P[x] \in SUBSET FF /\ \A b \in FF : b \in P[x] <=> InString(f, v, 8 * x + b)
  BY BytesOfBitPack
<1> HIDE DEF P
<1>2. ASSUME NEW x \in 0 .. Last(f) PROVE B[x] = P[x]
  <2>1. B[x] \in SUBSET FF /\ P[x] \in SUBSET FF /\ \A b \in FF : b \in B[x] <=> b \in P[x]
    BY <1>1
  <2>2. QED  BY <2>1
<1>3. B = P
  BY <1>1, <1>2
<1>4. QED  BY <1>3 DEF P

LEMMA StringIn ==
  ASSUME NEW f, NEW n, NEW w, Group(f) = 0 .. n, Formats[f].width = w, NEW v, NEW g
  PROVE  InString(f, v, g) <=> \E c \in 0 .. n : g - c * w \in v[c]
BY DEF InString

\* In each format the expressions of the code list, for every byte, the bits of the
\* string that FIPS 204 puts there.
LEMMA PackEta2 ==
  ASSUME t \in Fields("eta2")
  PROVE  FromZero(polyeta_pack_2) = BitPack("eta2", t)
<1> DEFINE B == FromZero(polyeta_pack_2)
<1>1. /\ Group("eta2") = 0 .. 7 /\ Formats["eta2"].group * Formats["eta2"].width = 24
      /\ Formats["eta2"].width = 3
  BY FormatsAre DEF Group
<1>2. \A c \in 0 .. 7 : t[c] \in SUBSET (0 .. 2) /\ t[c] \in SUBSET Nat
  BY <1>1, FormatsAre, FieldType
<1>3. \A m : InString("eta2", t, m) <=> \E c \in 0 .. 7 : m - c * 3 \in t[c]
  <2>1. Group("eta2") = 0 .. 7 /\ Formats["eta2"].width = 3
    BY <1>1
  <2>2. QED  BY <2>1, StringIn
<1>4. B = [x \in 0 .. 2 |-> B[x]] /\ \A x \in 0 .. 2 : B[x] \in SUBSET FF
  BY DEF FromZero, polyeta_pack_2, &
<1>5. ASSUME NEW b \in 0 .. 7 PROVE
      /\ b \in B[0] <=> b \in t[0] \/ b - 3 \in t[1] \/ b - 6 \in t[2]
      /\ b \in B[1] <=> b + 2 \in t[2] \/ b - 1 \in t[3] \/ b - 4 \in t[4] \/ b - 7 \in t[5]
      /\ b \in B[2] <=> b + 1 \in t[5] \/ b - 2 \in t[6] \/ b - 5 \in t[7]
  BY <1>2, Right, Left, SMTT(60) DEF FromZero, polyeta_pack_2, |, &, FF, Mask
<1> HIDE DEF B
<1>6. ASSUME NEW x \in 0 .. 2, NEW b \in 0 .. 7
      PROVE  b \in B[x] <=> InString("eta2", t, 8 * x + b)
  <2>1. x = 0 \/ x = 1 \/ x = 2
    OBVIOUS
  <2>2. QED  BY <1>2, <1>3, <1>5, <2>1
<1>7. FF = 0 .. 7 /\ "eta2" \in DOMAIN Formats
  BY FormatsAre DEF FF, Mask
<1>8. B = BitPack("eta2", t)
  <2>1. /\ B = [x \in 0 .. Last("eta2") |-> B[x]]
        /\ \A x \in 0 .. Last("eta2") : /\ B[x] \in SUBSET FF
                                       /\ \A b \in FF : b \in B[x] <=> InString("eta2", t, 8 * x + b)
    BY <1>4, <1>6, <1>7, LastByte
  <2>2. QED  BY <1>7, <2>1, IsBitPack
<1>9. QED  BY <1>8 DEF B

LEMMA PackEta4 ==
  ASSUME t \in Fields("eta4")
  PROVE  FromZero(Nibbles) = BitPack("eta4", t)
<1> DEFINE B == FromZero(Nibbles)
<1>1. /\ Group("eta4") = 0 .. 1 /\ Formats["eta4"].group * Formats["eta4"].width = 8
      /\ Formats["eta4"].width = 4
  BY FormatsAre DEF Group
<1>2. \A c \in 0 .. 1 : t[c] \in SUBSET (0 .. 3) /\ t[c] \in SUBSET Nat
  BY <1>1, FormatsAre, FieldType
<1>3. \A m : InString("eta4", t, m) <=> \E c \in 0 .. 1 : m - c * 4 \in t[c]
  <2>1. Group("eta4") = 0 .. 1 /\ Formats["eta4"].width = 4
    BY <1>1
  <2>2. QED  BY <2>1, StringIn
<1>4. B = [x \in 0 .. 0 |-> B[x]] /\ \A x \in 0 .. 0 : B[x] \in SUBSET FF
  BY DEF FromZero, Nibbles, &
<1>5. ASSUME NEW b \in 0 .. 7 PROVE
      /\ b \in B[0] <=> b \in t[0] \/ b - 4 \in t[1]
  BY <1>2, Right, Left, SMTT(60) DEF FromZero, Nibbles, |, &, FF, Mask
<1> HIDE DEF B
<1>6. ASSUME NEW x \in 0 .. 0, NEW b \in 0 .. 7
      PROVE  b \in B[x] <=> InString("eta4", t, 8 * x + b)
  <2>1. x = 0
    OBVIOUS
  <2>2. QED  BY <1>2, <1>3, <1>5, <2>1
<1>7. FF = 0 .. 7 /\ "eta4" \in DOMAIN Formats
  BY FormatsAre DEF FF, Mask
<1>8. B = BitPack("eta4", t)
  <2>1. /\ B = [x \in 0 .. Last("eta4") |-> B[x]]
        /\ \A x \in 0 .. Last("eta4") : /\ B[x] \in SUBSET FF
                                       /\ \A b \in FF : b \in B[x] <=> InString("eta4", t, 8 * x + b)
    BY <1>4, <1>6, <1>7, LastByte
  <2>2. QED  BY <1>7, <2>1, IsBitPack
<1>9. QED  BY <1>8 DEF B

LEMMA PackW4 ==
  ASSUME t \in Fields("w4")
  PROVE  FromZero(Nibbles) = BitPack("w4", t)
<1> DEFINE B == FromZero(Nibbles)
<1>1. /\ Group("w4") = 0 .. 1 /\ Formats["w4"].group * Formats["w4"].width = 8
      /\ Formats["w4"].width = 4
  BY FormatsAre DEF Group
<1>2. \A c \in 0 .. 1 : t[c] \in SUBSET (0 .. 3) /\ t[c] \in SUBSET Nat
  BY <1>1, FormatsAre, FieldType
<1>3. \A m : InString("w4", t, m) <=> \E c \in 0 .. 1 : m - c * 4 \in t[c]
  <2>1. Group("w4") = 0 .. 1 /\ Formats["w4"].width = 4
    BY <1>1
  <2>2. QED  BY <2>1, StringIn
<1>4. B = [x \in 0 .. 0 |-> B[x]] /\ \A x \in 0 .. 0 : B[x] \in SUBSET FF
  BY DEF FromZero, Nibbles, &
<1>5. ASSUME NEW b \in 0 .. 7 PROVE
      /\ b \in B[0] <=> b \in t[0] \/ b - 4 \in t[1]
  BY <1>2, Right, Left, SMTT(60) DEF FromZero, Nibbles, |, &, FF, Mask
<1> HIDE DEF B
<1>6. ASSUME NEW x \in 0 .. 0, NEW b \in 0 .. 7
      PROVE  b \in B[x] <=> InString("w4", t, 8 * x + b)
  <2>1. x = 0
    OBVIOUS
  <2>2. QED  BY <1>2, <1>3, <1>5, <2>1
<1>7. FF = 0 .. 7 /\ "w4" \in DOMAIN Formats
  BY FormatsAre DEF FF, Mask
<1>8. B = BitPack("w4", t)
  <2>1. /\ B = [x \in 0 .. Last("w4") |-> B[x]]
        /\ \A x \in 0 .. Last("w4") : /\ B[x] \in SUBSET FF
                                       /\ \A b \in FF : b \in B[x] <=> InString("w4", t, 8 * x + b)
    BY <1>4, <1>6, <1>7, LastByte
  <2>2. QED  BY <1>7, <2>1, IsBitPack
<1>9. QED  BY <1>8 DEF B

LEMMA PackT1 ==
  ASSUME t \in Fields("t1")
  PROVE  FromZero(polyt1_pack) = BitPack("t1", t)
<1> DEFINE B == FromZero(polyt1_pack)
<1>1. /\ Group("t1") = 0 .. 3 /\ Formats["t1"].group * Formats["t1"].width = 40
      /\ Formats["t1"].width = 10
  BY FormatsAre DEF Group
<1>2. \A c \in 0 .. 3 : t[c] \in SUBSET (0 .. 9) /\ t[c] \in SUBSET Nat
  BY <1>1, FormatsAre, FieldType
<1>3. \A m : InString("t1", t, m) <=> \E c \in 0 .. 3 : m - c * 10 \in t[c]
  <2>1. Group("t1") = 0 .. 3 /\ Formats["t1"].width = 10
    BY <1>1
  <2>2. QED  BY <2>1, StringIn
<1>4. B = [x \in 0 .. 4 |-> B[x]] /\ \A x \in 0 .. 4 : B[x] \in SUBSET FF
  BY DEF FromZero, polyt1_pack, &
<1>5. ASSUME NEW b \in 0 .. 7 PROVE
      /\ b \in B[0] <=> b \in t[0]
      /\ b \in B[1] <=> b + 8 \in t[0] \/ b - 2 \in t[1]
      /\ b \in B[2] <=> b + 6 \in t[1] \/ b - 4 \in t[2]
      /\ b \in B[3] <=> b + 4 \in t[2] \/ b - 6 \in t[3]
      /\ b \in B[4] <=> b + 2 \in t[3]
  BY <1>2, Right, Left, SMTT(60) DEF FromZero, polyt1_pack, |, &, FF, Mask
<1> HIDE DEF B
<1>6. ASSUME NEW x \in 0 .. 4, NEW b \in 0 .. 7
      PROVE  b \in B[x] <=> InString("t1", t, 8 * x + b)
  <2>1. x = 0 \/ x = 1 \/ x = 2 \/ x = 3 \/ x = 4
    OBVIOUS
  <2>2. QED  BY <1>2, <1>3, <1>5, <2>1
<1>7. FF = 0 .. 7 /\ "t1" \in DOMAIN Formats
  BY FormatsAre DEF FF, Mask
<1>8. B = BitPack("t1", t)
  <2>1. /\ B = [x \in 0 .. Last("t1") |-> B[x]]
        /\ \A x \in 0 .. Last("t1") : /\ B[x] \in SUBSET FF
                                       /\ \A b \in FF : b \in B[x] <=> InString("t1", t, 8 * x + b)
    BY <1>4, <1>6, <1>7, LastByte
  <2>2. QED  BY <1>7, <2>1, IsBitPack
<1>9. QED  BY <1>8 DEF B

LEMMA PackT0 ==
  ASSUME t \in Fields("t0")
  PROVE  FromZero(polyt0_pack) = BitPack("t0", t)
<1> DEFINE B == FromZero(polyt0_pack)
<1>1. /\ Group("t0") = 0 .. 7 /\ Formats["t0"].group * Formats["t0"].width = 104
      /\ Formats["t0"].width = 13
  BY FormatsAre DEF Group
<1>2. \A c \in 0 .. 7 : t[c] \in SUBSET (0 .. 12) /\ t[c] \in SUBSET Nat
  BY <1>1, FormatsAre, FieldType
<1>3. \A m : InString("t0", t, m) <=> \E c \in 0 .. 7 : m - c * 13 \in t[c]
  <2>1. Group("t0") = 0 .. 7 /\ Formats["t0"].width = 13
    BY <1>1
  <2>2. QED  BY <2>1, StringIn
<1>4. B = [x \in 0 .. 12 |-> B[x]] /\ \A x \in 0 .. 12 : B[x] \in SUBSET FF
  BY DEF FromZero, polyt0_pack, &
<1>5. ASSUME NEW b \in 0 .. 7 PROVE
      /\ b \in B[0] <=> b \in t[0]
      /\ b \in B[1] <=> b + 8 \in t[0] \/ b - 5 \in t[1]
      /\ b \in B[2] <=> b + 3 \in t[1]
      /\ b \in B[3] <=> b + 11 \in t[1] \/ b - 2 \in t[2]
      /\ b \in B[4] <=> b + 6 \in t[2] \/ b - 7 \in t[3]
      /\ b \in B[5] <=> b + 1 \in t[3]
      /\ b \in B[6] <=> b + 9 \in t[3] \/ b - 4 \in t[4]
      /\ b \in B[7] <=> b + 4 \in t[4]
      /\ b \in B[8] <=> b + 12 \in t[4] \/ b - 1 \in t[5]
      /\ b \in B[9] <=> b + 7 \in t[5] \/ b - 6 \in t[6]
      /\ b \in B[10] <=> b + 2 \in t[6]
      /\ b \in B[11] <=> b + 10 \in t[6] \/ b - 3 \in t[7]
      /\ b \in B[12] <=> b + 5 \in t[7]
  BY <1>2, Right, Left, SMTT(60) DEF FromZero, polyt0_pack, |, &, FF, Mask
<1> HIDE DEF B
<1>6. ASSUME NEW x \in 0 .. 12, NEW b \in 0 .. 7
      PROVE  b \in B[x] <=> InString("t0", t, 8 * x + b)
  <2>1. x = 0 \/ x = 1 \/ x = 2 \/ x = 3 \/ x = 4 \/ x = 5 \/ x = 6 \/ x = 7 \/ x = 8 \/ x = 9 \/ x = 10 \/ x = 11 \/ x = 12
    OBVIOUS
  <2>2. QED  BY <1>2, <1>3, <1>5, <2>1
<1>7. FF = 0 .. 7 /\ "t0" \in DOMAIN Formats
  BY FormatsAre DEF FF, Mask
<1>8. B = BitPack("t0", t)
  <2>1. /\ B = [x \in 0 .. Last("t0") |-> B[x]]
        /\ \A x \in 0 .. Last("t0") : /\ B[x] \in SUBSET FF
                                       /\ \A b \in FF : b \in B[x] <=> InString("t0", t, 8 * x + b)
    BY <1>4, <1>6, <1>7, LastByte
  <2>2. QED  BY <1>7, <2>1, IsBitPack
<1>9. QED  BY <1>8 DEF B

LEMMA PackZ18 ==
  ASSUME t \in Fields("z18")
  PROVE  FromZero(polyz_pack_18) = BitPack("z18", t)
<1> DEFINE B == FromZero(polyz_pack_18)
<1>1. /\ Group("z18") = 0 .. 3 /\ Formats["z18"].group * Formats["z18"].width = 72
      /\ Formats["z18"].width = 18
  BY FormatsAre DEF Group
<1>2. \A c \in 0 .. 3 : t[c] \in SUBSET (0 .. 17) /\ t[c] \in SUBSET Nat
  BY <1>1, FormatsAre, FieldType
<1>3. \A m : InString("z18", t, m) <=> \E c \in 0 .. 3 : m - c * 18 \in t[c]
  <2>1. Group("z18") = 0 .. 3 /\ Formats["z18"].width = 18
    BY <1>1
  <2>2. QED  BY <2>1, StringIn
<1>4. B = [x \in 0 .. 8 |-> B[x]] /\ \A x \in 0 .. 8 : B[x] \in SUBSET FF
  BY DEF FromZero, polyz_pack_18, &
<1>5. ASSUME NEW b \in 0 .. 7 PROVE
      /\ b \in B[0] <=> b \in t[0]
      /\ b \in B[1] <=> b + 8 \in t[0]
      /\ b \in B[2] <=> b + 16 \in t[0] \/ b - 2 \in t[1]
      /\ b \in B[3] <=> b + 6 \in t[1]
      /\ b \in B[4] <=> b + 14 \in t[1] \/ b - 4 \in t[2]
      /\ b \in B[5] <=> b + 4 \in t[2]
      /\ b \in B[6] <=> b + 12 \in t[2] \/ b - 6 \in t[3]
      /\ b \in B[7] <=> b + 2 \in t[3]
      /\ b \in B[8] <=> b + 10 \in t[3]
  BY <1>2, Right, Left, SMTT(60) DEF FromZero, polyz_pack_18, |, &, FF, Mask
<1> HIDE DEF B
<1>6. ASSUME NEW x \in 0 .. 8, NEW b \in 0 .. 7
      PROVE  b \in B[x] <=> InString("z18", t, 8 * x + b)
  <2>1. x = 0 \/ x = 1 \/ x = 2 \/ x = 3 \/ x = 4 \/ x = 5 \/ x = 6 \/ x = 7 \/ x = 8
    OBVIOUS
  <2>2. QED  BY <1>2, <1>3, <1>5, <2>1
<1>7. FF = 0 .. 7 /\ "z18" \in DOMAIN Formats
  BY FormatsAre DEF FF, Mask
<1>8. B = BitPack("z18", t)
  <2>1. /\ B = [x \in 0 .. Last("z18") |-> B[x]]
        /\ \A x \in 0 .. Last("z18") : /\ B[x] \in SUBSET FF
                                       /\ \A b \in FF : b \in B[x] <=> InString("z18", t, 8 * x + b)
    BY <1>4, <1>6, <1>7, LastByte
  <2>2. QED  BY <1>7, <2>1, IsBitPack
<1>9. QED  BY <1>8 DEF B

LEMMA PackZ20 ==
  ASSUME t \in Fields("z20")
  PROVE  FromZero(polyz_pack_20) = BitPack("z20", t)
<1> DEFINE B == FromZero(polyz_pack_20)
<1>1. /\ Group("z20") = 0 .. 1 /\ Formats["z20"].group * Formats["z20"].width = 40
      /\ Formats["z20"].width = 20
  BY FormatsAre DEF Group
<1>2. \A c \in 0 .. 1 : t[c] \in SUBSET (0 .. 19) /\ t[c] \in SUBSET Nat
  BY <1>1, FormatsAre, FieldType
<1>3. \A m : InString("z20", t, m) <=> \E c \in 0 .. 1 : m - c * 20 \in t[c]
  <2>1. Group("z20") = 0 .. 1 /\ Formats["z20"].width = 20
    BY <1>1
  <2>2. QED  BY <2>1, StringIn
<1>4. B = [x \in 0 .. 4 |-> B[x]] /\ \A x \in 0 .. 4 : B[x] \in SUBSET FF
  BY DEF FromZero, polyz_pack_20, &
<1>5. ASSUME NEW b \in 0 .. 7 PROVE
      /\ b \in B[0] <=> b \in t[0]
      /\ b \in B[1] <=> b + 8 \in t[0]
      /\ b \in B[2] <=> b + 16 \in t[0] \/ b - 4 \in t[1]
      /\ b \in B[3] <=> b + 4 \in t[1]
      /\ b \in B[4] <=> b + 12 \in t[1]
  BY <1>2, Right, Left, SMTT(60) DEF FromZero, polyz_pack_20, |, &, FF, Mask
<1> HIDE DEF B
<1>6. ASSUME NEW x \in 0 .. 4, NEW b \in 0 .. 7
      PROVE  b \in B[x] <=> InString("z20", t, 8 * x + b)
  <2>1. x = 0 \/ x = 1 \/ x = 2 \/ x = 3 \/ x = 4
    OBVIOUS
  <2>2. QED  BY <1>2, <1>3, <1>5, <2>1
<1>7. FF = 0 .. 7 /\ "z20" \in DOMAIN Formats
  BY FormatsAre DEF FF, Mask
<1>8. B = BitPack("z20", t)
  <2>1. /\ B = [x \in 0 .. Last("z20") |-> B[x]]
        /\ \A x \in 0 .. Last("z20") : /\ B[x] \in SUBSET FF
                                       /\ \A b \in FF : b \in B[x] <=> InString("z20", t, 8 * x + b)
    BY <1>4, <1>6, <1>7, LastByte
  <2>2. QED  BY <1>7, <2>1, IsBitPack
<1>9. QED  BY <1>8 DEF B

LEMMA PackW6 ==
  ASSUME t \in Fields("w6")
  PROVE  FromZero(polyw1_pack_6) = BitPack("w6", t)
<1> DEFINE B == FromZero(polyw1_pack_6)
<1>1. /\ Group("w6") = 0 .. 3 /\ Formats["w6"].group * Formats["w6"].width = 24
      /\ Formats["w6"].width = 6
  BY FormatsAre DEF Group
<1>2. \A c \in 0 .. 3 : t[c] \in SUBSET (0 .. 5) /\ t[c] \in SUBSET Nat
  BY <1>1, FormatsAre, FieldType
<1>3. \A m : InString("w6", t, m) <=> \E c \in 0 .. 3 : m - c * 6 \in t[c]
  <2>1. Group("w6") = 0 .. 3 /\ Formats["w6"].width = 6
    BY <1>1
  <2>2. QED  BY <2>1, StringIn
<1>4. B = [x \in 0 .. 2 |-> B[x]] /\ \A x \in 0 .. 2 : B[x] \in SUBSET FF
  BY DEF FromZero, polyw1_pack_6, &
<1>5. ASSUME NEW b \in 0 .. 7 PROVE
      /\ b \in B[0] <=> b \in t[0] \/ b - 6 \in t[1]
      /\ b \in B[1] <=> b + 2 \in t[1] \/ b - 4 \in t[2]
      /\ b \in B[2] <=> b + 4 \in t[2] \/ b - 2 \in t[3]
  BY <1>2, Right, Left, SMTT(60) DEF FromZero, polyw1_pack_6, |, &, FF, Mask
<1> HIDE DEF B
<1>6. ASSUME NEW x \in 0 .. 2, NEW b \in 0 .. 7
      PROVE  b \in B[x] <=> InString("w6", t, 8 * x + b)
  <2>1. x = 0 \/ x = 1 \/ x = 2
    OBVIOUS
  <2>2. QED  BY <1>2, <1>3, <1>5, <2>1
<1>7. FF = 0 .. 7 /\ "w6" \in DOMAIN Formats
  BY FormatsAre DEF FF, Mask
<1>8. B = BitPack("w6", t)
  <2>1. /\ B = [x \in 0 .. Last("w6") |-> B[x]]
        /\ \A x \in 0 .. Last("w6") : /\ B[x] \in SUBSET FF
                                       /\ \A b \in FF : b \in B[x] <=> InString("w6", t, 8 * x + b)
    BY <1>4, <1>6, <1>7, LastByte
  <2>2. QED  BY <1>7, <2>1, IsBitPack
<1>9. QED  BY <1>8 DEF B

\* A field read from the string has the bits of that field and no others: those of its
\* neighbours are masked, or were shifted out.
LEMMA UnpackEta2 ==
  ASSUME NEW v \in Fields("eta2")
  PROVE  FromZero(polyeta_unpack_2(BitPack("eta2", v))) = v
<1> DEFINE a == BitPack("eta2", v)
           U == FromZero(polyeta_unpack_2(a))
<1>1. /\ Group("eta2") = 0 .. 7 /\ Formats["eta2"].group * Formats["eta2"].width = 24
      /\ Formats["eta2"].width = 3 /\ FF = 0 .. 7 /\ "eta2" \in DOMAIN Formats
  BY FormatsAre DEF Group, FF, Mask
<1>2. \A x \in 0 .. 2 : /\ a[x] \in SUBSET (0 .. 7) /\ a[x] \in SUBSET Nat
                        /\ \A b \in 0 .. 7 : b \in a[x] <=> InString("eta2", v, 8 * x + b)
  <2>1. \A x \in 0 .. Last("eta2") : /\ a[x] \in SUBSET FF
                                 /\ \A b \in FF : b \in a[x] <=> InString("eta2", v, 8 * x + b)
    BY <1>1, BytesOfBitPack
  <2>2. \A x \in 0 .. 2 : /\ a[x] \in SUBSET (0 .. 7)
                          /\ \A b \in 0 .. 7 : b \in a[x] <=> InString("eta2", v, 8 * x + b)
    BY <1>1, <2>1, LastByte
  <2> HIDE DEF a
  <2>3. QED  BY <2>2
<1>3. \A c \in 0 .. 7 : v[c] \in SUBSET (0 .. 2)
  BY <1>1, FieldType
<1>4. v = [c \in 0 .. 7 |-> v[c]]
  BY <1>1 DEF Fields
<1>5. \A c \in 0 .. 7 : \A b \in 0 .. 2 : InString("eta2", v, 3 * c + b) <=> b \in v[c]
  BY <1>1, FieldInString
<1> HIDE DEF a
<1>6. /\ U = [c \in 0 .. 7 |-> U[c]]
      /\ \A c \in 0 .. 7 : U[c] \in SUBSET (0 .. 2)
  BY <1>2, Right, Left DEF FromZero, polyeta_unpack_2, &, |, Mask, \gg, \ll
<1>7. ASSUME NEW b \in 0 .. 2 PROVE
      /\ b \in U[0] <=> b \in a[0]
      /\ b \in U[1] <=> b + 3 \in a[0]
      /\ b \in U[2] <=> b + 6 \in a[0] \/ b - 2 \in a[1]
      /\ b \in U[3] <=> b + 1 \in a[1]
      /\ b \in U[4] <=> b + 4 \in a[1]
      /\ b \in U[5] <=> b + 7 \in a[1] \/ b - 1 \in a[2]
      /\ b \in U[6] <=> b + 2 \in a[2]
      /\ b \in U[7] <=> b + 5 \in a[2]
  <2>1. \A x \in 0 .. 2 : a[x] \in SUBSET Nat
    BY <1>2
  <2>2. QED  BY <2>1, Right, Left, SMTT(60) DEF FromZero, polyeta_unpack_2, |, &, Mask
<1> HIDE DEF U
<1>8. ASSUME NEW c \in 0 .. 7, NEW b \in 0 .. 2 PROVE b \in U[c] <=> b \in v[c]
  <2>1. c = 0 \/ c = 1 \/ c = 2 \/ c = 3 \/ c = 4 \/ c = 5 \/ c = 6 \/ c = 7
    OBVIOUS
  <2>2. b \in U[c] <=> InString("eta2", v, 3 * c + b)
    BY <1>2, <1>7, <2>1
  <2>3. QED  BY <1>5, <2>2
<1>9. ASSUME NEW c \in 0 .. 7 PROVE U[c] = v[c]
  <2>1. U[c] \in SUBSET (0 .. 2) /\ v[c] \in SUBSET (0 .. 2)
    BY <1>3, <1>6
  <2>2. QED  BY <1>8, <2>1
<1>10. U = v
  BY <1>4, <1>6, <1>9
<1>11. QED  BY <1>10 DEF U, a

LEMMA UnpackEta4 ==
  ASSUME NEW v \in Fields("eta4")
  PROVE  FromZero(polyeta_unpack_4(BitPack("eta4", v))) = v
<1> DEFINE a == BitPack("eta4", v)
           U == FromZero(polyeta_unpack_4(a))
<1>1. /\ Group("eta4") = 0 .. 1 /\ Formats["eta4"].group * Formats["eta4"].width = 8
      /\ Formats["eta4"].width = 4 /\ FF = 0 .. 7 /\ "eta4" \in DOMAIN Formats
  BY FormatsAre DEF Group, FF, Mask
<1>2. \A x \in 0 .. 0 : /\ a[x] \in SUBSET (0 .. 7) /\ a[x] \in SUBSET Nat
                        /\ \A b \in 0 .. 7 : b \in a[x] <=> InString("eta4", v, 8 * x + b)
  <2>1. \A x \in 0 .. Last("eta4") : /\ a[x] \in SUBSET FF
                                 /\ \A b \in FF : b \in a[x] <=> InString("eta4", v, 8 * x + b)
    BY <1>1, BytesOfBitPack
  <2>2. \A x \in 0 .. 0 : /\ a[x] \in SUBSET (0 .. 7)
                          /\ \A b \in 0 .. 7 : b \in a[x] <=> InString("eta4", v, 8 * x + b)
    BY <1>1, <2>1, LastByte
  <2> HIDE DEF a
  <2>3. QED  BY <2>2
<1>3. \A c \in 0 .. 1 : v[c] \in SUBSET (0 .. 3)
  BY <1>1, FieldType
<1>4. v = [c \in 0 .. 1 |-> v[c]]
  BY <1>1 DEF Fields
<1>5. \A c \in 0 .. 1 : \A b \in 0 .. 3 : InString("eta4", v, 4 * c + b) <=> b \in v[c]
  BY <1>1, FieldInString
<1> HIDE DEF a
<1>6. /\ U = [c \in 0 .. 1 |-> U[c]]
      /\ \A c \in 0 .. 1 : U[c] \in SUBSET (0 .. 3)
  BY <1>2, Right, Left DEF FromZero, polyeta_unpack_4, &, |, Mask, \gg, \ll
<1>7. ASSUME NEW b \in 0 .. 3 PROVE
      /\ b \in U[0] <=> b \in a[0]
      /\ b \in U[1] <=> b + 4 \in a[0]
  <2>1. \A x \in 0 .. 0 : a[x] \in SUBSET Nat
    BY <1>2
  <2>2. QED  BY <2>1, Right, Left, SMTT(60) DEF FromZero, polyeta_unpack_4, |, &, Mask
<1> HIDE DEF U
<1>8. ASSUME NEW c \in 0 .. 1, NEW b \in 0 .. 3 PROVE b \in U[c] <=> b \in v[c]
  <2>1. c = 0 \/ c = 1
    OBVIOUS
  <2>2. b \in U[c] <=> InString("eta4", v, 4 * c + b)
    BY <1>2, <1>7, <2>1
  <2>3. QED  BY <1>5, <2>2
<1>9. ASSUME NEW c \in 0 .. 1 PROVE U[c] = v[c]
  <2>1. U[c] \in SUBSET (0 .. 3) /\ v[c] \in SUBSET (0 .. 3)
    BY <1>3, <1>6
  <2>2. QED  BY <1>8, <2>1
<1>10. U = v
  BY <1>4, <1>6, <1>9
<1>11. QED  BY <1>10 DEF U, a

LEMMA UnpackT1 ==
  ASSUME NEW v \in Fields("t1")
  PROVE  FromZero(polyt1_unpack(BitPack("t1", v))) = v
<1> DEFINE a == BitPack("t1", v)
           U == FromZero(polyt1_unpack(a))
<1>1. /\ Group("t1") = 0 .. 3 /\ Formats["t1"].group * Formats["t1"].width = 40
      /\ Formats["t1"].width = 10 /\ FF = 0 .. 7 /\ "t1" \in DOMAIN Formats
  BY FormatsAre DEF Group, FF, Mask
<1>2. \A x \in 0 .. 4 : /\ a[x] \in SUBSET (0 .. 7) /\ a[x] \in SUBSET Nat
                        /\ \A b \in 0 .. 7 : b \in a[x] <=> InString("t1", v, 8 * x + b)
  <2>1. \A x \in 0 .. Last("t1") : /\ a[x] \in SUBSET FF
                                 /\ \A b \in FF : b \in a[x] <=> InString("t1", v, 8 * x + b)
    BY <1>1, BytesOfBitPack
  <2>2. \A x \in 0 .. 4 : /\ a[x] \in SUBSET (0 .. 7)
                          /\ \A b \in 0 .. 7 : b \in a[x] <=> InString("t1", v, 8 * x + b)
    BY <1>1, <2>1, LastByte
  <2> HIDE DEF a
  <2>3. QED  BY <2>2
<1>3. \A c \in 0 .. 3 : v[c] \in SUBSET (0 .. 9)
  BY <1>1, FieldType
<1>4. v = [c \in 0 .. 3 |-> v[c]]
  BY <1>1 DEF Fields
<1>5. \A c \in 0 .. 3 : \A b \in 0 .. 9 : InString("t1", v, 10 * c + b) <=> b \in v[c]
  BY <1>1, FieldInString
<1> HIDE DEF a
<1>6. /\ U = [c \in 0 .. 3 |-> U[c]]
      /\ \A c \in 0 .. 3 : U[c] \in SUBSET (0 .. 9)
  BY <1>2, Right, Left DEF FromZero, polyt1_unpack, &, |, Mask, \gg, \ll
<1>7. ASSUME NEW b \in 0 .. 9 PROVE
      /\ b \in U[0] <=> b \in a[0] \/ b - 8 \in a[1]
      /\ b \in U[1] <=> b + 2 \in a[1] \/ b - 6 \in a[2]
      /\ b \in U[2] <=> b + 4 \in a[2] \/ b - 4 \in a[3]
      /\ b \in U[3] <=> b + 6 \in a[3] \/ b - 2 \in a[4]
  <2>1. \A x \in 0 .. 4 : a[x] \in SUBSET Nat
    BY <1>2
  <2>2. QED  BY <2>1, Right, Left, SMTT(60) DEF FromZero, polyt1_unpack, |, &, Mask
<1> HIDE DEF U
<1>8. ASSUME NEW c \in 0 .. 3, NEW b \in 0 .. 9 PROVE b \in U[c] <=> b \in v[c]
  <2>1. c = 0 \/ c = 1 \/ c = 2 \/ c = 3
    OBVIOUS
  <2>2. b \in U[c] <=> InString("t1", v, 10 * c + b)
    BY <1>2, <1>7, <2>1
  <2>3. QED  BY <1>5, <2>2
<1>9. ASSUME NEW c \in 0 .. 3 PROVE U[c] = v[c]
  <2>1. U[c] \in SUBSET (0 .. 9) /\ v[c] \in SUBSET (0 .. 9)
    BY <1>3, <1>6
  <2>2. QED  BY <1>8, <2>1
<1>10. U = v
  BY <1>4, <1>6, <1>9
<1>11. QED  BY <1>10 DEF U, a

LEMMA UnpackT0 ==
  ASSUME NEW v \in Fields("t0")
  PROVE  FromZero(polyt0_unpack(BitPack("t0", v))) = v
<1> DEFINE a == BitPack("t0", v)
           U == FromZero(polyt0_unpack(a))
<1>1. /\ Group("t0") = 0 .. 7 /\ Formats["t0"].group * Formats["t0"].width = 104
      /\ Formats["t0"].width = 13 /\ FF = 0 .. 7 /\ "t0" \in DOMAIN Formats
  BY FormatsAre DEF Group, FF, Mask
<1>2. \A x \in 0 .. 12 : /\ a[x] \in SUBSET (0 .. 7) /\ a[x] \in SUBSET Nat
                        /\ \A b \in 0 .. 7 : b \in a[x] <=> InString("t0", v, 8 * x + b)
  <2>1. \A x \in 0 .. Last("t0") : /\ a[x] \in SUBSET FF
                                 /\ \A b \in FF : b \in a[x] <=> InString("t0", v, 8 * x + b)
    BY <1>1, BytesOfBitPack
  <2>2. \A x \in 0 .. 12 : /\ a[x] \in SUBSET (0 .. 7)
                          /\ \A b \in 0 .. 7 : b \in a[x] <=> InString("t0", v, 8 * x + b)
    BY <1>1, <2>1, LastByte
  <2> HIDE DEF a
  <2>3. QED  BY <2>2
<1>3. \A c \in 0 .. 7 : v[c] \in SUBSET (0 .. 12)
  BY <1>1, FieldType
<1>4. v = [c \in 0 .. 7 |-> v[c]]
  BY <1>1 DEF Fields
<1>5. \A c \in 0 .. 7 : \A b \in 0 .. 12 : InString("t0", v, 13 * c + b) <=> b \in v[c]
  BY <1>1, FieldInString
<1> HIDE DEF a
<1>6. /\ U = [c \in 0 .. 7 |-> U[c]]
      /\ \A c \in 0 .. 7 : U[c] \in SUBSET (0 .. 12)
  BY <1>2, Right, Left DEF FromZero, polyt0_unpack, &, |, Mask, \gg, \ll
<1>7. ASSUME NEW b \in 0 .. 12 PROVE
      /\ b \in U[0] <=> b \in a[0] \/ b - 8 \in a[1]
      /\ b \in U[1] <=> b + 5 \in a[1] \/ b - 3 \in a[2] \/ b - 11 \in a[3]
      /\ b \in U[2] <=> b + 2 \in a[3] \/ b - 6 \in a[4]
      /\ b \in U[3] <=> b + 7 \in a[4] \/ b - 1 \in a[5] \/ b - 9 \in a[6]
      /\ b \in U[4] <=> b + 4 \in a[6] \/ b - 4 \in a[7] \/ b - 12 \in a[8]
      /\ b \in U[5] <=> b + 1 \in a[8] \/ b - 7 \in a[9]
      /\ b \in U[6] <=> b + 6 \in a[9] \/ b - 2 \in a[10] \/ b - 10 \in a[11]
      /\ b \in U[7] <=> b + 3 \in a[11] \/ b - 5 \in a[12]
  <2>1. \A x \in 0 .. 12 : a[x] \in SUBSET Nat
    BY <1>2
  <2>2. QED  BY <2>1, Right, Left, SMTT(60) DEF FromZero, polyt0_unpack, |, &, Mask
<1> HIDE DEF U
<1>8. ASSUME NEW c \in 0 .. 7, NEW b \in 0 .. 12 PROVE b \in U[c] <=> b \in v[c]
  <2>1. c = 0 \/ c = 1 \/ c = 2 \/ c = 3 \/ c = 4 \/ c = 5 \/ c = 6 \/ c = 7
    OBVIOUS
  <2>2. b \in U[c] <=> InString("t0", v, 13 * c + b)
    BY <1>2, <1>7, <2>1
  <2>3. QED  BY <1>5, <2>2
<1>9. ASSUME NEW c \in 0 .. 7 PROVE U[c] = v[c]
  <2>1. U[c] \in SUBSET (0 .. 12) /\ v[c] \in SUBSET (0 .. 12)
    BY <1>3, <1>6
  <2>2. QED  BY <1>8, <2>1
<1>10. U = v
  BY <1>4, <1>6, <1>9
<1>11. QED  BY <1>10 DEF U, a

LEMMA UnpackZ18 ==
  ASSUME NEW v \in Fields("z18")
  PROVE  FromZero(polyz_unpack_18(BitPack("z18", v))) = v
<1> DEFINE a == BitPack("z18", v)
           U == FromZero(polyz_unpack_18(a))
<1>1. /\ Group("z18") = 0 .. 3 /\ Formats["z18"].group * Formats["z18"].width = 72
      /\ Formats["z18"].width = 18 /\ FF = 0 .. 7 /\ "z18" \in DOMAIN Formats
  BY FormatsAre DEF Group, FF, Mask
<1>2. \A x \in 0 .. 8 : /\ a[x] \in SUBSET (0 .. 7) /\ a[x] \in SUBSET Nat
                        /\ \A b \in 0 .. 7 : b \in a[x] <=> InString("z18", v, 8 * x + b)
  <2>1. \A x \in 0 .. Last("z18") : /\ a[x] \in SUBSET FF
                                 /\ \A b \in FF : b \in a[x] <=> InString("z18", v, 8 * x + b)
    BY <1>1, BytesOfBitPack
  <2>2. \A x \in 0 .. 8 : /\ a[x] \in SUBSET (0 .. 7)
                          /\ \A b \in 0 .. 7 : b \in a[x] <=> InString("z18", v, 8 * x + b)
    BY <1>1, <2>1, LastByte
  <2> HIDE DEF a
  <2>3. QED  BY <2>2
<1>3. \A c \in 0 .. 3 : v[c] \in SUBSET (0 .. 17)
  BY <1>1, FieldType
<1>4. v = [c \in 0 .. 3 |-> v[c]]
  BY <1>1 DEF Fields
<1>5. \A c \in 0 .. 3 : \A b \in 0 .. 17 : InString("z18", v, 18 * c + b) <=> b \in v[c]
  BY <1>1, FieldInString
<1> HIDE DEF a
<1>6. /\ U = [c \in 0 .. 3 |-> U[c]]
      /\ \A c \in 0 .. 3 : U[c] \in SUBSET (0 .. 17)
  BY <1>2, Right, Left DEF FromZero, polyz_unpack_18, &, |, Mask, \gg, \ll
<1>7. ASSUME NEW b \in 0 .. 17 PROVE
      /\ b \in U[0] <=> b \in a[0] \/ b - 8 \in a[1] \/ b - 16 \in a[2]
      /\ b \in U[1] <=> b + 2 \in a[2] \/ b - 6 \in a[3] \/ b - 14 \in a[4]
      /\ b \in U[2] <=> b + 4 \in a[4] \/ b - 4 \in a[5] \/ b - 12 \in a[6]
      /\ b \in U[3] <=> b + 6 \in a[6] \/ b - 2 \in a[7] \/ b - 10 \in a[8]
  <2>1. \A x \in 0 .. 8 : a[x] \in SUBSET Nat
    BY <1>2
  <2>2. QED  BY <2>1, Right, Left, SMTT(60) DEF FromZero, polyz_unpack_18, |, &, Mask
<1> HIDE DEF U
<1>8. ASSUME NEW c \in 0 .. 3, NEW b \in 0 .. 17 PROVE b \in U[c] <=> b \in v[c]
  <2>1. c = 0 \/ c = 1 \/ c = 2 \/ c = 3
    OBVIOUS
  <2>2. b \in U[c] <=> InString("z18", v, 18 * c + b)
    BY <1>2, <1>7, <2>1
  <2>3. QED  BY <1>5, <2>2
<1>9. ASSUME NEW c \in 0 .. 3 PROVE U[c] = v[c]
  <2>1. U[c] \in SUBSET (0 .. 17) /\ v[c] \in SUBSET (0 .. 17)
    BY <1>3, <1>6
  <2>2. QED  BY <1>8, <2>1
<1>10. U = v
  BY <1>4, <1>6, <1>9
<1>11. QED  BY <1>10 DEF U, a

LEMMA UnpackZ20 ==
  ASSUME NEW v \in Fields("z20")
  PROVE  FromZero(polyz_unpack_20(BitPack("z20", v))) = v
<1> DEFINE a == BitPack("z20", v)
           U == FromZero(polyz_unpack_20(a))
<1>1. /\ Group("z20") = 0 .. 1 /\ Formats["z20"].group * Formats["z20"].width = 40
      /\ Formats["z20"].width = 20 /\ FF = 0 .. 7 /\ "z20" \in DOMAIN Formats
  BY FormatsAre DEF Group, FF, Mask
<1>2. \A x \in 0 .. 4 : /\ a[x] \in SUBSET (0 .. 7) /\ a[x] \in SUBSET Nat
                        /\ \A b \in 0 .. 7 : b \in a[x] <=> InString("z20", v, 8 * x + b)
  <2>1. \A x \in 0 .. Last("z20") : /\ a[x] \in SUBSET FF
                                 /\ \A b \in FF : b \in a[x] <=> InString("z20", v, 8 * x + b)
    BY <1>1, BytesOfBitPack
  <2>2. \A x \in 0 .. 4 : /\ a[x] \in SUBSET (0 .. 7)
                          /\ \A b \in 0 .. 7 : b \in a[x] <=> InString("z20", v, 8 * x + b)
    BY <1>1, <2>1, LastByte
  <2> HIDE DEF a
  <2>3. QED  BY <2>2
<1>3. \A c \in 0 .. 1 : v[c] \in SUBSET (0 .. 19)
  BY <1>1, FieldType
<1>4. v = [c \in 0 .. 1 |-> v[c]]
  BY <1>1 DEF Fields
<1>5. \A c \in 0 .. 1 : \A b \in 0 .. 19 : InString("z20", v, 20 * c + b) <=> b \in v[c]
  BY <1>1, FieldInString
<1> HIDE DEF a
<1>6. /\ U = [c \in 0 .. 1 |-> U[c]]
      /\ \A c \in 0 .. 1 : U[c] \in SUBSET (0 .. 19)
  BY <1>2, Right, Left DEF FromZero, polyz_unpack_20, &, |, Mask, \gg, \ll
<1>7. ASSUME NEW b \in 0 .. 19 PROVE
      /\ b \in U[0] <=> b \in a[0] \/ b - 8 \in a[1] \/ b - 16 \in a[2]
      /\ b \in U[1] <=> b + 4 \in a[2] \/ b - 4 \in a[3] \/ b - 12 \in a[4]
  <2>1. \A x \in 0 .. 4 : a[x] \in SUBSET Nat
    BY <1>2
  <2>2. QED  BY <2>1, Right, Left, SMTT(60) DEF FromZero, polyz_unpack_20, |, &, Mask
<1> HIDE DEF U
<1>8. ASSUME NEW c \in 0 .. 1, NEW b \in 0 .. 19 PROVE b \in U[c] <=> b \in v[c]
  <2>1. c = 0 \/ c = 1
    OBVIOUS
  <2>2. b \in U[c] <=> InString("z20", v, 20 * c + b)
    BY <1>2, <1>7, <2>1
  <2>3. QED  BY <1>5, <2>2
<1>9. ASSUME NEW c \in 0 .. 1 PROVE U[c] = v[c]
  <2>1. U[c] \in SUBSET (0 .. 19) /\ v[c] \in SUBSET (0 .. 19)
    BY <1>3, <1>6
  <2>2. QED  BY <1>8, <2>1
<1>10. U = v
  BY <1>4, <1>6, <1>9
<1>11. QED  BY <1>10 DEF U, a

\* The fields stay what they were.
PackingType ==
  /\ ppc \in {"pack", "packed", "unpacked"}
  /\ format \in DOMAIN Formats /\ t \in Fields(format)

PackingInv == PackingType /\ FieldsInPlace

LEMMA PackKeepsPlace ==
  ASSUME PackingInv, Pack
  PROVE  PackingInv'
<1>1. r' = BitPack(format, t)
  <2>1. \/ format = "eta2" \/ format = "eta4" \/ format = "t1" \/ format = "t0"
        \/ format = "z18" \/ format = "z20" \/ format = "w6" \/ format = "w4"
    BY FormatsAre DEF PackingInv, PackingType
  <2>2. t \in Fields(format)
    BY DEF PackingInv, PackingType
  <2>3. CASE format = "eta2"  BY <2>2, <2>3, PackEta2 DEF Pack
  <2>4. CASE format = "eta4"  BY <2>2, <2>4, PackEta4 DEF Pack
  <2>5. CASE format = "t1"  BY <2>2, <2>5, PackT1 DEF Pack
  <2>6. CASE format = "t0"  BY <2>2, <2>6, PackT0 DEF Pack
  <2>7. CASE format = "z18"  BY <2>2, <2>7, PackZ18 DEF Pack
  <2>8. CASE format = "z20"  BY <2>2, <2>8, PackZ20 DEF Pack
  <2>9. CASE format = "w6"  BY <2>2, <2>9, PackW6 DEF Pack
  <2>10. CASE format = "w4"  BY <2>2, <2>10, PackW4 DEF Pack
  <2>11. QED
    BY <2>1, <2>3, <2>4, <2>5, <2>6, <2>7, <2>8, <2>9, <2>10
<1>2. QED  BY <1>1 DEF Pack, PackingInv, PackingType, FieldsInPlace

LEMMA UnpackFindsFields ==
  ASSUME PackingInv, Unpack
  PROVE  PackingInv'
<1>1. u' = t
  <2>1. \/ format = "eta2" \/ format = "eta4" \/ format = "t1" \/ format = "t0"
        \/ format = "z18" \/ format = "z20"
    BY FormatsAre DEF PackingInv, PackingType, Unpack
  <2>2. t \in Fields(format) /\ r = BitPack(format, t)
    BY DEF PackingInv, PackingType, FieldsInPlace, Unpack
  <2>3. CASE format = "eta2"  BY <2>2, <2>3, UnpackEta2 DEF Unpack
  <2>4. CASE format = "eta4"  BY <2>2, <2>4, UnpackEta4 DEF Unpack
  <2>5. CASE format = "t1"  BY <2>2, <2>5, UnpackT1 DEF Unpack
  <2>6. CASE format = "t0"  BY <2>2, <2>6, UnpackT0 DEF Unpack
  <2>7. CASE format = "z18"  BY <2>2, <2>7, UnpackZ18 DEF Unpack
  <2>8. CASE format = "z20"  BY <2>2, <2>8, UnpackZ20 DEF Unpack
  <2>9. QED  BY <2>1, <2>3, <2>4, <2>5, <2>6, <2>7, <2>8
<1>2. QED  BY <1>1 DEF Unpack, PackingInv, PackingType, FieldsInPlace

\* mld_poly*_pack writes the string of bits of FIPS 204 and mld_poly*_unpack finds every
\* coefficient in it, in every format and for every value of the coefficients.
THEOREM EveryFieldInPlace == PackingSpec => []FieldsInPlace
<1>1. PackingInit => PackingInv
  BY PackingAssumption DEF PackingInit, PackingInv, PackingType, FieldsInPlace
<1>2. PackingInv /\ [PackingNext]_pvars => PackingInv'
  <2>1. ASSUME PackingInv, UNCHANGED pvars PROVE PackingInv'
    BY <2>1 DEF pvars, PackingInv, PackingType, FieldsInPlace
  <2>2. QED  BY <2>1, PackKeepsPlace, UnpackFindsFields DEF PackingNext
<1>3. PackingInv => FieldsInPlace
  BY DEF PackingInv
<1>4. QED  BY <1>1, <1>2, <1>3, PTL DEF PackingSpec
-------------------------------------------------------------------------------
\* The parameter sets of params.h.
LEMMA ModeFact ==
  ASSUME mode \in Modes
  PROVE  /\ \/ mode = 2 /\ MLDSA_K = 4 /\ MLDSA_L = 4
            \/ mode = 3 /\ MLDSA_K = 6 /\ MLDSA_L = 5
            \/ mode = 5 /\ MLDSA_K = 8 /\ MLDSA_L = 7
         /\ MLDSA_K \in Nat /\ MLDSA_L \in Nat /\ MLDSA_K >= 1 /\ MLDSA_L >= 1
<1>1. mode = 2 \/ mode = 3 \/ mode = 5
  BY ModeAssumption
<1>2. CASE mode = 2
  BY <1>2 DEF MLDSA_K, MLDSA_L
<1>3. CASE mode = 3
  BY <1>3 DEF MLDSA_K, MLDSA_L
<1>4. CASE mode = 5
  BY <1>4 DEF MLDSA_K, MLDSA_L
<1>5. QED  BY <1>1, <1>2, <1>3, <1>4

-------------------------------------------------------------------------------
(***************************************************************************)
(* The layout of keys: fields that are as long as the pointer moves on.    *)
(***************************************************************************)
IsField(fd) == fd.n \in Nat /\ fd.n >= 1 /\ fd.len \in Nat /\ fd.len >= 1 /\ fd.advance = fd.n * fd.len

Layout(s) == Len(s) \in 1 .. 6 /\ \A f \in 1 .. Len(s) : IsField(s[f])

OffsetsAre(s, o) == o = [f \in 1 .. Len(s) |-> IF f = 1 THEN 0 ELSE o[f - 1] + s[f - 1].advance]

LEMMA OffsetsExist ==
  ASSUME NEW s, Layout(s)
  PROVE  OffsetsAre(s, Offsets(s))
<1> DEFINE n == Len(s)
           a(f) == s[f].advance
           g == [f \in 1 .. n |-> IF f = 1 THEN 0 ELSE IF f = 2 THEN 0 + a(1)
                   ELSE IF f = 3 THEN (0 + a(1)) + a(2)
                   ELSE IF f = 4 THEN ((0 + a(1)) + a(2)) + a(3)
                   ELSE IF f = 5 THEN (((0 + a(1)) + a(2)) + a(3)) + a(4)
                   ELSE ((((0 + a(1)) + a(2)) + a(3)) + a(4)) + a(5)]
<1>1. n \in 1 .. 6
  BY DEF Layout
<1>2. ASSUME NEW f \in 1 .. n
      PROVE  g[f] = IF f = 1 THEN 0 ELSE g[f - 1] + a(f - 1)
  <2> HIDE DEF n, a
  <2>1. f = 1 \/ f = 2 \/ f = 3 \/ f = 4 \/ f = 5 \/ f = 6
    BY <1>1
  <2>2. \A e \in 1 .. n : g[e] =
          (IF e = 1 THEN 0 ELSE IF e = 2 THEN 0 + a(1)
                   ELSE IF e = 3 THEN (0 + a(1)) + a(2)
                   ELSE IF e = 4 THEN ((0 + a(1)) + a(2)) + a(3)
                   ELSE IF e = 5 THEN (((0 + a(1)) + a(2)) + a(3)) + a(4)
                   ELSE ((((0 + a(1)) + a(2)) + a(3)) + a(4)) + a(5))
    OBVIOUS
  <2>3. f # 1 => f - 1 \in 1 .. n
    BY <1>1
  <2> HIDE DEF g
  <2>4. CASE f = 1  BY <2>2, <2>4
  <2>5. CASE f = 2  BY <2>2, <2>3, <2>5
  <2>6. CASE f = 3  BY <2>2, <2>3, <2>6
  <2>7. CASE f = 4  BY <2>2, <2>3, <2>7
  <2>8. CASE f = 5  BY <2>2, <2>3, <2>8
  <2>9. CASE f = 6  BY <2>2, <2>3, <2>9
  <2> QED  BY <2>1, <2>4, <2>5, <2>6, <2>7, <2>8, <2>9
<1>3. OffsetsAre(s, g)
  <2> DEFINE built == [f \in 1 .. n |-> IF f = 1 THEN 0 ELSE g[f - 1] + a(f - 1)]
  <2>1. \A f \in 1 .. n : g[f] = built[f]
    <3> HIDE DEF g
    <3> QED  BY <1>2
  <2>2. g = built
    BY <2>1
  <2> QED  BY <2>2 DEF OffsetsAre
<1> HIDE DEF g
<1>4. Offsets(s) = CHOOSE o : OffsetsAre(s, o)
  BY DEF Offsets, OffsetsAre
<1> QED  BY <1>3, <1>4

LEMMA OffsetsFact ==
  ASSUME NEW s, Layout(s)
  PROVE  /\ \A f \in 1 .. Len(s) : Offsets(s)[f] \in Nat
         /\ Offsets(s)[1] = 0
         /\ \A f \in 1 .. Len(s) - 1 : Offsets(s)[f + 1] = Offsets(s)[f] + s[f].advance
<1> DEFINE o == Offsets(s)
           n == Len(s)
<1>1. n \in 1 .. 6 /\ \A f \in 1 .. n : s[f].advance \in Nat
  BY DEF Layout, IsField
<1>2. o = [f \in 1 .. n |-> IF f = 1 THEN 0 ELSE o[f - 1] + s[f - 1].advance]
  BY OffsetsExist DEF OffsetsAre
<1> HIDE DEF o, n
<1>3. \A f \in 1 .. n : o[f] = IF f = 1 THEN 0 ELSE o[f - 1] + s[f - 1].advance
  BY <1>2
<1>4. o[1] = 0
  BY <1>1, <1>3
<1>5. ASSUME NEW f \in 1 .. n - 1
      PROVE  o[f + 1] = o[f] + s[f].advance
  <2>1. f + 1 \in 1 .. n /\ f + 1 # 1 /\ (f + 1) - 1 = f
    BY <1>1
  <2> QED  BY <1>3, <2>1
<1>6. \A f \in 1 .. n : o[f] \in Nat
  <2>1. o[1] \in Nat  BY <1>4
  <2>2. n >= 2 => o[2] \in Nat  BY <1>1, <1>5, <2>1
  <2>3. n >= 3 => o[3] \in Nat  BY <1>1, <1>5, <2>2
  <2>4. n >= 4 => o[4] \in Nat  BY <1>1, <1>5, <2>3
  <2>5. n >= 5 => o[5] \in Nat  BY <1>1, <1>5, <2>4
  <2>6. n >= 6 => o[6] \in Nat  BY <1>1, <1>5, <2>5
  <2>7. \A f \in 1 .. n : f = 1 \/ f = 2 \/ f = 3 \/ f = 4 \/ f = 5 \/ f = 6
    BY <1>1
  <2> QED  BY <1>1, <2>1, <2>2, <2>3, <2>4, <2>5, <2>6, <2>7
<1> QED  BY <1>4, <1>5, <1>6 DEF o, n

\* A field ends before the next ones begin.
LEMMA OffsetsRise ==
  ASSUME NEW s, Layout(s), NEW f \in 1 .. Len(s), NEW g \in 1 .. Len(s), f < g
  PROVE  Offsets(s)[f] + s[f].advance <= Offsets(s)[g]
<1> DEFINE o == Offsets(s)
           n == Len(s)
           a(m) == s[m].advance
<1>1. n \in 1 .. 6 /\ \A m \in 1 .. n : a(m) \in Nat
  BY DEF Layout, IsField
<1>2. \A m \in 1 .. n - 1 : o[m + 1] = o[m] + a(m)
  BY OffsetsFact
<1>3. \A m \in 1 .. n : o[m] \in Nat
  BY OffsetsFact
<1> HIDE DEF o, n, a
<1>n. f \in 1 .. n /\ g \in 1 .. n
  BY DEF n
<1>4. \A m \in 1 .. n - 1 : o[m] <= o[m + 1] /\ m + 1 \in 1 .. n /\ m \in 1 .. n
  BY <1>1, <1>2, <1>3
<1>5. f \in 1 .. n - 1 /\ o[f + 1] = o[f] + a(f)
  BY <1>1, <1>2, <1>n
<1>6. o[f + 1] <= o[g]
  <2>1. f + 1 = g \/ f + 2 = g \/ f + 3 = g \/ f + 4 = g \/ f + 5 = g
    BY <1>1, <1>n
  <2>2. \A m \in 1 .. n - 2 : o[m] <= o[m + 2]
    <3> SUFFICES ASSUME NEW m \in 1 .. n - 2 PROVE o[m] <= o[m + 2]
      OBVIOUS
    <3>1. m \in 1 .. n - 1 /\ m + 1 \in 1 .. n - 1 /\ (m + 1) + 1 = m + 2
      BY <1>1
    <3>2. o[m] <= o[m + 1] /\ o[m + 1] <= o[m + 2]
      BY <1>4, <3>1
    <3>3. o[m] \in Nat /\ o[m + 1] \in Nat /\ o[m + 2] \in Nat
      BY <1>3, <1>1
    <3> QED  BY <3>2, <3>3
  <2>3. CASE f + 1 = g
    BY <1>3, <1>n, <2>3
  <2>4. CASE f + 2 = g
    <3>1. f + 1 \in 1 .. n - 1 /\ (f + 1) + 1 = g  BY <1>1, <1>n, <2>4
    <3> QED  BY <1>4, <3>1
  <2>5. CASE f + 3 = g
    <3>1. f + 1 \in 1 .. n - 2 /\ (f + 1) + 2 = g  BY <1>1, <1>n, <2>5
    <3> QED  BY <2>2, <3>1
  <2>6. CASE f + 4 = g
    <3>1. f + 1 \in 1 .. n - 2 /\ (f + 1) + 2 = f + 3 /\ f + 3 \in 1 .. n - 1 /\ (f + 3) + 1 = g
      BY <1>1, <1>n, <2>6
    <3>2. o[f + 1] <= o[f + 3] /\ o[f + 3] <= o[g]
      BY <1>4, <2>2, <3>1
    <3>3. o[f + 1] \in Nat /\ o[f + 3] \in Nat /\ o[g] \in Nat
      BY <1>3, <1>1, <1>n, <2>6
    <3> QED  BY <3>2, <3>3
  <2>7. CASE f + 5 = g
    <3>1. f + 1 \in 1 .. n - 2 /\ (f + 1) + 2 = f + 3 /\ f + 3 \in 1 .. n - 2 /\ (f + 3) + 2 = g
      BY <1>1, <1>n, <2>7
    <3>2. o[f + 1] <= o[f + 3] /\ o[f + 3] <= o[g]
      BY <2>2, <3>1
    <3>3. o[f + 1] \in Nat /\ o[f + 3] \in Nat /\ o[g] \in Nat
      BY <1>3, <1>1, <1>n, <2>7
    <3> QED  BY <3>2, <3>3
  <2> QED  BY <2>1, <2>3, <2>4, <2>5, <2>6, <2>7
<1> QED  BY <1>5, <1>6 DEF o, a

\* Item e of field f.
Piece(s, f, e) ==
  [at |-> Offsets(s)[f] + e * s[f].len, len |-> s[f].len, item |-> <<s[f].name, e>>]

LEMMA PieceOf ==
  ASSUME NEW s, NEW p
  PROVE  p \in Pieces(s) <=> \E f \in 1 .. Len(s) : \E e \in 0 .. s[f].n - 1 : p = Piece(s, f, e)
BY DEF Pieces, Items, Piece

LEMMA FieldFact ==
  ASSUME NEW s, Layout(s), NEW f \in 1 .. Len(s)
  PROVE  /\ Offsets(s)[f] \in Nat
         /\ s[f].n \in Nat /\ s[f].n >= 1 /\ s[f].len \in Nat /\ s[f].len >= 1
         /\ s[f].advance = s[f].n * s[f].len /\ s[f].advance \in Nat
<1>1. Offsets(s)[f] \in Nat
  BY OffsetsFact
<1>2. IsField(s[f])
  BY DEF Layout
<1> QED  BY <1>1, <1>2 DEF IsField

LEMMA NextMultiple ==
  ASSUME NEW e \in Nat, NEW d \in Nat, NEW l \in Nat, e < d
  PROVE  e * l \in Nat /\ d * l \in Nat /\ e * l + l <= d * l
<1>1. PICK m \in Nat : d = e + 1 + m
  <2>1. d - e - 1 \in Nat /\ d = e + 1 + (d - e - 1)
    OBVIOUS
  <2> QED  BY <2>1
<1>2. d * l = e * l + l + m * l
  BY <1>1
<1>3. e * l \in Nat /\ m * l \in Nat /\ d * l \in Nat
  BY <1>1
<1>4. PICK eu \in Nat, w \in Nat, z \in Nat : eu = e * l /\ w = m * l /\ z = d * l
  BY <1>3
<1>5. z = eu + l + w
  BY <1>2, <1>4
<1> QED  BY <1>4, <1>5

\* Where a piece lies within its field.
LEMMA PieceFact ==
  ASSUME NEW s, Layout(s), NEW f \in 1 .. Len(s), NEW e \in 0 .. s[f].n - 1
  PROVE  LET p == Piece(s, f, e)
         IN  /\ p.at \in Nat /\ p.len \in Nat /\ p.len >= 1
             /\ Offsets(s)[f] <= p.at
             /\ p.at + p.len <= Offsets(s)[f] + s[f].advance
<1>1. PICK o \in Nat, n \in Nat, len \in Nat :
        o = Offsets(s)[f] /\ n = s[f].n /\ len = s[f].len /\ len >= 1 /\ s[f].advance = n * len
  BY FieldFact
<1>2. e \in Nat /\ e < n
  BY <1>1
<1>3. e * len \in Nat /\ n * len \in Nat /\ e * len + len <= n * len
  BY <1>1, <1>2, NextMultiple
<1>4. PICK eu \in Nat, z \in Nat : eu = e * len /\ z = n * len
  BY <1>3
<1>5. Piece(s, f, e).at = o + eu /\ Piece(s, f, e).len = len
  BY <1>1, <1>4 DEF Piece
<1>6. eu + len <= z /\ len >= 1
  BY <1>1, <1>3, <1>4
<1>7. o + eu \in Nat /\ o <= o + eu /\ (o + eu) + len <= o + z
  BY ONLY <1>6, o \in Nat, eu \in Nat, z \in Nat, len \in Nat
<1> QED  BY <1>1, <1>4, <1>5, <1>6, <1>7

Disjoint(p, q) == p.at + p.len <= q.at \/ q.at + q.len <= p.at

\* Two items of a field do not meet.
LEMMA ItemsApart ==
  ASSUME NEW s, Layout(s), NEW f \in 1 .. Len(s),
         NEW e \in 0 .. s[f].n - 1, NEW d \in 0 .. s[f].n - 1, e < d
  PROVE  Piece(s, f, e).at + Piece(s, f, e).len <= Piece(s, f, d).at
<1>1. PICK o \in Nat, n \in Nat, len \in Nat : o = Offsets(s)[f] /\ n = s[f].n /\ len = s[f].len
  BY FieldFact
<1>2. e \in Nat /\ d \in Nat
  BY <1>1
<1>3. e * len \in Nat /\ d * len \in Nat /\ e * len + len <= d * len
  BY <1>1, <1>2, NextMultiple
<1>4. PICK eu \in Nat, z \in Nat : eu = e * len /\ z = d * len
  BY <1>3
<1>5. /\ Piece(s, f, e).at = o + eu /\ Piece(s, f, e).len = len
      /\ Piece(s, f, d).at = o + z
  BY <1>1, <1>4 DEF Piece
<1>6. eu + len <= z
  BY <1>3, <1>4
<1>7. (o + eu) + len <= o + z
  BY ONLY <1>6, o \in Nat, eu \in Nat, z \in Nat, len \in Nat
<1> QED  BY <1>5, <1>7

LEMMA PiecesApart ==
  ASSUME NEW s, Layout(s), NEW p \in Pieces(s), NEW q \in Pieces(s), p # q
  PROVE  Disjoint(p, q)
<1>1. PICK f \in 1 .. Len(s) : \E e \in 0 .. s[f].n - 1 : p = Piece(s, f, e)
  BY PieceOf
<1>2. PICK e \in 0 .. s[f].n - 1 : p = Piece(s, f, e)
  BY <1>1
<1>3. PICK g \in 1 .. Len(s) : \E d \in 0 .. s[g].n - 1 : q = Piece(s, g, d)
  BY PieceOf
<1>4. PICK d \in 0 .. s[g].n - 1 : q = Piece(s, g, d)
  BY <1>3
<1>5. f \in Int /\ g \in Int /\ e \in Int /\ d \in Int
  BY DEF Layout
<1>6. /\ p.at \in Nat /\ p.len \in Nat /\ Offsets(s)[f] <= p.at
      /\ p.at + p.len <= Offsets(s)[f] + s[f].advance
      /\ q.at \in Nat /\ q.len \in Nat /\ Offsets(s)[g] <= q.at
      /\ q.at + q.len <= Offsets(s)[g] + s[g].advance
  BY <1>2, <1>4, PieceFact
<1>7. /\ Offsets(s)[f] \in Nat /\ Offsets(s)[g] \in Nat
      /\ s[f].advance \in Nat /\ s[g].advance \in Nat
  BY FieldFact
<1>8. CASE f < g
  <2>1. Offsets(s)[f] + s[f].advance <= Offsets(s)[g]
    BY <1>8, OffsetsRise
  <2>2. p.at + p.len <= q.at
    <3>1. PICK a \in Int : a = p.at  BY <1>6
    <3>2. PICK l \in Int : l = p.len  BY <1>6
    <3>3. PICK o \in Int : o = Offsets(s)[f]  BY <1>7
    <3>4. PICK w \in Int : w = s[f].advance  BY <1>7
    <3>5. PICK b \in Int : b = Offsets(s)[g]  BY <1>7
    <3>6. PICK c \in Int : c = q.at  BY <1>6
    <3>7. a + l <= o + w /\ o + w <= b /\ b <= c
      BY <1>6, <2>1, <3>1, <3>2, <3>3, <3>4, <3>5, <3>6
    <3>8. a + l <= c
      BY ONLY <3>7, a \in Int, l \in Int, o \in Int, w \in Int, b \in Int, c \in Int
    <3>9. QED  BY <3>1, <3>2, <3>6, <3>8
  <2> QED  BY <2>2 DEF Disjoint
<1>9. CASE g < f
  <2>1. Offsets(s)[g] + s[g].advance <= Offsets(s)[f]
    BY <1>9, OffsetsRise
  <2>2. q.at + q.len <= p.at
    <3>1. PICK a \in Int : a = q.at  BY <1>6
    <3>2. PICK l \in Int : l = q.len  BY <1>6
    <3>3. PICK o \in Int : o = Offsets(s)[g]  BY <1>7
    <3>4. PICK w \in Int : w = s[g].advance  BY <1>7
    <3>5. PICK b \in Int : b = Offsets(s)[f]  BY <1>7
    <3>6. PICK c \in Int : c = p.at  BY <1>6
    <3>7. a + l <= o + w /\ o + w <= b /\ b <= c
      BY <1>6, <2>1, <3>1, <3>2, <3>3, <3>4, <3>5, <3>6
    <3>8. a + l <= c
      BY ONLY <3>7, a \in Int, l \in Int, o \in Int, w \in Int, b \in Int, c \in Int
    <3>9. QED  BY <3>1, <3>2, <3>6, <3>8
  <2> QED  BY <2>2 DEF Disjoint
<1>10. CASE f = g
  <2>1. e # d
    BY <1>2, <1>4, <1>10
  <2>2. CASE e < d
    BY <1>2, <1>4, <1>10, <2>2, ItemsApart DEF Disjoint
  <2>3. CASE d < e
    BY <1>2, <1>4, <1>10, <2>3, ItemsApart DEF Disjoint
  <2> QED  BY <1>5, <2>1, <2>2, <2>3
<1> QED  BY <1>5, <1>8, <1>9, <1>10

\* The pieces fill a buffer that ends with the last field.
LEMMA PiecesFill ==
  ASSUME NEW s, Layout(s), NEW size, size = Offsets(s)[Len(s)] + s[Len(s)].advance
  PROVE  Fill(Pieces(s), size) /\ Pieces(s) # {}
<1> DEFINE n == Len(s)
<1>1. n \in 1 .. 6 /\ n \in 1 .. n /\ 1 \in 1 .. n
  <2>1. n \in 1 .. 6
    BY DEF Layout
  <2> HIDE DEF n
  <2> QED  BY <2>1
<1>2. /\ Offsets(s)[n] \in Nat /\ s[n].advance \in Nat /\ size \in Nat
  <2>1. n \in 1 .. Len(s) /\ IsField(s[n])
    BY <1>1 DEF Layout
  <2>2. Offsets(s)[n] \in Nat
    BY <1>1, <2>1, OffsetsFact
  <2>3. s[n].n \in Nat /\ s[n].len \in Nat /\ s[n].advance = s[n].n * s[n].len
    BY <2>1 DEF IsField
  <2>4. s[n].advance \in Nat
    BY <2>3
  <2> QED  BY <2>2, <2>4
<1>3. ASSUME NEW p \in Pieces(s)
      PROVE  /\ p.at \in 0 .. size - 1
             /\ p.at + p.len = size \/ \E q \in Pieces(s) : q.at = p.at + p.len
  <2>1. PICK f \in 1 .. n : \E e \in 0 .. s[f].n - 1 : p = Piece(s, f, e)
    BY PieceOf
  <2>2. PICK e \in 0 .. s[f].n - 1 : p = Piece(s, f, e)
    BY <2>1
  <2>3. /\ p.at \in Nat /\ p.len \in Nat /\ p.len >= 1
        /\ p.at + p.len <= Offsets(s)[f] + s[f].advance
    BY <2>2, PieceFact
  <2>4. f \in Int /\ Offsets(s)[f] \in Nat /\ IsField(s[f])
    BY OffsetsFact, <1>1 DEF Layout
  <2>5. s[f].advance \in Nat /\ s[f].n \in Nat /\ s[f].len \in Nat /\ e \in Int
    BY <2>4 DEF IsField
  <2>6. Offsets(s)[f] + s[f].advance <= size
    <3>1. CASE f = n  BY <1>2, <3>1
    <3>2. CASE f < n
      <4>1. Offsets(s)[f] + s[f].advance <= Offsets(s)[n]
        BY <1>1, <3>2, OffsetsRise
      <4> QED  BY <1>2, <2>4, <2>5, <4>1
    <3> QED  BY <1>1, <2>4, <3>1, <3>2
  <2>7. p.at \in 0 .. size - 1
    BY <1>2, <2>3, <2>4, <2>5, <2>6
  <2>8. CASE e < s[f].n - 1
    <3>1. e + 1 \in 0 .. s[f].n - 1
      BY <2>5, <2>8
    <3>2. Piece(s, f, e + 1) \in Pieces(s)
      BY <3>1, PieceOf
    <3>3. Piece(s, f, e + 1).at = p.at + p.len
      <4>1. PICK o \in Nat, len \in Nat : o = Offsets(s)[f] /\ len = s[f].len
        BY <2>4, <2>5
      <4>2. (e + 1) * len = e * len + len /\ e * len \in Int
        BY <2>5, <4>1
      <4>3. p.at = o + e * len /\ p.len = len /\ Piece(s, f, e + 1).at = o + (e + 1) * len
        BY <2>2, <4>1 DEF Piece
      <4>4. PICK x \in Int : x = e * len
        BY <4>2
      <4>5. p.at = o + x /\ p.len = len /\ Piece(s, f, e + 1).at = o + (x + len)
        BY <4>2, <4>3, <4>4
      <4>6. o + (x + len) = (o + x) + len
        BY ONLY o \in Nat, len \in Nat, x \in Int
      <4> QED  BY <4>5, <4>6
    <3> QED  BY <2>7, <3>2, <3>3
  <2>9. CASE e = s[f].n - 1
    <3>1. p.at + p.len = Offsets(s)[f] + s[f].advance
      <4>1. PICK o \in Nat, len \in Nat, m \in Nat : o = Offsets(s)[f] /\ len = s[f].len /\ m = s[f].n
        BY <2>4, <2>5
      <4>2. (m - 1) * len = m * len - len /\ m * len \in Int
        BY <4>1
      <4>3. p.at = o + (m - 1) * len /\ p.len = len /\ s[f].advance = m * len
        BY <2>2, <2>4, <2>9, <4>1 DEF Piece, IsField
      <4>4. PICK x \in Int : x = m * len
        BY <4>2
      <4>5. p.at = o + (x - len) /\ p.len = len /\ s[f].advance = x
        BY <4>2, <4>3, <4>4
      <4>6. (o + (x - len)) + len = o + x
        BY ONLY o \in Nat, len \in Nat, x \in Int
      <4> QED  BY <4>1, <4>5, <4>6
    <3>2. CASE f = n
      BY <2>7, <3>1, <3>2
    <3>3. CASE f < n
      <4>1. f + 1 \in 1 .. n /\ f \in 1 .. n - 1
        BY <1>1, <2>4, <3>3
      <4>2. Offsets(s)[f + 1] = Offsets(s)[f] + s[f].advance
        BY <4>1, OffsetsFact
      <4>3. s[f + 1].n \in Nat /\ s[f + 1].n >= 1 /\ s[f + 1].len \in Nat
        BY <4>1 DEF Layout, IsField
      <4>4. 0 \in 0 .. s[f + 1].n - 1
        BY <4>3
      <4>5. Piece(s, f + 1, 0) \in Pieces(s)
        BY <4>1, <4>4, PieceOf
      <4>6. Piece(s, f + 1, 0).at = Offsets(s)[f + 1]
        <5>1. Piece(s, f + 1, 0).at = Offsets(s)[f + 1] + 0 * s[f + 1].len
          BY DEF Piece
        <5>2. Offsets(s)[f + 1] \in Nat
          BY <4>1, OffsetsFact
        <5> QED  BY <4>3, <5>1, <5>2
      <4> QED  BY <2>7, <3>1, <4>2, <4>5, <4>6
    <3> QED  BY <1>1, <2>4, <3>2, <3>3
  <2> QED  BY <2>5, <2>8, <2>9
<1>4. \A p, q \in Pieces(s) : p # q => p.at + p.len <= q.at \/ q.at + q.len <= p.at
  BY PiecesApart DEF Disjoint
<1>5. \E p \in Pieces(s) : p.at = 0
  <2>1. s[1].n \in Nat /\ s[1].n >= 1 /\ s[1].len \in Nat
    BY <1>1 DEF Layout, IsField
  <2>2. 0 \in 0 .. s[1].n - 1
    BY <2>1
  <2>3. Piece(s, 1, 0) \in Pieces(s)
    BY <1>1, <2>2, PieceOf
  <2>4. Piece(s, 1, 0).at = 0
    <3>1. Piece(s, 1, 0).at = Offsets(s)[1] + 0 * s[1].len
      BY DEF Piece
    <3>2. Offsets(s)[1] = 0
      BY OffsetsFact
    <3> QED  BY <2>1, <3>1, <3>2
  <2> QED  BY <2>3, <2>4
<1>6. Fill(Pieces(s), size)
  BY <1>3, <1>4, <1>5 DEF Fill
<1> QED  BY <1>5, <1>6

\* Read back with the same fields, every item is found in its own place.
LEMMA ReadBack ==
  ASSUME NEW s, Layout(s)
  PROVE  Read(Pieces(s), s) = {<<p.item, p.item>> : p \in Pieces(s)}
<1> DEFINE B == Pieces(s)
           same == {rp \in B \X B : rp[1].at = rp[2].at /\ rp[1].len = rp[2].len}
<1>1. ASSUME NEW p0 \in B, NEW p \in B, p0.at = p.at
      PROVE  p0 = p
  <2>1. PICK f \in 1 .. Len(s) : \E e \in 0 .. s[f].n - 1 : p0 = Piece(s, f, e)
    BY PieceOf
  <2>2. p0.at \in Nat /\ p0.len \in Nat /\ p0.len >= 1
    BY <2>1, PieceFact
  <2>3. PICK g \in 1 .. Len(s) : \E e \in 0 .. s[g].n - 1 : p = Piece(s, g, e)
    BY PieceOf
  <2>4. p.at \in Nat /\ p.len \in Nat /\ p.len >= 1
    BY <2>3, PieceFact
  <2>5. ~Disjoint(p0, p)
    BY <1>1, <2>2, <2>4 DEF Disjoint
  <2> QED  BY <2>5, PiecesApart
<1>2. Read(B, s) = {<<rp[1].item, rp[2].item>> : rp \in same}
  BY DEF Read
<1>3. ASSUME NEW rp \in same
      PROVE  \E p \in B : <<rp[1].item, rp[2].item>> = <<p.item, p.item>>
  <2>1. rp[1] \in B /\ rp[2] \in B /\ rp[1].at = rp[2].at
    OBVIOUS
  <2>2. rp[1] = rp[2]
    BY <1>1, <2>1
  <2> QED  BY <2>1, <2>2
<1>4. ASSUME NEW p \in B
      PROVE  \E rp \in same : <<p.item, p.item>> = <<rp[1].item, rp[2].item>>
  <2>1. <<p, p>> \in same
    OBVIOUS
  <2> QED  BY <2>1
<1> HIDE DEF B, same
<1> QED  BY <1>2, <1>3, <1>4 DEF B

LEMMA FieldIs ==
  ASSUME NEW name, NEW n \in Nat, NEW len \in Nat, n >= 1, len >= 1
  PROVE  /\ IsField(Field(name, n, len, n * len))
         /\ Field(name, n, len, n * len).advance = n * len
BY DEF IsField, Field

LEMMA BytesAre ==
  ASSUME NEW name, NEW len \in Nat, len >= 1
  PROVE  IsField(ByteField(name, len)) /\ ByteField(name, len).advance = len
BY DEF IsField, Field, ByteField

LEMMA EtaBytes == POLYETA_PACKEDBYTES \in Nat /\ POLYETA_PACKEDBYTES >= 1
BY DEF POLYETA_PACKEDBYTES

LEMMA PublicKeyLayout ==
  ASSUME mode \in Modes
  PROVE  Fill(Pieces(PkFields), CRYPTO_PUBLICKEYBYTES) /\ Pieces(PkFields) # {} /\ Layout(PkFields)
<1> DEFINE s == PkFields
           m == MLDSA_K
<1>1. m \in Nat /\ m >= 1
  BY ModeFact
<1> HIDE DEF m
<1>2. /\ IsField(ByteField("rho", SEEDBYTES)) /\ ByteField("rho", SEEDBYTES).advance = 32
      /\ IsField(Field("t1", m, POLYT1_PACKEDBYTES, m * POLYT1_PACKEDBYTES))
      /\ Field("t1", m, POLYT1_PACKEDBYTES, m * POLYT1_PACKEDBYTES).advance = m * 320
  BY <1>1, FieldIs, BytesAre DEF SEEDBYTES, POLYT1_PACKEDBYTES
<1>3. s = <<ByteField("rho", SEEDBYTES), Field("t1", m, POLYT1_PACKEDBYTES, m * POLYT1_PACKEDBYTES)>>
  BY DEF PkFields, m
<1>4. /\ Len(s) = 2
      /\ s[1] = ByteField("rho", SEEDBYTES)
      /\ s[2] = Field("t1", m, POLYT1_PACKEDBYTES, m * POLYT1_PACKEDBYTES)
  BY <1>3
<1> HIDE DEF s
<1>5. Layout(s)
  BY <1>2, <1>4 DEF Layout
<1>6. Offsets(s)[1] = 0 /\ Offsets(s)[2] = Offsets(s)[1] + s[1].advance
  <2>1. 1 \in 1 .. Len(s) - 1
    BY <1>4
  <2> QED  BY <1>5, <2>1, OffsetsFact
<1>7. Offsets(s)[2] + s[2].advance = 32 + m * 320
  BY <1>1, <1>2, <1>4, <1>6
<1>8. CRYPTO_PUBLICKEYBYTES = 32 + m * 320
  BY DEF CRYPTO_PUBLICKEYBYTES, SEEDBYTES, POLYT1_PACKEDBYTES, m
<1>9. CRYPTO_PUBLICKEYBYTES = Offsets(s)[Len(s)] + s[Len(s)].advance
  BY <1>4, <1>7, <1>8
<1>10. Fill(Pieces(s), CRYPTO_PUBLICKEYBYTES) /\ Pieces(s) # {}
  BY <1>5, <1>9, PiecesFill
<1> QED  BY <1>5, <1>10 DEF s

LEMMA SecretKeyLayout ==
  ASSUME mode \in Modes
  PROVE  Fill(Pieces(SkFields), CRYPTO_SECRETKEYBYTES) /\ Pieces(SkFields) # {} /\ Layout(SkFields)
<1> DEFINE s == SkFields
           m == MLDSA_K
           l == MLDSA_L
           eta == POLYETA_PACKEDBYTES
<1>1. m \in Nat /\ m >= 1 /\ l \in Nat /\ l >= 1 /\ eta \in Nat /\ eta >= 1
  BY ModeFact, EtaBytes
<1> HIDE DEF m, l, eta
<1> DEFINE f1 == ByteField("rho", SEEDBYTES)
           f2 == ByteField("key", SEEDBYTES)
           f3 == ByteField("tr", TRBYTES)
           f4 == Field("s1", l, eta, l * eta)
           f5 == Field("s2", m, eta, m * eta)
           f6 == Field("t0", m, POLYT0_PACKEDBYTES, m * POLYT0_PACKEDBYTES)
<1>2. /\ IsField(f1) /\ f1.advance = 32 /\ IsField(f2) /\ f2.advance = 32
      /\ IsField(f3) /\ f3.advance = 64
  BY BytesAre DEF SEEDBYTES, TRBYTES
<1>3. IsField(f4) /\ f4.advance = l * eta
  BY <1>1, FieldIs
<1>4. IsField(f5) /\ f5.advance = m * eta
  BY <1>1, FieldIs
<1>5. IsField(f6) /\ f6.advance = m * 416
  BY <1>1, FieldIs DEF POLYT0_PACKEDBYTES
<1>6. s = <<f1, f2, f3, f4, f5, f6>>
  BY DEF SkFields, m, l, eta
<1> HIDE DEF f1, f2, f3, f4, f5, f6, s
<1>7. Len(s) = 6 /\ s[1] = f1 /\ s[2] = f2 /\ s[3] = f3 /\ s[4] = f4 /\ s[5] = f5 /\ s[6] = f6
  BY <1>6
<1>8. Layout(s)
  <2>1. \A f \in 1 .. 6 : IsField(s[f])
    <3>1. \A f \in 1 .. 6 : f = 1 \/ f = 2 \/ f = 3 \/ f = 4 \/ f = 5 \/ f = 6
      OBVIOUS
    <3> QED  BY <1>2, <1>3, <1>4, <1>5, <1>7, <3>1
  <2> QED  BY <1>7, <2>1 DEF Layout
<1>9. /\ Offsets(s)[1] = 0 /\ Offsets(s)[2] = Offsets(s)[1] + 32
      /\ Offsets(s)[3] = Offsets(s)[2] + 32 /\ Offsets(s)[4] = Offsets(s)[3] + 64
      /\ Offsets(s)[5] = Offsets(s)[4] + l * eta /\ Offsets(s)[6] = Offsets(s)[5] + m * eta
  <2>1. \A f \in 1 .. 5 : Offsets(s)[f + 1] = Offsets(s)[f] + s[f].advance
    <3>1. Len(s) - 1 = 5
      BY <1>7
    <3> QED  BY <1>8, <3>1, OffsetsFact
  <2>2. 1 \in 1 .. 5 /\ 2 \in 1 .. 5 /\ 3 \in 1 .. 5 /\ 4 \in 1 .. 5 /\ 5 \in 1 .. 5
    OBVIOUS
  <2>3. Offsets(s)[1] = 0
    BY <1>8, OffsetsFact
  <2> QED  BY <1>2, <1>3, <1>4, <1>7, <2>1, <2>2, <2>3
<1>10. PICK eu \in Nat, v \in Nat, w \in Nat : eu = l * eta /\ v = m * eta /\ w = m * 416
  <2>1. l * eta \in Nat /\ m * eta \in Nat /\ m * 416 \in Nat
    BY <1>1
  <2> QED  BY <2>1
<1>11. Offsets(s)[6] + s[6].advance = 128 + eu + v + w
  <2>1. Offsets(s)[4] = 128
    BY <1>9
  <2> QED  BY <1>5, <1>7, <1>9, <1>10, <2>1
<1>12. CRYPTO_SECRETKEYBYTES = 128 + eu + v + w
  <2>1. CRYPTO_SECRETKEYBYTES = 2 * 32 + 64 + l * eta + m * eta + m * 416
    BY DEF CRYPTO_SECRETKEYBYTES, SEEDBYTES, TRBYTES, POLYT0_PACKEDBYTES, m, l, eta
  <2> QED  BY <1>10, <2>1
<1>13. CRYPTO_SECRETKEYBYTES = Offsets(s)[Len(s)] + s[Len(s)].advance
  BY <1>7, <1>11, <1>12
<1>14. Fill(Pieces(s), CRYPTO_SECRETKEYBYTES) /\ Pieces(s) # {}
  BY <1>8, <1>13, PiecesFill
<1> QED  BY <1>8, <1>14 DEF s

\* The fields are read as they were packed.
LEMMA SameFields == UnpackPkFields = PkFields /\ UnpackSkFields = SkFields
BY DEF UnpackPkFields, PkFields, UnpackSkFields, SkFields

-------------------------------------------------------------------------------
(***************************************************************************)
(* The short vectors.                                                      *)
(***************************************************************************)
LEMMA NamesDiffer ==
  /\ \A a, b : V1(a) = V1(b) => a = b
  /\ \A a, b : V2(a) = V2(b) => a = b
  /\ \A a, b : V1(a) # V2(b)
BY DEF V1, V2

LEMMA NamesExist ==
  /\ \A l \in 0 .. MLDSA_L - 1 : V1(l) \in ShortPolys
  /\ \A m \in 0 .. MLDSA_K - 1 : V2(m) \in ShortPolys
BY DEF ShortPolys

\* What a call writes, and leaves alone.
LEMMA CallWrites ==
  ASSUME DOMAIN short = ShortPolys,
         NEW v1 \in ShortPolys, NEW v2 \in ShortPolys, NEW v3 \in ShortPolys, NEW v4 \in ShortPolys,
         v1 # v2, v1 # v3, v1 # v4, v2 # v3, v2 # v4, v3 # v4,
         NEW n1, NEW n2, NEW n3, NEW n4,
         NEW new, new = Filled(EtaCall(<<v1, v2, v3, v4>>, <<n1, n2, n3, n4>>))
  PROVE  /\ DOMAIN new = ShortPolys
         /\ new[v1] = n1 /\ new[v2] = n2 /\ new[v3] = n3 /\ new[v4] = n4
         /\ \A p \in ShortPolys : p # v1 /\ p # v2 /\ p # v3 /\ p # v4 => new[p] = short[p]
<1> DEFINE c == EtaCall(<<v1, v2, v3, v4>>, <<n1, n2, n3, n4>>)
<1>1. c = [p \in {v1, v2, v3, v4} |->
             CASE p = v1 -> n1 [] p = v2 -> n2 [] p = v3 -> n3 [] p = v4 -> n4]
  BY DEF EtaCall
<1>2. DOMAIN c = {v1, v2, v3, v4} /\ c[v1] = n1 /\ c[v2] = n2 /\ c[v3] = n3 /\ c[v4] = n4
  BY <1>1
<1> HIDE DEF c
<1>3. new = [p \in ShortPolys |-> IF p \in DOMAIN c THEN c[p] ELSE short[p]]
  <2>1. DOMAIN short \cup DOMAIN c = ShortPolys
    BY <1>2
  <2>2. new = Filled(c)
    BY DEF c
  <2> QED  BY <2>1, <2>2 DEF Filled
<1> QED  BY <1>2, <1>3

\* How many nonces the first c calls have used for good: an irrelevant lane, in
\* the second call, takes none.
NoncesUsed(c) == IF c >= 2 /\ mode # 2 THEN 4 * c - 1 ELSE 4 * c

\* The vectors hold what belongs to the first n nonces.
ShortUpto(new, n) ==
  /\ DOMAIN new = ShortPolys
  /\ \A l \in 0 .. MLDSA_L - 1 : l < n => new[V1(l)] = l
  /\ \A m \in 0 .. MLDSA_K - 1 : MLDSA_L + m < n => new[V2(m)] = MLDSA_L + m

LEMMA NumberOfCalls ==
  ASSUME mode \in Modes
  PROVE  /\ mode = 2 => Len(EtaCalls) = 2
         /\ mode = 3 => Len(EtaCalls) = 3
         /\ mode = 5 => Len(EtaCalls) = 4
         /\ Len(EtaCalls) \in Nat /\ NoncesUsed(Len(EtaCalls)) = MLDSA_L + MLDSA_K
<1>1. CASE mode = 2
  BY <1>1, ModeFact DEF EtaCalls, NoncesUsed
<1>2. CASE mode = 3
  BY <1>2, ModeFact DEF EtaCalls, NoncesUsed
<1>3. CASE mode = 5
  BY <1>3, ModeFact DEF EtaCalls, NoncesUsed
<1> QED  BY <1>1, <1>2, <1>3, ModeFact

LEMMA ShortStep2 ==
  ASSUME mode \in Modes, mode = 2, NEW c \in Nat, c < Len(EtaCalls), ShortUpto(short, NoncesUsed(c)),
         NEW new, new = Filled(EtaCalls[c + 1])
  PROVE  ShortUpto(new, NoncesUsed(c + 1))
<1>1. MLDSA_L = 4 /\ MLDSA_K = 4 /\ Len(EtaCalls) = 2
  BY ModeFact, NumberOfCalls
<1>2. DOMAIN short = ShortPolys
  BY DEF ShortUpto
<1>3. CASE c = 0
  <2>1. EtaCalls[c + 1] = EtaCall(<<V1(0), V1(1), V1(2), V1(3)>>, <<0, 1, 2, 3>>)
    BY <1>3 DEF EtaCalls
  <2>2. V1(0) \in ShortPolys /\ V1(1) \in ShortPolys /\ V1(2) \in ShortPolys /\ V1(3) \in ShortPolys
    BY <1>1, NamesExist
  <2>3. /\ V1(0) # V1(1) /\ V1(0) # V1(2) /\ V1(0) # V1(3)
        /\ V1(1) # V1(2) /\ V1(1) # V1(3) /\ V1(2) # V1(3)
    BY NamesDiffer
  <2>4. /\ DOMAIN new = ShortPolys
        /\ new[V1(0)] = 0 /\ new[V1(1)] = 1 /\ new[V1(2)] = 2 /\ new[V1(3)] = 3
        /\ \A p \in ShortPolys : p # V1(0) /\ p # V1(1) /\ p # V1(2) /\ p # V1(3) => new[p] = short[p]
    BY <1>2, <2>1, <2>2, <2>3, CallWrites
  <2>5. NoncesUsed(c + 1) = 4 /\ NoncesUsed(c) = 0
    BY <1>3 DEF NoncesUsed
  <2>6. /\ \A l \in 0 .. 3 : l < 0 => new[V1(l)] = l
        /\ \A m \in 0 .. 3 : 4 + m < 0 => new[V2(m)] = 4 + m
    <3>1. /\ \A l \in 0 .. 3 : l < 0 => V1(l) \in ShortPolys /\ short[V1(l)] = l
          /\ \A m \in 0 .. 3 : 4 + m < 0 => V2(m) \in ShortPolys /\ short[V2(m)] = 4 + m
      BY <1>1, <2>5, NamesExist DEF ShortUpto
    <3>2. \A l \in 0 .. 3 : l < 0 => new[V1(l)] = l
      BY <2>4, <3>1, NamesDiffer
    <3>3. ASSUME NEW m \in 0 .. 3, 4 + m < 0
          PROVE  new[V2(m)] = 4 + m
      <4>1. V2(m) # V1(0) /\ V2(m) # V1(1) /\ V2(m) # V1(2) /\ V2(m) # V1(3)
        BY <3>3, NamesDiffer
      <4> QED  BY <2>4, <3>1, <3>3, <4>1
    <3> QED  BY <3>2, <3>3
  <2>7. /\ \A l \in 0 .. 3 : l < 4 => new[V1(l)] = l
        /\ \A m \in 0 .. 3 : 4 + m < 4 => new[V2(m)] = 4 + m
    BY <2>4, <2>6
  <2> QED  BY <1>1, <2>4, <2>5, <2>7 DEF ShortUpto
<1>4. CASE c = 1
  <2>1. EtaCalls[c + 1] = EtaCall(<<V2(0), V2(1), V2(2), V2(3)>>, <<4, 5, 6, 7>>)
    BY <1>4 DEF EtaCalls
  <2>2. V2(0) \in ShortPolys /\ V2(1) \in ShortPolys /\ V2(2) \in ShortPolys /\ V2(3) \in ShortPolys
    BY <1>1, NamesExist
  <2>3. /\ V2(0) # V2(1) /\ V2(0) # V2(2) /\ V2(0) # V2(3)
        /\ V2(1) # V2(2) /\ V2(1) # V2(3) /\ V2(2) # V2(3)
    BY NamesDiffer
  <2>4. /\ DOMAIN new = ShortPolys
        /\ new[V2(0)] = 4 /\ new[V2(1)] = 5 /\ new[V2(2)] = 6 /\ new[V2(3)] = 7
        /\ \A p \in ShortPolys : p # V2(0) /\ p # V2(1) /\ p # V2(2) /\ p # V2(3) => new[p] = short[p]
    BY <1>2, <2>1, <2>2, <2>3, CallWrites
  <2>5. NoncesUsed(c + 1) = 8 /\ NoncesUsed(c) = 4
    BY <1>4 DEF NoncesUsed
  <2>6. /\ \A l \in 0 .. 3 : l < 4 => new[V1(l)] = l
        /\ \A m \in 0 .. 3 : 4 + m < 4 => new[V2(m)] = 4 + m
    <3>1. /\ \A l \in 0 .. 3 : l < 4 => V1(l) \in ShortPolys /\ short[V1(l)] = l
          /\ \A m \in 0 .. 3 : 4 + m < 4 => V2(m) \in ShortPolys /\ short[V2(m)] = 4 + m
      BY <1>1, <2>5, NamesExist DEF ShortUpto
    <3>2. \A l \in 0 .. 3 : l < 4 => new[V1(l)] = l
      BY <2>4, <3>1, NamesDiffer
    <3>3. ASSUME NEW m \in 0 .. 3, 4 + m < 4
          PROVE  new[V2(m)] = 4 + m
      <4>1. V2(m) # V2(0) /\ V2(m) # V2(1) /\ V2(m) # V2(2) /\ V2(m) # V2(3)
        BY <3>3, NamesDiffer
      <4> QED  BY <2>4, <3>1, <3>3, <4>1
    <3> QED  BY <3>2, <3>3
  <2>7. /\ \A l \in 0 .. 3 : l < 8 => new[V1(l)] = l
        /\ \A m \in 0 .. 3 : 4 + m < 8 => new[V2(m)] = 4 + m
    BY <2>4, <2>6
  <2> QED  BY <1>1, <2>4, <2>5, <2>7 DEF ShortUpto
<1> QED  BY <1>1, <1>3, <1>4

LEMMA ShortStep3 ==
  ASSUME mode \in Modes, mode = 3, NEW c \in Nat, c < Len(EtaCalls), ShortUpto(short, NoncesUsed(c)),
         NEW new, new = Filled(EtaCalls[c + 1])
  PROVE  ShortUpto(new, NoncesUsed(c + 1))
<1>1. MLDSA_L = 5 /\ MLDSA_K = 6 /\ Len(EtaCalls) = 3
  BY ModeFact, NumberOfCalls
<1>2. DOMAIN short = ShortPolys
  BY DEF ShortUpto
<1>3. CASE c = 0
  <2>1. EtaCalls[c + 1] = EtaCall(<<V1(0), V1(1), V1(2), V1(3)>>, <<0, 1, 2, 3>>)
    BY <1>3 DEF EtaCalls
  <2>2. V1(0) \in ShortPolys /\ V1(1) \in ShortPolys /\ V1(2) \in ShortPolys /\ V1(3) \in ShortPolys
    BY <1>1, NamesExist
  <2>3. /\ V1(0) # V1(1) /\ V1(0) # V1(2) /\ V1(0) # V1(3)
        /\ V1(1) # V1(2) /\ V1(1) # V1(3) /\ V1(2) # V1(3)
    BY NamesDiffer
  <2>4. /\ DOMAIN new = ShortPolys
        /\ new[V1(0)] = 0 /\ new[V1(1)] = 1 /\ new[V1(2)] = 2 /\ new[V1(3)] = 3
        /\ \A p \in ShortPolys : p # V1(0) /\ p # V1(1) /\ p # V1(2) /\ p # V1(3) => new[p] = short[p]
    BY <1>2, <2>1, <2>2, <2>3, CallWrites
  <2>5. NoncesUsed(c + 1) = 4 /\ NoncesUsed(c) = 0
    BY <1>3 DEF NoncesUsed
  <2>6. /\ \A l \in 0 .. 4 : l < 0 => new[V1(l)] = l
        /\ \A m \in 0 .. 5 : 5 + m < 0 => new[V2(m)] = 5 + m
    <3>1. /\ \A l \in 0 .. 4 : l < 0 => V1(l) \in ShortPolys /\ short[V1(l)] = l
          /\ \A m \in 0 .. 5 : 5 + m < 0 => V2(m) \in ShortPolys /\ short[V2(m)] = 5 + m
      BY <1>1, <2>5, NamesExist DEF ShortUpto
    <3>2. \A l \in 0 .. 4 : l < 0 => new[V1(l)] = l
      BY <2>4, <3>1, NamesDiffer
    <3>3. ASSUME NEW m \in 0 .. 5, 5 + m < 0
          PROVE  new[V2(m)] = 5 + m
      <4>1. V2(m) # V1(0) /\ V2(m) # V1(1) /\ V2(m) # V1(2) /\ V2(m) # V1(3)
        BY <3>3, NamesDiffer
      <4> QED  BY <2>4, <3>1, <3>3, <4>1
    <3> QED  BY <3>2, <3>3
  <2>7. /\ \A l \in 0 .. 4 : l < 4 => new[V1(l)] = l
        /\ \A m \in 0 .. 5 : 5 + m < 4 => new[V2(m)] = 5 + m
    BY <2>4, <2>6
  <2> QED  BY <1>1, <2>4, <2>5, <2>7 DEF ShortUpto
<1>4. CASE c = 1
  <2>1. EtaCalls[c + 1] = EtaCall(<<V1(4), V2(0), V2(1), V2(2)>>, <<4, 5, 6, IRRELEVANT>>)
    BY <1>4 DEF EtaCalls
  <2>2. V1(4) \in ShortPolys /\ V2(0) \in ShortPolys /\ V2(1) \in ShortPolys /\ V2(2) \in ShortPolys
    BY <1>1, NamesExist
  <2>3. /\ V1(4) # V2(0) /\ V1(4) # V2(1) /\ V1(4) # V2(2)
        /\ V2(0) # V2(1) /\ V2(0) # V2(2) /\ V2(1) # V2(2)
    BY NamesDiffer
  <2>4. /\ DOMAIN new = ShortPolys
        /\ new[V1(4)] = 4 /\ new[V2(0)] = 5 /\ new[V2(1)] = 6 /\ new[V2(2)] = IRRELEVANT
        /\ \A p \in ShortPolys : p # V1(4) /\ p # V2(0) /\ p # V2(1) /\ p # V2(2) => new[p] = short[p]
    BY <1>2, <2>1, <2>2, <2>3, CallWrites
  <2>5. NoncesUsed(c + 1) = 7 /\ NoncesUsed(c) = 4
    BY <1>4 DEF NoncesUsed
  <2>6. /\ \A l \in 0 .. 4 : l < 4 => new[V1(l)] = l
        /\ \A m \in 0 .. 5 : 5 + m < 4 => new[V2(m)] = 5 + m
    <3>1. /\ \A l \in 0 .. 4 : l < 4 => V1(l) \in ShortPolys /\ short[V1(l)] = l
          /\ \A m \in 0 .. 5 : 5 + m < 4 => V2(m) \in ShortPolys /\ short[V2(m)] = 5 + m
      BY <1>1, <2>5, NamesExist DEF ShortUpto
    <3>2. \A l \in 0 .. 4 : l < 4 => new[V1(l)] = l
      BY <2>4, <3>1, NamesDiffer
    <3>3. ASSUME NEW m \in 0 .. 5, 5 + m < 4
          PROVE  new[V2(m)] = 5 + m
      <4>1. V2(m) # V1(4) /\ V2(m) # V2(0) /\ V2(m) # V2(1) /\ V2(m) # V2(2)
        BY <3>3, NamesDiffer
      <4> QED  BY <2>4, <3>1, <3>3, <4>1
    <3> QED  BY <3>2, <3>3
  <2>7. /\ \A l \in 0 .. 4 : l < 7 => new[V1(l)] = l
        /\ \A m \in 0 .. 5 : 5 + m < 7 => new[V2(m)] = 5 + m
    BY <2>4, <2>6
  <2> QED  BY <1>1, <2>4, <2>5, <2>7 DEF ShortUpto
<1>5. CASE c = 2
  <2>1. EtaCalls[c + 1] = EtaCall(<<V2(2), V2(3), V2(4), V2(5)>>, <<7, 8, 9, 10>>)
    BY <1>5 DEF EtaCalls
  <2>2. V2(2) \in ShortPolys /\ V2(3) \in ShortPolys /\ V2(4) \in ShortPolys /\ V2(5) \in ShortPolys
    BY <1>1, NamesExist
  <2>3. /\ V2(2) # V2(3) /\ V2(2) # V2(4) /\ V2(2) # V2(5)
        /\ V2(3) # V2(4) /\ V2(3) # V2(5) /\ V2(4) # V2(5)
    BY NamesDiffer
  <2>4. /\ DOMAIN new = ShortPolys
        /\ new[V2(2)] = 7 /\ new[V2(3)] = 8 /\ new[V2(4)] = 9 /\ new[V2(5)] = 10
        /\ \A p \in ShortPolys : p # V2(2) /\ p # V2(3) /\ p # V2(4) /\ p # V2(5) => new[p] = short[p]
    BY <1>2, <2>1, <2>2, <2>3, CallWrites
  <2>5. NoncesUsed(c + 1) = 11 /\ NoncesUsed(c) = 7
    BY <1>5 DEF NoncesUsed
  <2>6. /\ \A l \in 0 .. 4 : l < 7 => new[V1(l)] = l
        /\ \A m \in 0 .. 5 : 5 + m < 7 => new[V2(m)] = 5 + m
    <3>1. /\ \A l \in 0 .. 4 : l < 7 => V1(l) \in ShortPolys /\ short[V1(l)] = l
          /\ \A m \in 0 .. 5 : 5 + m < 7 => V2(m) \in ShortPolys /\ short[V2(m)] = 5 + m
      BY <1>1, <2>5, NamesExist DEF ShortUpto
    <3>2. \A l \in 0 .. 4 : l < 7 => new[V1(l)] = l
      BY <2>4, <3>1, NamesDiffer
    <3>3. ASSUME NEW m \in 0 .. 5, 5 + m < 7
          PROVE  new[V2(m)] = 5 + m
      <4>1. V2(m) # V2(2) /\ V2(m) # V2(3) /\ V2(m) # V2(4) /\ V2(m) # V2(5)
        BY <3>3, NamesDiffer
      <4> QED  BY <2>4, <3>1, <3>3, <4>1
    <3> QED  BY <3>2, <3>3
  <2>7. /\ \A l \in 0 .. 4 : l < 11 => new[V1(l)] = l
        /\ \A m \in 0 .. 5 : 5 + m < 11 => new[V2(m)] = 5 + m
    BY <2>4, <2>6
  <2> QED  BY <1>1, <2>4, <2>5, <2>7 DEF ShortUpto
<1> QED  BY <1>1, <1>3, <1>4, <1>5

LEMMA ShortStep5 ==
  ASSUME mode \in Modes, mode = 5, NEW c \in Nat, c < Len(EtaCalls), ShortUpto(short, NoncesUsed(c)),
         NEW new, new = Filled(EtaCalls[c + 1])
  PROVE  ShortUpto(new, NoncesUsed(c + 1))
<1>1. MLDSA_L = 7 /\ MLDSA_K = 8 /\ Len(EtaCalls) = 4
  BY ModeFact, NumberOfCalls
<1>2. DOMAIN short = ShortPolys
  BY DEF ShortUpto
<1>3. CASE c = 0
  <2>1. EtaCalls[c + 1] = EtaCall(<<V1(0), V1(1), V1(2), V1(3)>>, <<0, 1, 2, 3>>)
    BY <1>3 DEF EtaCalls
  <2>2. V1(0) \in ShortPolys /\ V1(1) \in ShortPolys /\ V1(2) \in ShortPolys /\ V1(3) \in ShortPolys
    BY <1>1, NamesExist
  <2>3. /\ V1(0) # V1(1) /\ V1(0) # V1(2) /\ V1(0) # V1(3)
        /\ V1(1) # V1(2) /\ V1(1) # V1(3) /\ V1(2) # V1(3)
    BY NamesDiffer
  <2>4. /\ DOMAIN new = ShortPolys
        /\ new[V1(0)] = 0 /\ new[V1(1)] = 1 /\ new[V1(2)] = 2 /\ new[V1(3)] = 3
        /\ \A p \in ShortPolys : p # V1(0) /\ p # V1(1) /\ p # V1(2) /\ p # V1(3) => new[p] = short[p]
    BY <1>2, <2>1, <2>2, <2>3, CallWrites
  <2>5. NoncesUsed(c + 1) = 4 /\ NoncesUsed(c) = 0
    BY <1>3 DEF NoncesUsed
  <2>6. /\ \A l \in 0 .. 6 : l < 0 => new[V1(l)] = l
        /\ \A m \in 0 .. 7 : 7 + m < 0 => new[V2(m)] = 7 + m
    <3>1. /\ \A l \in 0 .. 6 : l < 0 => V1(l) \in ShortPolys /\ short[V1(l)] = l
          /\ \A m \in 0 .. 7 : 7 + m < 0 => V2(m) \in ShortPolys /\ short[V2(m)] = 7 + m
      BY <1>1, <2>5, NamesExist DEF ShortUpto
    <3>2. \A l \in 0 .. 6 : l < 0 => new[V1(l)] = l
      BY <2>4, <3>1, NamesDiffer
    <3>3. ASSUME NEW m \in 0 .. 7, 7 + m < 0
          PROVE  new[V2(m)] = 7 + m
      <4>1. V2(m) # V1(0) /\ V2(m) # V1(1) /\ V2(m) # V1(2) /\ V2(m) # V1(3)
        BY <3>3, NamesDiffer
      <4> QED  BY <2>4, <3>1, <3>3, <4>1
    <3> QED  BY <3>2, <3>3
  <2>7. /\ \A l \in 0 .. 6 : l < 4 => new[V1(l)] = l
        /\ \A m \in 0 .. 7 : 7 + m < 4 => new[V2(m)] = 7 + m
    BY <2>4, <2>6
  <2> QED  BY <1>1, <2>4, <2>5, <2>7 DEF ShortUpto
<1>4. CASE c = 1
  <2>1. EtaCalls[c + 1] = EtaCall(<<V1(4), V1(5), V1(6), V2(0)>>, <<4, 5, 6, IRRELEVANT>>)
    BY <1>4 DEF EtaCalls
  <2>2. V1(4) \in ShortPolys /\ V1(5) \in ShortPolys /\ V1(6) \in ShortPolys /\ V2(0) \in ShortPolys
    BY <1>1, NamesExist
  <2>3. /\ V1(4) # V1(5) /\ V1(4) # V1(6) /\ V1(4) # V2(0)
        /\ V1(5) # V1(6) /\ V1(5) # V2(0) /\ V1(6) # V2(0)
    BY NamesDiffer
  <2>4. /\ DOMAIN new = ShortPolys
        /\ new[V1(4)] = 4 /\ new[V1(5)] = 5 /\ new[V1(6)] = 6 /\ new[V2(0)] = IRRELEVANT
        /\ \A p \in ShortPolys : p # V1(4) /\ p # V1(5) /\ p # V1(6) /\ p # V2(0) => new[p] = short[p]
    BY <1>2, <2>1, <2>2, <2>3, CallWrites
  <2>5. NoncesUsed(c + 1) = 7 /\ NoncesUsed(c) = 4
    BY <1>4 DEF NoncesUsed
  <2>6. /\ \A l \in 0 .. 6 : l < 4 => new[V1(l)] = l
        /\ \A m \in 0 .. 7 : 7 + m < 4 => new[V2(m)] = 7 + m
    <3>1. /\ \A l \in 0 .. 6 : l < 4 => V1(l) \in ShortPolys /\ short[V1(l)] = l
          /\ \A m \in 0 .. 7 : 7 + m < 4 => V2(m) \in ShortPolys /\ short[V2(m)] = 7 + m
      BY <1>1, <2>5, NamesExist DEF ShortUpto
    <3>2. \A l \in 0 .. 6 : l < 4 => new[V1(l)] = l
      BY <2>4, <3>1, NamesDiffer
    <3>3. ASSUME NEW m \in 0 .. 7, 7 + m < 4
          PROVE  new[V2(m)] = 7 + m
      <4>1. V2(m) # V1(4) /\ V2(m) # V1(5) /\ V2(m) # V1(6) /\ V2(m) # V2(0)
        BY <3>3, NamesDiffer
      <4> QED  BY <2>4, <3>1, <3>3, <4>1
    <3> QED  BY <3>2, <3>3
  <2>7. /\ \A l \in 0 .. 6 : l < 7 => new[V1(l)] = l
        /\ \A m \in 0 .. 7 : 7 + m < 7 => new[V2(m)] = 7 + m
    BY <2>4, <2>6
  <2> QED  BY <1>1, <2>4, <2>5, <2>7 DEF ShortUpto
<1>5. CASE c = 2
  <2>1. EtaCalls[c + 1] = EtaCall(<<V2(0), V2(1), V2(2), V2(3)>>, <<7, 8, 9, 10>>)
    BY <1>5 DEF EtaCalls
  <2>2. V2(0) \in ShortPolys /\ V2(1) \in ShortPolys /\ V2(2) \in ShortPolys /\ V2(3) \in ShortPolys
    BY <1>1, NamesExist
  <2>3. /\ V2(0) # V2(1) /\ V2(0) # V2(2) /\ V2(0) # V2(3)
        /\ V2(1) # V2(2) /\ V2(1) # V2(3) /\ V2(2) # V2(3)
    BY NamesDiffer
  <2>4. /\ DOMAIN new = ShortPolys
        /\ new[V2(0)] = 7 /\ new[V2(1)] = 8 /\ new[V2(2)] = 9 /\ new[V2(3)] = 10
        /\ \A p \in ShortPolys : p # V2(0) /\ p # V2(1) /\ p # V2(2) /\ p # V2(3) => new[p] = short[p]
    BY <1>2, <2>1, <2>2, <2>3, CallWrites
  <2>5. NoncesUsed(c + 1) = 11 /\ NoncesUsed(c) = 7
    BY <1>5 DEF NoncesUsed
  <2>6. /\ \A l \in 0 .. 6 : l < 7 => new[V1(l)] = l
        /\ \A m \in 0 .. 7 : 7 + m < 7 => new[V2(m)] = 7 + m
    <3>1. /\ \A l \in 0 .. 6 : l < 7 => V1(l) \in ShortPolys /\ short[V1(l)] = l
          /\ \A m \in 0 .. 7 : 7 + m < 7 => V2(m) \in ShortPolys /\ short[V2(m)] = 7 + m
      BY <1>1, <2>5, NamesExist DEF ShortUpto
    <3>2. \A l \in 0 .. 6 : l < 7 => new[V1(l)] = l
      BY <2>4, <3>1, NamesDiffer
    <3>3. ASSUME NEW m \in 0 .. 7, 7 + m < 7
          PROVE  new[V2(m)] = 7 + m
      <4>1. V2(m) # V2(0) /\ V2(m) # V2(1) /\ V2(m) # V2(2) /\ V2(m) # V2(3)
        BY <3>3, NamesDiffer
      <4> QED  BY <2>4, <3>1, <3>3, <4>1
    <3> QED  BY <3>2, <3>3
  <2>7. /\ \A l \in 0 .. 6 : l < 11 => new[V1(l)] = l
        /\ \A m \in 0 .. 7 : 7 + m < 11 => new[V2(m)] = 7 + m
    BY <2>4, <2>6
  <2> QED  BY <1>1, <2>4, <2>5, <2>7 DEF ShortUpto
<1>6. CASE c = 3
  <2>1. EtaCalls[c + 1] = EtaCall(<<V2(4), V2(5), V2(6), V2(7)>>, <<11, 12, 13, 14>>)
    BY <1>6 DEF EtaCalls
  <2>2. V2(4) \in ShortPolys /\ V2(5) \in ShortPolys /\ V2(6) \in ShortPolys /\ V2(7) \in ShortPolys
    BY <1>1, NamesExist
  <2>3. /\ V2(4) # V2(5) /\ V2(4) # V2(6) /\ V2(4) # V2(7)
        /\ V2(5) # V2(6) /\ V2(5) # V2(7) /\ V2(6) # V2(7)
    BY NamesDiffer
  <2>4. /\ DOMAIN new = ShortPolys
        /\ new[V2(4)] = 11 /\ new[V2(5)] = 12 /\ new[V2(6)] = 13 /\ new[V2(7)] = 14
        /\ \A p \in ShortPolys : p # V2(4) /\ p # V2(5) /\ p # V2(6) /\ p # V2(7) => new[p] = short[p]
    BY <1>2, <2>1, <2>2, <2>3, CallWrites
  <2>5. NoncesUsed(c + 1) = 15 /\ NoncesUsed(c) = 11
    BY <1>6 DEF NoncesUsed
  <2>6. /\ \A l \in 0 .. 6 : l < 11 => new[V1(l)] = l
        /\ \A m \in 0 .. 7 : 7 + m < 11 => new[V2(m)] = 7 + m
    <3>1. /\ \A l \in 0 .. 6 : l < 11 => V1(l) \in ShortPolys /\ short[V1(l)] = l
          /\ \A m \in 0 .. 7 : 7 + m < 11 => V2(m) \in ShortPolys /\ short[V2(m)] = 7 + m
      BY <1>1, <2>5, NamesExist DEF ShortUpto
    <3>2. \A l \in 0 .. 6 : l < 11 => new[V1(l)] = l
      BY <2>4, <3>1, NamesDiffer
    <3>3. ASSUME NEW m \in 0 .. 7, 7 + m < 11
          PROVE  new[V2(m)] = 7 + m
      <4>1. V2(m) # V2(4) /\ V2(m) # V2(5) /\ V2(m) # V2(6) /\ V2(m) # V2(7)
        BY <3>3, NamesDiffer
      <4> QED  BY <2>4, <3>1, <3>3, <4>1
    <3> QED  BY <3>2, <3>3
  <2>7. /\ \A l \in 0 .. 6 : l < 15 => new[V1(l)] = l
        /\ \A m \in 0 .. 7 : 7 + m < 15 => new[V2(m)] = 7 + m
    BY <2>4, <2>6
  <2> QED  BY <1>1, <2>4, <2>5, <2>7 DEF ShortUpto
<1> QED  BY <1>1, <1>3, <1>4, <1>5, <1>6

LEMMA ShortStep ==
  ASSUME mode \in Modes, NEW c \in Nat, c < Len(EtaCalls), ShortUpto(short, NoncesUsed(c)),
         NEW new, new = Filled(EtaCalls[c + 1])
  PROVE  ShortUpto(new, NoncesUsed(c + 1))
BY ModeFact, ShortStep2, ShortStep3, ShortStep5

-------------------------------------------------------------------------------
(***************************************************************************)
(* The matrix.                                                             *)
(***************************************************************************)
\* The matrix when its first n entries are sampled.
MatrixUpto(rows, cols, n) ==
  [x \in 0 .. rows - 1 |-> [y \in 0 .. cols - 1 |-> IF x * cols + y < n THEN <<y, x>> ELSE NoSeed]]

Sampled == IF kpc = "keys" THEN 0 ELSE entry

MatrixInv ==
  /\ mat = MatrixUpto(MLDSA_K, MLDSA_L, Sampled)
  /\ entry \in 0 .. MLDSA_K * MLDSA_L /\ lane \in 0 .. 4
  /\ DOMAIN seed_ext = 0 .. 3
  /\ kpc = "expand" /\ entry < Batched => entry % 4 = 0
  /\ kpc = "expand" /\ entry >= Batched => lane = 0
  /\ kpc = "expand" => \A m \in 0 .. 3 : m < lane => seed_ext[m] = SeedOf(entry + m)
  /\ kpc \in {"short", "pack", "done"} => entry = MLDSA_K * MLDSA_L

LEMMA BatchedFact ==
  ASSUME mode \in Modes
  PROVE  /\ Batched \in Nat /\ Batched <= MLDSA_K * MLDSA_L /\ MLDSA_K * MLDSA_L \in Nat
         /\ \A e \in Nat : e < Batched /\ e % 4 = 0 => e + 4 <= Batched
<1>1. CASE mode = 2
  BY <1>1, ModeFact DEF Batched
<1>2. CASE mode = 3
  BY <1>2, ModeFact DEF Batched
<1>3. CASE mode = 5
  BY <1>3, ModeFact DEF Batched
<1> QED  BY <1>1, <1>2, <1>3, ModeFact

\* Row and column of an entry.
LEMMA EntryOf ==
  ASSUME mode \in Modes, NEW e \in Nat, e < MLDSA_K * MLDSA_L
  PROVE  /\ e \div MLDSA_L \in 0 .. MLDSA_K - 1 /\ e % MLDSA_L \in 0 .. MLDSA_L - 1
         /\ (e \div MLDSA_L) * MLDSA_L + (e % MLDSA_L) = e
<1>1. CASE mode = 2
  <2>1. MLDSA_K = 4 /\ MLDSA_L = 4
    BY <1>1, ModeFact
  <2>2. e < 16
    BY <2>1
  <2>3. e \div 4 \in 0 .. 3 /\ e % 4 \in 0 .. 3 /\ (e \div 4) * 4 + (e % 4) = e
    BY <2>2
  <2> QED  BY <2>1, <2>3
<1>2. CASE mode = 3
  <2>1. MLDSA_K = 6 /\ MLDSA_L = 5
    BY <1>2, ModeFact
  <2>2. e < 30
    BY <2>1
  <2>3. e \div 5 \in 0 .. 5 /\ e % 5 \in 0 .. 4 /\ (e \div 5) * 5 + (e % 5) = e
    BY <2>2
  <2> QED  BY <2>1, <2>3
<1>3. CASE mode = 5
  <2>1. MLDSA_K = 8 /\ MLDSA_L = 7
    BY <1>3, ModeFact
  <2>2. e < 56
    BY <2>1
  <2>3. e \div 7 \in 0 .. 7 /\ e % 7 \in 0 .. 6 /\ (e \div 7) * 7 + (e % 7) = e
    BY <2>2
  <2> QED  BY <2>1, <2>3
<1> QED  BY <1>1, <1>2, <1>3, ModeFact

LEMMA PlaceOf ==
  ASSUME mode \in Modes, NEW x \in 0 .. MLDSA_K - 1, NEW y \in 0 .. MLDSA_L - 1
  PROVE  /\ x * MLDSA_L + y \in Nat /\ x * MLDSA_L + y < MLDSA_K * MLDSA_L
         /\ (x * MLDSA_L + y) \div MLDSA_L = x /\ (x * MLDSA_L + y) % MLDSA_L = y
         /\ SeedOf(x * MLDSA_L + y) = <<y, x>>
<1>1. CASE mode = 2
  BY <1>1, ModeFact DEF SeedOf
<1>2. CASE mode = 3
  BY <1>2, ModeFact DEF SeedOf
<1>3. CASE mode = 5
  BY <1>3, ModeFact DEF SeedOf
<1> QED  BY <1>1, <1>2, <1>3, ModeFact

LEMMA SameMode ==
  ASSUME mode' = mode
  PROVE  /\ MLDSA_K' = MLDSA_K /\ MLDSA_L' = MLDSA_L /\ Batched' = Batched
         /\ \A e : SeedOf(e)' = SeedOf(e)
BY DEF MLDSA_K, MLDSA_L, Batched, SeedOf

\* What the four lanes sample.
LEMMA Sample4Adds ==
  ASSUME mode \in Modes, MatrixInv, Sample4
  PROVE  mat' = MatrixUpto(MLDSA_K, MLDSA_L, entry + 4)
<1> DEFINE rows == MLDSA_K
           cols == MLDSA_L
           M == MatrixUpto(rows, cols, entry + 4)
<1>1. /\ kpc = "expand" /\ lane = 4 /\ entry \in Nat
      /\ mat = MatrixUpto(rows, cols, entry)
      /\ \A m \in 0 .. 3 : seed_ext[m] = SeedOf(entry + m)
  <2>1. MLDSA_K * MLDSA_L \in Nat
    BY BatchedFact
  <2> QED  BY <2>1 DEF Sample4, MatrixInv, Sampled
<1>2. ASSUME NEW x \in 0 .. rows - 1, NEW y \in 0 .. cols - 1
      PROVE  (IF Number(x, y) \in entry .. entry + 3 THEN seed_ext[Number(x, y) - entry] ELSE mat[x][y])
               = IF Number(x, y) < entry + 4 THEN <<y, x>> ELSE NoSeed
  <2> DEFINE e == Number(x, y)
  <2>1. e \in Nat /\ SeedOf(e) = <<y, x>>
    BY PlaceOf DEF Number
  <2>2. mat[x][y] = IF e < entry THEN <<y, x>> ELSE NoSeed
    BY <1>1 DEF MatrixUpto, Number
  <2> HIDE DEF e
  <2> SUFFICES (IF e \in entry .. entry + 3 THEN seed_ext[e - entry] ELSE mat[x][y])
                 = IF e < entry + 4 THEN <<y, x>> ELSE NoSeed
    BY DEF e
  <2>3. CASE e \in entry .. entry + 3
    <3>1. e - entry \in 0 .. 3 /\ entry + (e - entry) = e /\ e < entry + 4
      BY <1>1, <2>3
    <3>2. seed_ext[e - entry] = <<y, x>>
      BY <1>1, <2>1, <3>1
    <3> QED  BY <2>3, <3>1, <3>2
  <2>4. CASE e \notin entry .. entry + 3
    <3>1. e < entry + 4 <=> e < entry
      BY <1>1, <2>1, <2>4
    <3> QED  BY <2>1, <2>2, <2>4, <3>1
  <2> QED  BY <2>3, <2>4
<1>3. DOMAIN mat = 0 .. rows - 1 /\ \A x \in 0 .. rows - 1 : DOMAIN mat[x] = 0 .. cols - 1
  BY <1>1 DEF MatrixUpto
<1>4. mat' = [x \in DOMAIN mat |-> [y \in DOMAIN mat[x] |->
               IF Number(x, y) \in entry .. entry + 3 THEN seed_ext[Number(x, y) - entry] ELSE mat[x][y]]]
  BY DEF Sample4
<1>5. ASSUME NEW x \in 0 .. rows - 1
      PROVE  mat'[x] = [y \in 0 .. cols - 1 |-> IF Number(x, y) < entry + 4 THEN <<y, x>> ELSE NoSeed]
  <2> HIDE DEF rows, cols
  <2> QED  BY <1>2, <1>3, <1>4, <1>5
<1>6. ASSUME NEW x \in 0 .. rows - 1
      PROVE  M[x] = [y \in 0 .. cols - 1 |-> IF Number(x, y) < entry + 4 THEN <<y, x>> ELSE NoSeed]
  BY <1>6 DEF MatrixUpto, Number
<1>7. mat' = [x \in 0 .. rows - 1 |-> mat'[x]] /\ M = [x \in 0 .. rows - 1 |-> M[x]]
  BY <1>3, <1>4 DEF MatrixUpto
<1> HIDE DEF rows, cols, M
<1>8. \A x \in 0 .. rows - 1 : mat'[x] = M[x]
  BY <1>5, <1>6
<1> QED  BY <1>7, <1>8 DEF M, rows, cols

LEMMA Sample1Adds ==
  ASSUME mode \in Modes, MatrixInv, Sample1
  PROVE  mat' = MatrixUpto(MLDSA_K, MLDSA_L, entry + 1)
<1> DEFINE rows == MLDSA_K
           cols == MLDSA_L
           row == entry \div MLDSA_L
           col == entry % MLDSA_L
<1>1. /\ kpc = "expand" /\ entry \in Nat /\ entry < rows * cols
      /\ mat = MatrixUpto(rows, cols, entry) /\ DOMAIN seed_ext = 0 .. 3
  <2>1. MLDSA_K * MLDSA_L \in Nat
    BY BatchedFact
  <2> QED  BY <2>1 DEF Sample1, MatrixInv, Sampled
<1>2. row \in 0 .. rows - 1 /\ col \in 0 .. cols - 1 /\ row * cols + col = entry
  <2>1. entry \in Nat /\ entry < MLDSA_K * MLDSA_L
    BY <1>1
  <2> QED  BY <2>1, EntryOf
<1>3. mat' = [mat EXCEPT ![row][col] = <<col, row>>]
  <2>1. seed_ext'[0] = SeedOf(entry)
    BY <1>1 DEF Sample1
  <2> QED  BY <2>1 DEF Sample1, SeedOf
<1>4. ASSUME NEW x \in 0 .. rows - 1, NEW y \in 0 .. cols - 1
      PROVE  (IF x = row /\ y = col THEN <<col, row>> ELSE mat[x][y])
               = IF x * cols + y < entry + 1 THEN <<y, x>> ELSE NoSeed
  <2>1. PICK e \in Nat : e = x * cols + y /\ e \div cols = x /\ e % cols = y
    BY PlaceOf
  <2>2. mat[x][y] = IF e < entry THEN <<y, x>> ELSE NoSeed
    BY <1>1, <2>1 DEF MatrixUpto
  <2>3. e = entry <=> x = row /\ y = col
    BY <1>2, <2>1
  <2>4. e < entry + 1 <=> e < entry \/ e = entry
    BY <1>1
  <2> QED  BY <2>1, <2>2, <2>3, <2>4
<1>5. mat = [x \in 0 .. rows - 1 |-> mat[x]] /\ \A x \in 0 .. rows - 1 : mat[x] = [y \in 0 .. cols - 1 |-> mat[x][y]]
  BY <1>1 DEF MatrixUpto
<1> HIDE DEF rows, cols, row, col
<1>6. mat' = [x \in 0 .. rows - 1 |-> [y \in 0 .. cols - 1 |-> IF x = row /\ y = col THEN <<col, row>> ELSE mat[x][y]]]
  BY <1>2, <1>3, <1>5
<1>7. mat' = [x \in 0 .. rows - 1 |-> [y \in 0 .. cols - 1 |->
               IF x * cols + y < entry + 1 THEN <<y, x>> ELSE NoSeed]]
  BY <1>4, <1>6
<1> QED  BY <1>7 DEF MatrixUpto, rows, cols

LEMMA NoMatrixIs ==
  ASSUME mode \in Modes
  PROVE  NoMatrix = MatrixUpto(MLDSA_K, MLDSA_L, 0)
<1>1. \A x \in 0 .. MLDSA_K - 1 : \A y \in 0 .. MLDSA_L - 1 : ~(x * MLDSA_L + y < 0)
  BY PlaceOf
<1> QED  BY <1>1 DEF NoMatrix, MatrixUpto

LEMMA MatrixStarts == KeyInit => MatrixInv
<1> SUFFICES ASSUME KeyInit PROVE MatrixInv
  OBVIOUS
<1>1. /\ mode \in Modes /\ kpc = "expand" /\ entry = 0 /\ lane = 0
      /\ seed_ext = [m \in 0 .. 3 |-> NoSeed] /\ mat = NoMatrix
  BY DEF KeyInit
<1>2. mat = MatrixUpto(MLDSA_K, MLDSA_L, Sampled)
  BY <1>1, NoMatrixIs DEF Sampled
<1>3. entry \in 0 .. MLDSA_K * MLDSA_L
  BY <1>1, BatchedFact
<1> QED  BY <1>1, <1>2, <1>3 DEF MatrixInv

LEMMA MatrixSteps == mode \in Modes /\ MatrixInv /\ [KeyNext]_kvars => MatrixInv'
<1> SUFFICES ASSUME mode \in Modes, MatrixInv, [KeyNext]_kvars PROVE MatrixInv'
  OBVIOUS
<1> USE DEF MatrixInv
<1>1. Batched \in Nat /\ Batched <= MLDSA_K * MLDSA_L /\ MLDSA_K * MLDSA_L \in Nat
  BY BatchedFact
<1>n. entry \in Nat /\ lane \in Nat
  BY <1>1
<1>2. CASE ExtendSeed
  <2>1. /\ kpc = "expand" /\ entry < Batched /\ lane < 4 /\ lane' = lane + 1
        /\ mode' = mode /\ kpc' = kpc /\ entry' = entry /\ mat' = mat
        /\ seed_ext' = [seed_ext EXCEPT ![lane] = SeedOf(entry + lane)]
    BY <1>2 DEF ExtendSeed
  <2>2. \A m \in 0 .. 3 : m < lane' => seed_ext'[m] = SeedOf(entry + m)
    <3> SUFFICES ASSUME NEW m \in 0 .. 3, m < lane + 1 PROVE seed_ext'[m] = SeedOf(entry + m)
      BY <2>1
    <3>1. m < lane \/ m = lane
      BY <1>n
    <3> QED  BY <2>1, <3>1
  <2>3. DOMAIN seed_ext' = 0 .. 3
    BY <2>1
  <2>4. lane' \in 0 .. 4 /\ ~(entry >= Batched)
    BY <1>1, <1>n, <2>1
  <2> QED  BY <2>1, <2>2, <2>3, <2>4, SameMode DEF Sampled
<1>3. CASE Sample4
  <2>1. /\ kpc = "expand" /\ entry < Batched /\ lane = 4 /\ lane' = 0 /\ entry' = entry + 4
        /\ mode' = mode /\ kpc' = kpc /\ seed_ext' = seed_ext
    BY <1>3 DEF Sample4
  <2>2. mat' = MatrixUpto(MLDSA_K, MLDSA_L, entry')
    BY <1>3, <2>1, Sample4Adds
  <2>3. entry' <= Batched /\ entry' % 4 = 0
    <3>1. entry % 4 = 0
      BY <2>1
    <3> QED  BY <1>n, <2>1, <3>1, BatchedFact
  <2>4. entry' \in 0 .. MLDSA_K * MLDSA_L
    BY <1>1, <1>n, <2>1, <2>3
  <2>5. \A m \in 0 .. 3 : ~(m < lane')
    BY <2>1
  <2> QED  BY <2>1, <2>2, <2>3, <2>4, <2>5, SameMode DEF Sampled
<1>4. CASE Sample1
  <2>1. /\ kpc = "expand" /\ entry >= Batched /\ entry < MLDSA_K * MLDSA_L /\ lane' = lane
        /\ entry' = entry + 1 /\ mode' = mode /\ kpc' = kpc
        /\ seed_ext' = [seed_ext EXCEPT ![0] = SeedOf(entry)]
    BY <1>4 DEF Sample1
  <2>2. mat' = MatrixUpto(MLDSA_K, MLDSA_L, entry')
    BY <1>4, <2>1, Sample1Adds
  <2>3. entry' \in 0 .. MLDSA_K * MLDSA_L /\ ~(entry' < Batched) /\ lane' = 0
    BY <1>1, <1>n, <2>1
  <2>4. \A m \in 0 .. 3 : ~(m < lane')
    BY <2>3
  <2>5. DOMAIN seed_ext' = 0 .. 3
    BY <2>1
  <2> QED  BY <2>1, <2>2, <2>3, <2>4, <2>5, SameMode DEF Sampled
<1>5. CASE ExpandDone
  <2>1. /\ kpc = "expand" /\ entry = MLDSA_K * MLDSA_L /\ kpc' \in {"short", "done"}
        /\ mode' = mode /\ entry' = entry /\ lane' = lane /\ mat' = mat
        /\ seed_ext' = [m \in 0 .. 3 |-> NoSeed]
    BY <1>5 DEF ExpandDone
  <2> QED  BY <2>1, SameMode DEF Sampled
<1>6. CASE SampleShort \/ PackPk
  <2>1. /\ kpc \in {"short", "pack"} /\ kpc' \in {"short", "pack"}
        /\ mode' = mode /\ entry' = entry /\ lane' = lane /\ mat' = mat /\ seed_ext' = seed_ext
    BY <1>6 DEF SampleShort, PackPk
  <2> QED  BY <2>1, SameMode DEF Sampled
<1>7. CASE PackSk
  <2>1. /\ kpc' = "keys" /\ mat' = NoMatrix
        /\ mode' = mode /\ entry' = entry /\ lane' = lane /\ seed_ext' = seed_ext
    BY <1>7 DEF PackSk
  <2> QED  BY <2>1, NoMatrixIs, SameMode DEF Sampled
<1>8. CASE UnpackSk \/ UnpackPk
  <2>1. /\ kpc = "keys" /\ kpc' = "expand" /\ entry' = 0 /\ lane' = 0
        /\ mode' = mode /\ mat' = mat /\ seed_ext' = seed_ext
    BY <1>8 DEF UnpackSk, UnpackPk, UnpackKey
  <2>2. entry' % 4 = 0 /\ entry' \in 0 .. MLDSA_K * MLDSA_L /\ \A m \in 0 .. 3 : ~(m < lane')
    BY <1>1, <2>1
  <2> QED  BY <2>1, <2>2, SameMode DEF Sampled
<1>9. CASE UNCHANGED kvars
  <2>1. UNCHANGED <<mode, kpc, entry, lane, mat, seed_ext>>
    BY <1>9 DEF kvars
  <2> QED  BY <2>1, SameMode DEF Sampled
<1> QED  BY <1>2, <1>3, <1>4, <1>5, <1>6, <1>7, <1>8, <1>9 DEF KeyNext

-------------------------------------------------------------------------------
(***************************************************************************)
(* The keys.                                                               *)
(***************************************************************************)
\* Every item of a buffer, found in its own place.
Echo(buf) == {<<p.item, p.item>> : p \in buf}

KeysInv ==
  /\ mode \in Modes /\ kpc \in {"expand", "short", "pack", "keys", "done"}
  /\ call \in 0 .. Len(EtaCalls) /\ ShortUpto(short, NoncesUsed(call))
  /\ pk \in {{}, Pieces(PkFields)} /\ sk \in {{}, Pieces(SkFields)}
  /\ kpc = "pack" => pk # {} /\ call = Len(EtaCalls)
  /\ kpc = "keys" => sk # {}
  /\ sk # {} => pk # {} /\ call = Len(EtaCalls)
  /\ key # {} => sk # {} /\ key \in {Echo(sk), Echo(pk)}

LEMMA SameParameters ==
  ASSUME mode' = mode
  PROVE  /\ EtaCalls' = EtaCalls /\ PkFields' = PkFields /\ SkFields' = SkFields
         /\ Pieces(PkFields)' = Pieces(PkFields) /\ Pieces(SkFields)' = Pieces(SkFields)
         /\ NoncesUsed(call)' = NoncesUsed(call')
<1>1. MLDSA_K' = MLDSA_K /\ MLDSA_L' = MLDSA_L
  BY SameMode
<1>2. EtaCalls' = EtaCalls
  BY DEF EtaCalls
<1>3. PkFields' = PkFields
  BY <1>1 DEF PkFields
<1>4. POLYETA_PACKEDBYTES' = POLYETA_PACKEDBYTES
  BY DEF POLYETA_PACKEDBYTES
<1>5. SkFields' = SkFields
  BY <1>1, <1>4 DEF SkFields
<1>6. NoncesUsed(call)' = NoncesUsed(call')
  BY DEF NoncesUsed
<1>7. Pieces(PkFields)' = Pieces(PkFields')  /\ Pieces(SkFields)' = Pieces(SkFields')
  OBVIOUS
<1> QED  BY <1>2, <1>3, <1>5, <1>6, <1>7

LEMMA SameShort ==
  ASSUME mode' = mode, NEW n, ShortUpto(short', n)
  PROVE  ShortUpto(short, n)'
BY SameMode DEF ShortUpto, ShortPolys

LEMMA KeysStart == KeyInit => KeysInv
<1> SUFFICES ASSUME KeyInit PROVE KeysInv
  OBVIOUS
<1>1. /\ mode \in Modes /\ kpc = "expand" /\ call = 0 /\ pk = {} /\ sk = {} /\ key = {}
      /\ short = [v \in ShortPolys |-> Junk]
  BY DEF KeyInit
<1>2. NoncesUsed(call) = 0 /\ call \in 0 .. Len(EtaCalls)
  BY <1>1, NumberOfCalls DEF NoncesUsed
<1>3. ShortUpto(short, 0)
  <2>1. \A l \in 0 .. MLDSA_L - 1 : ~(l < 0)
    OBVIOUS
  <2>2. \A m \in 0 .. MLDSA_K - 1 : ~(MLDSA_L + m < 0)
    BY <1>1, ModeFact
  <2> QED  BY <1>1, <2>1, <2>2 DEF ShortUpto
<1> QED  BY <1>1, <1>2, <1>3 DEF KeysInv

LEMMA KeysSteps == KeysInv /\ [KeyNext]_kvars => KeysInv'
<1> SUFFICES ASSUME KeysInv, [KeyNext]_kvars PROVE KeysInv'
  OBVIOUS
<1>1. mode \in Modes /\ Len(EtaCalls) \in Nat
  BY NumberOfCalls DEF KeysInv
<1>2. CASE ExtendSeed \/ Sample4 \/ Sample1 \/ ExpandDone \/ UNCHANGED kvars
  <2>1. /\ mode' = mode /\ short' = short /\ call' = call /\ pk' = pk /\ sk' = sk /\ key' = key
        /\ \/ kpc = "expand" /\ kpc' \in {"expand", "short", "done"}
           \/ kpc' = kpc
    BY <1>2 DEF ExtendSeed, Sample4, Sample1, ExpandDone, kvars
  <2>2. ShortUpto(short, NoncesUsed(call))'
    BY <2>1, SameShort, SameParameters DEF KeysInv
  <2> QED  BY <2>1, <2>2, SameParameters DEF KeysInv, Echo
<1>3. CASE SampleShort
  <2>1. /\ kpc = "short" /\ kpc' = "short" /\ call < Len(EtaCalls) /\ call' = call + 1
        /\ short' = Filled(EtaCalls[call + 1])
        /\ mode' = mode /\ pk' = pk /\ sk' = sk /\ key' = key
    BY <1>3 DEF SampleShort
  <2>2. call \in Nat /\ call' \in 0 .. Len(EtaCalls)
    BY <1>1, <2>1 DEF KeysInv
  <2>3. ShortUpto(short', NoncesUsed(call'))
    BY <1>1, <2>1, <2>2, ShortStep DEF KeysInv
  <2>4. ShortUpto(short, NoncesUsed(call))'
    BY <2>1, <2>3, SameShort, SameParameters
  <2>5. sk = {} /\ sk' = {} /\ key' = {}
    BY <1>1, <2>1, <2>2 DEF KeysInv
  <2> QED  BY <2>1, <2>2, <2>4, <2>5, SameParameters DEF KeysInv
<1>4. CASE PackPk
  <2>1. /\ kpc' = "pack" /\ call = Len(EtaCalls) /\ call' = call /\ short' = short
        /\ mode' = mode /\ pk' = Pieces(PkFields) /\ sk' = sk /\ key' = key
    BY <1>4 DEF PackPk
  <2>2. ShortUpto(short, NoncesUsed(call))'
    BY <2>1, SameShort, SameParameters DEF KeysInv
  <2>3. Pieces(PkFields) # {}
    BY <1>1, PublicKeyLayout
  <2>4. key # {} => pk = Pieces(PkFields)
    BY DEF KeysInv
  <2> QED  BY <2>1, <2>2, <2>3, <2>4, SameParameters DEF KeysInv, Echo
<1>5. CASE PackSk
  <2>1. /\ kpc = "pack" /\ kpc' = "keys" /\ call' = call /\ short' = short
        /\ mode' = mode /\ pk' = pk /\ sk' = Pieces(SkFields) /\ key' = key
    BY <1>5 DEF PackSk
  <2>2. ShortUpto(short, NoncesUsed(call))'
    BY <2>1, SameShort, SameParameters DEF KeysInv
  <2>3. Pieces(SkFields) # {}
    BY <1>1, SecretKeyLayout
  <2>4. key # {} => sk = Pieces(SkFields)
    BY DEF KeysInv
  <2> QED  BY <2>1, <2>2, <2>3, <2>4, SameParameters DEF KeysInv, Echo
<1>6. ASSUME NEW buf, NEW s, UnpackKey(buf, s), buf \in {sk, pk},
             kpc = "keys" => Layout(s) /\ buf = Pieces(s)
      PROVE  KeysInv'
  <2>1. /\ kpc = "keys" /\ kpc' = "expand" /\ call' = call /\ short' = short
        /\ mode' = mode /\ pk' = pk /\ sk' = sk /\ key' = Read(buf, s)
    BY <1>6 DEF UnpackKey
  <2>2. ShortUpto(short, NoncesUsed(call))'
    BY <2>1, SameShort, SameParameters DEF KeysInv
  <2>3. key' = Echo(buf)
    BY <1>6, <2>1, ReadBack DEF Echo
  <2>4. key' \in {Echo(sk'), Echo(pk')} /\ sk # {}
    BY <1>6, <2>1, <2>3 DEF KeysInv
  <2>5. (key \in {Echo(sk), Echo(pk)})' 
    BY <2>4 DEF Echo
  <2> QED  BY <2>1, <2>2, <2>4, <2>5, SameParameters DEF KeysInv
<1>7. CASE UnpackSk
  <2>1. UnpackKey(sk, SkFields)
    BY <1>7, SameFields DEF UnpackSk
  <2>2. kpc = "keys" => Layout(SkFields) /\ sk = Pieces(SkFields)
    BY <1>1, SecretKeyLayout DEF KeysInv
  <2> QED  BY <1>6, <2>1, <2>2
<1>8. CASE UnpackPk
  <2>1. UnpackKey(pk, PkFields)
    BY <1>8, SameFields DEF UnpackPk
  <2>2. kpc = "keys" => Layout(PkFields) /\ pk = Pieces(PkFields)
    BY <1>1, PublicKeyLayout DEF KeysInv
  <2> QED  BY <1>6, <2>1, <2>2
<1> QED  BY <1>2, <1>3, <1>4, <1>5, <1>7, <1>8 DEF KeyNext

LEMMA KeyMaterialInductive == KeySpec => [](KeysInv /\ MatrixInv)
<1>1. KeyInit => KeysInv /\ MatrixInv
  BY KeysStart, MatrixStarts
<1>2. KeysInv /\ MatrixInv /\ [KeyNext]_kvars => (KeysInv /\ MatrixInv)'
  BY KeysSteps, MatrixSteps DEF KeysInv
<1> QED  BY <1>1, <1>2, PTL DEF KeySpec

\* KeyTypeOK: the pieces of a key fill its buffer, with no gap or overlap, and no
\* entry outside the matrix or the vectors is written.
THEOREM KeyTypeCorrect == KeySpec => []KeyTypeOK
<1>1. KeysInv /\ MatrixInv => KeyTypeOK
  <2> SUFFICES ASSUME KeysInv, MatrixInv PROVE KeyTypeOK
    OBVIOUS
  <2>1. mode \in Modes
    BY DEF KeysInv
  <2>2. pk = {} \/ Fill(pk, CRYPTO_PUBLICKEYBYTES)
    BY <2>1, PublicKeyLayout DEF KeysInv
  <2>3. sk = {} \/ Fill(sk, CRYPTO_SECRETKEYBYTES)
    BY <2>1, SecretKeyLayout DEF KeysInv
  <2> QED  BY <2>2, <2>3 DEF KeysInv, MatrixInv, KeyTypeOK, ShortUpto
<1> QED  BY <1>1, KeyMaterialInductive, PTL

\* MatrixIsExpandA: key generation, the signer and the verifier work with the same
\* matrix, entry (x, y) from rho, y and x, in every parameter set.
THEOREM MatrixExpanded == KeySpec => []MatrixIsExpandA
<1>1. KeysInv /\ MatrixInv => MatrixIsExpandA
  <2> SUFFICES ASSUME KeysInv, MatrixInv,
                      NEW x \in 0 .. MLDSA_K - 1, NEW y \in 0 .. MLDSA_L - 1
               PROVE  /\ mat[x][y] \in {NoSeed, <<y, x>>}
                      /\ kpc \in {"short", "pack", "done"} => mat[x][y] # NoSeed
    BY DEF MatrixIsExpandA
  <2>1. mode \in Modes
    BY DEF KeysInv
  <2>2. mat[x][y] = IF x * MLDSA_L + y < Sampled THEN <<y, x>> ELSE NoSeed
    BY DEF MatrixInv, MatrixUpto
  <2>3. kpc \in {"short", "pack", "done"} => x * MLDSA_L + y < Sampled
    BY <2>1, PlaceOf DEF MatrixInv, Sampled
  <2>4. <<y, x>> # NoSeed
    BY DEF NoSeed
  <2> QED  BY <2>2, <2>3, <2>4
<1> QED  BY <1>1, KeyMaterialInductive, PTL

\* ShortIsExpandS: every polynomial of s1 and s2 is from a nonce of its own, the one
\* FIPS 204 gives it, whatever the lanes that are irrelevant have left there.
THEOREM ShortExpanded == KeySpec => []ShortIsExpandS
<1>1. KeysInv => ShortIsExpandS
  <2> SUFFICES ASSUME KeysInv, sk # {}
               PROVE  /\ \A l \in 0 .. MLDSA_L - 1 : short[V1(l)] = l
                      /\ \A m \in 0 .. MLDSA_K - 1 : short[V2(m)] = MLDSA_L + m
    BY DEF ShortIsExpandS
  <2>1. mode \in Modes /\ MLDSA_L \in Nat /\ MLDSA_K \in Nat
    BY ModeFact DEF KeysInv
  <2>2. NoncesUsed(call) = MLDSA_L + MLDSA_K
    BY <2>1, NumberOfCalls DEF KeysInv
  <2>3. /\ \A l \in 0 .. MLDSA_L - 1 : l < MLDSA_L + MLDSA_K
        /\ \A m \in 0 .. MLDSA_K - 1 : MLDSA_L + m < MLDSA_L + MLDSA_K
    BY <2>1
  <2> QED  BY <2>2, <2>3 DEF KeysInv, ShortUpto
<1> QED  BY <1>1, KeyMaterialInductive, PTL

\* UnpackedAsPacked: the signer and the verifier read each item of a key where the
\* key generation has put it, and all of them.
THEOREM KeysUnpackAsPacked == KeySpec => []UnpackedAsPacked
<1>1. KeysInv => UnpackedAsPacked
  <2> SUFFICES ASSUME KeysInv, key # {}
               PROVE  /\ \A e \in key : e[1] = e[2]
                      /\ {e[1] : e \in key} \in {{p.item : p \in sk}, {p.item : p \in pk}}
    BY DEF UnpackedAsPacked
  <2>1. ASSUME NEW buf, key = Echo(buf)
        PROVE  /\ \A e \in key : e[1] = e[2]
               /\ {e[1] : e \in key} = {p.item : p \in buf}
    <3>1. ASSUME NEW e \in key
          PROVE  \E p \in buf : e[1] = p.item /\ e[2] = p.item
      BY <2>1, <3>1 DEF Echo
    <3>2. ASSUME NEW p \in buf
          PROVE  \E e \in key : e[1] = p.item
      <4>1. <<p.item, p.item>> \in key
        BY <2>1, <3>2 DEF Echo
      <4>2. <<p.item, p.item>>[1] = p.item
        OBVIOUS
      <4> QED  BY <4>1, <4>2
    <3>3. \A e \in key : e[1] = e[2]
      BY <3>1
    <3> DEFINE First == {e[1] : e \in key}
               Packed == {p.item : p \in buf}
    <3>4. \A x \in First : x \in Packed
      BY <3>1
    <3>5. \A x \in Packed : x \in First
      <4> SUFFICES ASSUME NEW p \in buf  PROVE p.item \in First
        OBVIOUS
      <4> QED  BY <3>2
    <3>6. First = Packed
      <4> HIDE DEF First, Packed
      <4> QED  BY <3>4, <3>5
    <3> QED  BY <3>3, <3>6
  <2>2. key = Echo(sk) \/ key = Echo(pk)
    BY DEF KeysInv
  <2> QED  BY <2>1, <2>2
<1> QED  BY <1>1, KeyMaterialInductive, PTL
==================================================================================
