-------------------------- MODULE CoefficientProofs --------------------------
(***************************************************************************)
(* Proofs about Coefficient, for every coefficient and every product that  *)
(* its bounds allow, and at the end about Intervals.  Ranges are written   *)
(* as inequalities and every leaf names SMT: the numbers are too large for *)
(* a range to be enumerated.                                               *)
(***************************************************************************)
EXTENDS Coefficient, TLAPS

\* rounding.c, mld_power2round: its contract, with the halves in order.
LEMMA Power2RoundSplits ==
  ASSUME NEW a, Below(a, Q)
  PROVE  /\ Below(Power2RoundHigh(a), 1024)
         /\ Power2RoundLow(a) \in Int
         /\ -4096 < Power2RoundLow(a) /\ Power2RoundLow(a) <= 4096
         /\ Power2RoundHigh(a) * 8192 + Power2RoundLow(a) = a
BY SMT DEF Power2RoundHigh, Power2RoundLow, Below, Q

\* reduce.c, mld_reduce32: small values are their own representatives.
LEMMA Reduce32Small ==
  ASSUME NEW a \in Int, -4194304 <= a, a < 4194304
  PROVE  Reduce32(a) = a
BY SMT DEF Reduce32, Q

\* rounding.c, mld_decompose: the parts that FIPS 204 defines.
LEMMA DecomposeMode2 ==
  ASSUME NEW a, Below(a, Q)
  PROVE  /\ Below(DecomposeHigh(2, a), 44)
         /\ Bounded(DecomposeLow(2, a), 95232)
         /\ HighLow(2, a) = <<DecomposeHigh(2, a), DecomposeLow(2, a)>>
<1>1. Below(DecomposeHigh(2, a), 44)
  BY SMT DEF DecomposeHigh, Below, Q
<1>2. Bounded(DecomposeLow(2, a), 95232)
  BY SMT DEF DecomposeLow, DecomposeHigh, GAMMA2, Below, Bounded, AbsValue, Q
<1>3. HighLow(2, a) = <<DecomposeHigh(2, a), DecomposeLow(2, a)>>
  BY SMTT(60) DEF DecomposeLow, DecomposeHigh, GAMMA2, HighLow, CentredMod, Below, Q
<1>. QED  BY SMT, <1>1, <1>2, <1>3

LEMMA DecomposeMode35 ==
  ASSUME NEW a, Below(a, Q), NEW m \in {3, 5}
  PROVE  /\ Below(DecomposeHigh(m, a), 16)
         /\ Bounded(DecomposeLow(m, a), 261888)
         /\ HighLow(m, a) = <<DecomposeHigh(m, a), DecomposeLow(m, a)>>
<1>1. Below(DecomposeHigh(m, a), 16)
  BY SMT DEF DecomposeHigh, Below, Q
<1>2. Bounded(DecomposeLow(m, a), 261888)
  BY SMTT(60) DEF DecomposeLow, DecomposeHigh, GAMMA2, Below, Bounded, AbsValue, Q
<1>3. HighLow(m, a) = <<DecomposeHigh(m, a), DecomposeLow(m, a)>>
  BY SMTT(60) DEF DecomposeLow, DecomposeHigh, GAMMA2, HighLow, CentredMod, Below, Q
<1>. QED  BY SMT, <1>1, <1>2, <1>3

LEMMA DecomposeIsHighLow ==
  ASSUME NEW a, Below(a, Q), NEW m \in {2, 3, 5}
  PROVE  /\ Below(DecomposeHigh(m, a), HighCount(m))
         /\ Bounded(DecomposeLow(m, a), GAMMA2(m))
         /\ HighLow(m, a) = <<DecomposeHigh(m, a), DecomposeLow(m, a)>>
<1>1. CASE m = 2
  BY SMT, <1>1, DecomposeMode2 DEF HighCount, GAMMA2
<1>2. CASE m # 2
  BY SMT, <1>2, DecomposeMode35 DEF HighCount, GAMMA2
<1>. QED  BY SMT, <1>1, <1>2

-------------------------------------------------------------------------------
(* Which sums h * 2 GAMMA2 + l have high part h and low part l: all those  *)
(* with |l| < GAMMA2, where a negative sum stands for sum + Q.             *)

LEMMA HighLowOfSum2 ==
  ASSUME NEW h, Below(h, 44), NEW l \in Int, -95232 < l, l < 95232,
         NEW x \in Int, NEW k \in {-1, 0, 1}, x = h * 190464 + l + k * Q
  PROVE  HighLow(2, x % Q) = <<h, l>>
BY SMTT(60) DEF HighLow, CentredMod, GAMMA2, Below, Q

LEMMA HighLowOfSum35 ==
  ASSUME NEW h, Below(h, 16), NEW l \in Int, -261888 < l, l < 261888, NEW m \in {3, 5},
         NEW x \in Int, NEW k \in {-1, 0, 1}, x = h * 523776 + l + k * Q
  PROVE  HighLow(m, x % Q) = <<h, l>>
BY SMTT(60) DEF HighLow, CentredMod, GAMMA2, Below, Q

-------------------------------------------------------------------------------
(* The check of w0 - c s2: beyond the bound, w - c s2 has a large low part *)
(* too, whether or not it lies in the same interval.                       *)

LEMMA DecomposeSum ==
  ASSUME NEW a, Below(a, Q), NEW m \in {2, 3, 5}
  PROVE  \E k \in {0, 1} : a = DecomposeHigh(m, a) * (2 * GAMMA2(m)) + DecomposeLow(m, a) + k * Q
<1>1. CASE m = 2
  BY SMT, <1>1, DecomposeIsHighLow DEF DecomposeLow, GAMMA2, HighCount, Below, Bounded, Q
<1>2. CASE m # 2
  BY SMT, <1>2, DecomposeIsHighLow DEF DecomposeLow, GAMMA2, HighCount, Below, Bounded, Q
<1>. QED  BY SMT, <1>1, <1>2

LEMMA ModIsShift ==
  ASSUME NEW x \in Int, -Q < x, x < 2 * Q
  PROVE  Below(x % Q, Q) /\ \E n \in {-1, 0, 1} : x % Q = x + n * Q
BY SMT DEF Below, Q

LEMMA LargeStaysLarge ==
  ASSUME NEW a, Below(a, Q), NEW m \in {2, 3, 5}, NEW p, Bounded(p, BETA(m)),
         AbsValue(DecomposeLow(m, a) - p) >= GAMMA2(m) - BETA(m)
  PROVE  AbsValue(HighLow(m, (a - p) % Q)[2]) >= GAMMA2(m) - BETA(m)
<1>. DEFINE b == (a - p) % Q
            h == DecomposeHigh(m, a)   l == DecomposeLow(m, a)
            i == DecomposeHigh(m, b)   r == DecomposeLow(m, b)
<1>1. Below(b, Q) /\ \E n \in {-1, 0, 1} : b = a - p + n * Q
  BY SMT, ModIsShift DEF Below, Bounded, AbsValue, BETA, Q
<1>2. Below(h, HighCount(m)) /\ Bounded(l, GAMMA2(m))
  BY SMT, DecomposeIsHighLow
<1>3. Below(i, HighCount(m)) /\ Bounded(r, GAMMA2(m)) /\ HighLow(m, b)[2] = r
  BY SMT, <1>1, DecomposeIsHighLow
<1>4. PICK k \in {0, 1} : a = h * (2 * GAMMA2(m)) + l + k * Q
  BY SMT, DecomposeSum
<1>5. PICK j \in {0, 1} : b = i * (2 * GAMMA2(m)) + r + j * Q
  BY SMT, <1>1, DecomposeSum
<1>6. PICK n \in {-1, 0, 1} : b = a - p + n * Q
  BY SMT, <1>1
<1>. HIDE DEF b, h, l, i, r
<1>7. AbsValue(l - p) >= GAMMA2(m) - BETA(m)
  BY SMT DEF l
<1>8. AbsValue(r) >= GAMMA2(m) - BETA(m)
  <2>. DEFINE c == k + n - j   e == i - h
  <2>1. e * (2 * GAMMA2(m)) = l - p - r + c * Q
    BY SMT, <1>2, <1>3, <1>4, <1>5, <1>6 DEF Below, Bounded, HighCount, GAMMA2, Q
  <2>2. e \in Int /\ -HighCount(m) < e /\ e < HighCount(m)
    BY SMT, <1>2, <1>3 DEF Below, HighCount
  <2>. HIDE DEF c, e
  <2>3. c \in {-1, 0, 1}
    <3>1. c \in Int
      BY SMT DEF c
    <3>. QED
      BY SMTT(60), <3>1, <2>1, <2>2, <1>2, <1>3
         DEF GAMMA2, BETA, HighCount, Bounded, AbsValue, Q
  <2>4. CASE c = 0
    <3>1. e \in {-1, 0, 1}
      BY SMTT(60), <2>4, <2>1, <2>2, <1>2, <1>3 DEF GAMMA2, BETA, Bounded, AbsValue, Q
    <3>2. CASE e = 0
      <4>1. r = l - p
        BY SMT, <3>2, <2>4, <2>1, <1>2, <1>3 DEF GAMMA2, Bounded, Q
      <4>. QED  BY SMT, <4>1, <1>7
    <3>3. CASE e # 0
      BY SMTT(60), <3>1, <3>3, <2>4, <2>1, <1>2, <1>3 DEF GAMMA2, BETA, Bounded, AbsValue, Q
    <3>. QED  BY SMT, <3>2, <3>3
  <2>5. CASE c = 1
    <3>1. e = HighCount(m) - 1
      BY SMTT(60), <2>5, <2>1, <2>2, <1>2, <1>3
         DEF GAMMA2, BETA, HighCount, Bounded, AbsValue, Q
    <3>. QED
      BY SMTT(60), <3>1, <2>5, <2>1, <1>2, <1>3, <1>7
         DEF GAMMA2, BETA, HighCount, Bounded, AbsValue, Q
  <2>6. CASE c = -1
    <3>1. e = 1 - HighCount(m)
      BY SMTT(60), <2>6, <2>1, <2>2, <1>2, <1>3
         DEF GAMMA2, BETA, HighCount, Bounded, AbsValue, Q
    <3>. QED
      BY SMTT(60), <3>1, <2>6, <2>1, <1>2, <1>3, <1>7
         DEF GAMMA2, BETA, HighCount, Bounded, AbsValue, Q
  <2>. QED  BY SMT, <2>3, <2>4, <2>5, <2>6
<1>. QED  BY SMT, <1>3, <1>8 DEF b

(* The hint: with r0 = w0 - c s2 and p = c t0 both below GAMMA2, the hint  *)
(* says whether the high part of the sum differs from h.                   *)

LEMMA HintSaysChange ==
  ASSUME NEW m \in {2, 3, 5}, NEW h, Below(h, HighCount(m)),
         NEW r0 \in Int, AbsValue(r0) < GAMMA2(m), NEW p \in Int, AbsValue(p) < GAMMA2(m),
         NEW x \in Int, NEW k \in {-1, 0, 1}, x = h * (2 * GAMMA2(m)) + r0 + p + k * Q
  PROVE  MakeHint(m, r0 + p, h) = 1 <=> HighLow(m, x % Q)[1] # h
<1>1. CASE m = 2
  BY SMTT(60), <1>1 DEF MakeHint, HighLow, CentredMod, GAMMA2, HighCount, Below, AbsValue, Q
<1>2. CASE m # 2
  BY SMTT(60), <1>2 DEF MakeHint, HighLow, CentredMod, GAMMA2, HighCount, Below, AbsValue, Q
<1>. QED  BY SMT, <1>1, <1>2

(* mld_use_hint undoes the change. *)
LEMMA UseHintUndoes ==
  ASSUME NEW m \in {2, 3, 5}, NEW h, Below(h, HighCount(m)),
         NEW r0 \in Int, AbsValue(r0) < GAMMA2(m), NEW p \in Int, AbsValue(p) < GAMMA2(m),
         NEW x \in Int, NEW k \in {-1, 0, 1}, x = h * (2 * GAMMA2(m)) + r0 + p + k * Q
  PROVE  UseHint(m, x % Q, MakeHint(m, r0 + p, h)) = h
<1>. DEFINE b == x % Q
            hint1 == MakeHint(m, r0 + p, h)
            i == DecomposeHigh(m, b)   r == DecomposeLow(m, b)
<1>1. Below(b, Q) /\ \E n \in Int : b = x + n * Q
  <2>1. Below(b, Q) /\ b = x + (-(x \div Q)) * Q /\ -(x \div Q) \in Int
    BY SMT DEF Below, Q
  <2>. QED  BY SMT, <2>1
<1>2. /\ Below(i, HighCount(m)) /\ Bounded(r, GAMMA2(m))
      /\ HighLow(m, b) = <<i, r>>
  BY SMT, <1>1, DecomposeIsHighLow
<1>3. PICK j \in {0, 1} : b = i * (2 * GAMMA2(m)) + r + j * Q
  BY SMT, <1>1, DecomposeSum
<1>4. PICK n \in Int : b = x + n * Q
  BY SMT, <1>1
<1>5. hint1 = 1 <=> i # h
  BY SMT, <1>2, HintSaysChange
<1>6. hint1 \in {0, 1}
  BY SMT DEF MakeHint
<1>. HIDE DEF b, i, r, hint1
<1>7. CASE i = h
  BY SMT, <1>5, <1>6, <1>7 DEF UseHint, b, i, hint1
<1>8. CASE i # h
  <2>. DEFINE d == (k + n - j) * Q
  <2>1. (i - h) * (2 * GAMMA2(m)) = r0 + p - r + d
    BY SMT, <1>3, <1>4, <1>2 DEF Below, Bounded, HighCount, GAMMA2, Q
  <2>2. k + n - j \in {-1, 0, 1}
    BY SMTT(60), <1>3, <1>4, <1>2, <1>1 DEF Below, Bounded, HighCount, GAMMA2, Q, AbsValue
  <2>3. \/ r <= 0 /\ (i = h + 1 \/ (i = 0 /\ h = HighCount(m) - 1))
        \/ r > 0 /\ (i = h - 1 \/ (h = 0 /\ i = HighCount(m) - 1))
    <3>1. CASE m = 2
      BY SMTT(60), <3>1, <2>1, <2>2, <1>2, <1>8
         DEF Below, Bounded, HighCount, GAMMA2, Q, AbsValue
    <3>2. CASE m # 2
      BY SMTT(60), <3>2, <2>1, <2>2, <1>2, <1>8
         DEF Below, Bounded, HighCount, GAMMA2, Q, AbsValue
    <3>. QED  BY SMT, <3>1, <3>2
  <2>4. hint1 = 1
    BY SMT, <1>5, <1>8
  <2>. QED
    BY SMT, <2>3, <2>4, <1>2 DEF UseHint, b, i, r, hint1, Below, Bounded, HighCount
<1>. QED  BY SMT, <1>7, <1>8

LEMMA HighLowOfSum ==
  ASSUME NEW m \in {2, 3, 5}, NEW h, Below(h, HighCount(m)),
         NEW l \in Int, AbsValue(l) < GAMMA2(m),
         NEW x \in Int, NEW k \in {-1, 0, 1}, x = h * (2 * GAMMA2(m)) + l + k * Q
  PROVE  HighLow(m, x % Q) = <<h, l>>
<1>1. CASE m = 2
  <2>1. Below(h, 44) /\ -95232 < l /\ l < 95232 /\ x = h * 190464 + l + k * Q
    BY SMT, <1>1 DEF HighCount, GAMMA2, AbsValue, Below, Q
  <2>. QED  BY SMT, <1>1, <2>1, HighLowOfSum2
<1>2. CASE m # 2
  <2>1. Below(h, 16) /\ -261888 < l /\ l < 261888 /\ x = h * 523776 + l + k * Q
    BY SMT, <1>2 DEF HighCount, GAMMA2, AbsValue, Below, Q
  <2>. QED  BY SMT, <1>2, <2>1, HighLowOfSum35
<1>. QED  BY SMT, <1>1, <1>2

-------------------------------------------------------------------------------
(* The inductive invariant.  ChecksLowBits speaks of remainders modulo Q;  *)
(* what a step needs is the sum itself, with the one Q that decompose may  *)
(* have taken away, and the bounds that the checks established.            *)

SumIs(x, l) == \E k \in {0, 1} : x = w1 * (2 * GAMMA2(mode)) + l + k * Q

MaskInv ==
  pc \in {"z_sent", "z_used"} => AbsValue(z) < GAMMA1(mode) - BETA(mode)

LowInv ==
  /\ pc = "committed" => w1 = DecomposeHigh(mode, w) /\ w0 = DecomposeLow(mode, w)
  /\ pc = "w0_kept" =>
       AbsValue(w0) < GAMMA2(mode) - BETA(mode) /\ SumIs(w - cs2, w0)
  /\ pc = "w0_rejected" =>
       AbsValue(HighLow(mode, (w - cs2) % Q)[2]) >= GAMMA2(mode) - BETA(mode)

HintInv ==
  /\ pc = "hinted" =>
       /\ AbsValue(w0 - ct0) < GAMMA2(mode) - BETA(mode) /\ AbsValue(ct0) < GAMMA2(mode)
       /\ SumIs(w - cs2, w0 - ct0)
       /\ hint = MakeHint(mode, w0, w1)
  /\ pc = "recovered" => found = PackW1(mode, w1)

IInv == TypeOK /\ UnpackedIsPacked /\ MaskInv /\ LowInv /\ HintInv

LEMMA InitIInv == Init => IInv
BY SMT, CoefficientAssumption DEF Init, IInv, TypeOK, UnpackedIsPacked, MaskInv, LowInv, HintInv, Below, Bounded,
   AbsValue, ETA, TAU, BETA, GAMMA1, GAMMA2, HighCount, Q

LEMMA RoundKeyStep == IInv /\ RoundKey => IInv'
<1>. SUFFICES ASSUME IInv, RoundKey PROVE IInv'
  OBVIOUS
<1>1. mode \in {2, 3, 5} /\ mode' = mode
  BY SMT, CoefficientAssumption DEF IInv, TypeOK, RoundKey
<1>2. PICK r \in Raw, e \in Within(Short, ETA(mode)) :
        s2' = e /\ t' = Caddq(r + e) /\ sks2' = PackEta(mode, e)
  BY SMT DEF RoundKey
<1>3. e \in Int /\ AbsValue(e) <= ETA(mode) /\ r \in Int /\ -INTT_BOUND < r /\ r < INTT_BOUND
  BY SMT, CoefficientAssumption DEF Within
<1>4. Below(t', Q)
  BY SMT, <1>1, <1>2, <1>3 DEF Caddq, Below, AbsValue, ETA, INTT_BOUND, Q
<1>5. pkt1' = PackT1(Power2RoundHigh(t')) /\ skt0' = PackT0(Power2RoundLow(t'))
  BY SMT DEF RoundKey
<1>6. Below(pkt1', 1024) /\ Below(skt0', 8192) /\ UnpackT1(pkt1') * 8192 + UnpackT0(skt0') = t'
  <2>. DEFINE h == Power2RoundHigh(t')   l == Power2RoundLow(t')
  <2>1. /\ Below(h, 1024) /\ l \in Int /\ -4096 < l /\ l <= 4096
        /\ h * 8192 + l = t'
    BY SMT, <1>4, Power2RoundSplits
  <2>. HIDE DEF h, l
  <2>2. pkt1' = PackT1(h) /\ skt0' = PackT0(l)
    BY SMT, <1>5 DEF h, l
  <2>. QED
    BY SMT, <2>1, <2>2 DEF PackT1, PackT0, UnpackT1, UnpackT0, Below
<1>7. Below(sks2', 2 * ETA(mode) + 1) /\ UnpackEta(mode, sks2') = s2'
  BY SMT, <1>1, <1>2, <1>3 DEF PackEta, UnpackEta, Below, AbsValue, ETA
<1>8. TypeOK'
  BY SMT, <1>1, <1>2, <1>3, <1>4, <1>6, <1>7
     DEF IInv, TypeOK, RoundKey, maskVars, commitVars, Bounded
<1>9. UnpackedIsPacked'
  BY SMT, <1>1, <1>6, <1>7 DEF UnpackedIsPacked, RoundKey
<1>. QED
  BY SMT, <1>8, <1>9 DEF IInv, MaskInv, LowInv, HintInv, RoundKey

LEMMA MaskSecretStep == IInv /\ MaskSecret => IInv'
<1>. SUFFICES ASSUME IInv, MaskSecret PROVE IInv'
  OBVIOUS
<1>1. mode \in {2, 3, 5} /\ mode' = mode
  BY SMT, CoefficientAssumption DEF IInv, TypeOK, MaskSecret
<1>. DEFINE B == GAMMA1(mode) - BETA(mode)
<1>2. PICK e \in {x \in Masks : -GAMMA1(mode) < x /\ x <= GAMMA1(mode)},
           p \in Within(ShortProducts, BETA(mode)) :
             /\ y' = e /\ cs1' = p
             /\ \/ Chknorm(Reduce32(p + e), B) /\ pc' = "z_rejected" /\ z' = Reduce32(p + e)
                \/ /\ ~ Chknorm(Reduce32(p + e), B) /\ pc' = "z_sent"
                   /\ z' = UnpackZ(mode, PackZ(mode, Reduce32(p + e)))
  BY SMT DEF MaskSecret
<1>3. e \in Int /\ p \in Int /\ AbsValue(p) <= BETA(mode)
  BY SMT, CoefficientAssumption DEF Within
<1>4. Reduce32(p + e) = p + e /\ AbsValue(p + e) <= GAMMA1(mode) + BETA(mode)
  <2>1. /\ -4194304 <= p + e /\ p + e < 4194304
        /\ AbsValue(p + e) <= GAMMA1(mode) + BETA(mode)
    BY SMT, <1>1, <1>2, <1>3 DEF AbsValue, GAMMA1, BETA
  <2>. QED  BY SMT, <1>3, <2>1, Reduce32Small
<1>5. z' = p + e /\ (pc' = "z_sent" => AbsValue(z') < B)
  BY SMT, <1>1, <1>2, <1>3, <1>4 DEF Chknorm, AbsValue, PackZ, UnpackZ, GAMMA1, BETA
<1>6. TypeOK'
  BY SMT, <1>1, <1>2, <1>3, <1>4, <1>5
     DEF IInv, TypeOK, MaskSecret, keyVars, commitVars, Bounded
<1>7. UnpackedIsPacked' /\ MaskInv'
  BY SMT, <1>1, <1>2, <1>3, <1>5 DEF UnpackedIsPacked, MaskInv
<1>. QED
  BY SMT, <1>2, <1>6, <1>7 DEF IInv, LowInv, HintInv

LEMMA VerifyNormStep == IInv /\ VerifyNorm => IInv'
<1>. SUFFICES ASSUME IInv, VerifyNorm PROVE IInv'
  OBVIOUS
<1>1. mode \in {2, 3, 5} /\ mode' = mode
  BY SMT, CoefficientAssumption DEF IInv, TypeOK, VerifyNorm
<1>2. pc' = "z_used"
  BY SMT, <1>1 DEF IInv, TypeOK, MaskInv, VerifyNorm, Chknorm, Bounded, AbsValue, GAMMA1, BETA
<1>3. TypeOK'
  BY SMT, <1>1, <1>2
     DEF IInv, TypeOK, VerifyNorm, keyVars, maskVars, commitVars
<1>. QED
  BY SMT, <1>1, <1>2, <1>3
     DEF IInv, UnpackedIsPacked, MaskInv, LowInv, HintInv, VerifyNorm, maskVars

LEMMA DecomposeStep == IInv /\ Decompose => IInv'
<1>. SUFFICES ASSUME IInv, Decompose PROVE IInv'
  OBVIOUS
<1>1. mode \in {2, 3, 5} /\ mode' = mode
  BY SMT, CoefficientAssumption DEF IInv, TypeOK, Decompose
<1>2. Below(w', Q)
  BY SMT, CoefficientAssumption DEF Decompose, Caddq, Below, INTT_BOUND, Q
<1>3. w1' = DecomposeHigh(mode, w') /\ w0' = DecomposeLow(mode, w') /\ pc' = "committed"
  BY SMT DEF Decompose
<1>4. Below(w1', HighCount(mode)) /\ Bounded(w0', GAMMA2(mode))
  BY SMT, <1>1, <1>2, <1>3, DecomposeIsHighLow
<1>5. Bounded(w0', 2 * GAMMA2(mode))
  <2>1. w0' \in Int /\ AbsValue(w0') <= GAMMA2(mode)
    BY SMT, <1>4 DEF Bounded
  <2>2. AbsValue(w0') <= 2 * GAMMA2(mode)
    <3>1. AbsValue(w0') \in Int
      BY SMT, <2>1 DEF AbsValue
    <3>2. GAMMA2(mode) \in Int /\ 0 <= GAMMA2(mode)
      BY SMT DEF GAMMA2
    <3>. QED  BY SMT, <2>1, <3>1, <3>2
  <2>. QED  BY SMT, <2>1, <2>2 DEF Bounded
<1>6. TypeOK'
  BY SMT, <1>1, <1>2, <1>3, <1>4, <1>5
     DEF IInv, TypeOK, Decompose, keyVars, maskVars
<1>7. LowInv'
  BY SMT, <1>1, <1>3 DEF LowInv
<1>. QED
  BY SMT, <1>3, <1>6, <1>7 DEF IInv, UnpackedIsPacked, MaskInv, HintInv

LEMMA CheckLowStep == IInv /\ CheckLow => IInv'
<1>. SUFFICES ASSUME IInv, CheckLow PROVE IInv'
  OBVIOUS
<1>1. mode \in {2, 3, 5} /\ mode' = mode /\ w' = w /\ w1' = w1
  BY SMT, CoefficientAssumption DEF IInv, TypeOK, CheckLow
<1>. DEFINE B == GAMMA2(mode) - BETA(mode)
<1>2. PICK p \in Within(ShortProducts, BETA(mode)) : cs2' = p /\ w0' = Reduce32(w0 - p)
  BY SMT DEF CheckLow
<1>3. Bounded(p, BETA(mode))
  BY SMT, CoefficientAssumption DEF Within, Bounded
<1>4. /\ Below(w, Q) /\ w1 = DecomposeHigh(mode, w) /\ w0 = DecomposeLow(mode, w)
  BY SMT DEF IInv, TypeOK, LowInv, CheckLow
<1>5. Below(w1, HighCount(mode)) /\ Bounded(w0, GAMMA2(mode))
  BY SMT, <1>1, <1>4, DecomposeIsHighLow
<1>6. w0' = w0 - p /\ Bounded(w0', 2 * GAMMA2(mode))
  <2>1. /\ w0 - p \in Int /\ -4194304 <= w0 - p /\ w0 - p < 4194304
        /\ AbsValue(w0 - p) <= 2 * GAMMA2(mode)
    BY SMT, <1>1, <1>3, <1>5 DEF AbsValue, Bounded, GAMMA2, BETA
  <2>. QED  BY SMT, <1>2, <2>1, Reduce32Small DEF Bounded
<1>7. PICK k \in {0, 1} : w = w1 * (2 * GAMMA2(mode)) + w0 + k * Q
  BY SMT, <1>1, <1>4, DecomposeSum
<1>8. TypeOK'
  BY SMT, <1>1, <1>2, <1>3, <1>6
     DEF IInv, TypeOK, CheckLow, keyVars, maskVars
<1>9. CASE Chknorm(w0', B)
  <2>1. pc' = "w0_rejected" /\ AbsValue(w0 - p) >= B
    BY SMT, <1>1, <1>6, <1>9 DEF CheckLow, Chknorm, Bounded, AbsValue, GAMMA2, BETA
  <2>2. AbsValue(HighLow(mode, (w' - cs2') % Q)[2]) >= B
    BY SMT, <2>1, <1>1, <1>2, <1>3, <1>4, LargeStaysLarge
  <2>3. LowInv'
    BY SMT, <2>1, <2>2, <1>1 DEF LowInv
  <2>. QED
    BY SMT, <1>8, <2>1, <2>3 DEF IInv, UnpackedIsPacked, MaskInv, HintInv
<1>10. CASE ~ Chknorm(w0', B)
  <2>1. pc' = "w0_kept" /\ AbsValue(w0') < B
    BY SMT, <1>1, <1>6, <1>10 DEF CheckLow, Chknorm, Bounded, AbsValue, GAMMA2, BETA
  <2>2. w' - cs2' = w1' * (2 * GAMMA2(mode)) + w0' + k * Q
    <3>. DEFINE a == w1 * (2 * GAMMA2(mode))   b == k * Q
    <3>1. a \in Int /\ b \in Int /\ p \in Int /\ w0 \in Int
      BY SMT, <1>3, <1>5 DEF Below, Bounded, GAMMA2, Q
    <3>2. w' - cs2' = w - p /\ w = a + w0 + b /\ w0' = w0 - p
      BY SMT, <1>1, <1>2, <1>6, <1>7
    <3>3. w1' * (2 * GAMMA2(mode)) = a
      BY SMT, <1>1
    <3>. HIDE DEF a, b
    <3>4. w - p = a + w0' + b
      BY SMT, <3>1, <3>2
    <3>5. w' - cs2' = w1' * (2 * GAMMA2(mode)) + w0' + b
      BY SMT, <3>2, <3>3, <3>4
    <3>. QED  BY SMT, <3>5 DEF b
  <2>3. SumIs(w - cs2, w0)'
    BY SMT, <2>2, <1>1 DEF SumIs
  <2>4. LowInv'
    BY SMT, <2>1, <2>3, <1>1 DEF LowInv
  <2>. QED
    BY SMT, <1>8, <2>1, <2>4 DEF IInv, UnpackedIsPacked, MaskInv, HintInv
<1>. QED  BY SMT, <1>9, <1>10

LEMMA HintLowStep == IInv /\ HintLow => IInv'
<1>. SUFFICES ASSUME IInv, HintLow PROVE IInv'
  OBVIOUS
<1>1. mode \in {2, 3, 5} /\ mode' = mode /\ w' = w /\ w1' = w1 /\ cs2' = cs2
  BY SMT, CoefficientAssumption DEF IInv, TypeOK, HintLow
<1>2. PICK p \in Within(KeyProducts, TAU(mode) * 4096) :
        /\ ct0' = p
        /\ \/ /\ Chknorm(Reduce32(p), GAMMA2(mode))
              /\ pc' = "h_rejected" /\ w0' = w0 /\ hint' = hint
           \/ /\ ~ Chknorm(Reduce32(p), GAMMA2(mode)) /\ pc' = "hinted"
              /\ w0' = w0 + Reduce32(p) /\ hint' = MakeHint(mode, w0', w1)
  BY SMT DEF HintLow
<1>3. Bounded(p, TAU(mode) * 4096)
  BY SMT, CoefficientAssumption DEF Within, Bounded
<1>4. Reduce32(p) = p
  <2>1. p \in Int /\ -4194304 <= p /\ p < 4194304
    BY SMT, <1>1, <1>3 DEF Bounded, AbsValue, TAU
  <2>. QED  BY SMT, <2>1, Reduce32Small
<1>5. w0 \in Int /\ AbsValue(w0) < GAMMA2(mode) - BETA(mode) /\ SumIs(w - cs2, w0)
  BY SMT DEF IInv, TypeOK, LowInv, HintLow, Bounded
<1>6. CASE pc' = "h_rejected"
  <2>1. w0' = w0 /\ hint' = hint /\ ct0' = p
    BY SMT, <1>2, <1>6
  <2>2. TypeOK'
    BY SMT, <1>1, <1>3, <1>6, <2>1
       DEF IInv, TypeOK, HintLow, keyVars, maskVars
  <2>. QED
    BY SMT, <1>6, <2>2 DEF IInv, UnpackedIsPacked, MaskInv, LowInv, HintInv
<1>7. CASE pc' = "hinted"
  <2>1. /\ ~ Chknorm(p, GAMMA2(mode)) /\ w0' = w0 + p
        /\ hint' = MakeHint(mode, w0', w1) /\ ct0' = p
    BY SMT, <1>2, <1>4, <1>7
  <2>2. AbsValue(p) < GAMMA2(mode)
    BY SMT, <2>1, <1>1, <1>3 DEF Chknorm, Bounded, AbsValue, GAMMA2
  <2>3. w0' - ct0' = w0 /\ Bounded(w0', 2 * GAMMA2(mode))
    BY SMT, <2>1, <2>2, <1>1, <1>3, <1>5 DEF Bounded, AbsValue, GAMMA2, BETA
  <2>4. hint' \in {0, 1}
    BY SMT, <2>1 DEF MakeHint
  <2>5. TypeOK'
    BY SMT, <1>1, <1>3, <1>7, <2>1, <2>3, <2>4
       DEF IInv, TypeOK, HintLow, keyVars, maskVars
  <2>6. SumIs(w - cs2, w0 - ct0)'
    BY SMT, <1>1, <1>5, <2>3 DEF SumIs
  <2>7. HintInv'
    BY SMT, <1>1, <1>5, <1>7, <2>1, <2>2, <2>3, <2>6 DEF HintInv
  <2>. QED
    BY SMT, <1>7, <2>5, <2>7 DEF IInv, UnpackedIsPacked, MaskInv, LowInv
<1>. QED  BY SMT, <1>2, <1>6, <1>7

LEMMA RecoverStep == IInv /\ Recover => IInv'
<1>. SUFFICES ASSUME IInv, Recover PROVE IInv'
  OBVIOUS
<1>1. mode \in {2, 3, 5} /\ mode' = mode /\ w1' = w1 /\ pc' = "recovered"
  BY SMT, CoefficientAssumption DEF IInv, TypeOK, Recover
<1>. DEFINE x == w - cs2 + ct0
            r0 == w0 - ct0
<1>2. /\ w \in Int /\ cs2 \in Int /\ ct0 \in Int /\ w0 \in Int /\ Below(w1, HighCount(mode))
      /\ AbsValue(r0) < GAMMA2(mode) - BETA(mode) /\ AbsValue(ct0) < GAMMA2(mode)
      /\ SumIs(w - cs2, r0) /\ hint = MakeHint(mode, w0, w1)
  BY SMT DEF IInv, TypeOK, HintInv, Recover, Bounded, Below
<1>3. PICK k \in {0, 1} : w - cs2 = w1 * (2 * GAMMA2(mode)) + r0 + k * Q
  BY SMT, <1>2 DEF SumIs
<1>4. PICK r \in {x % Q, (x % Q) - Q} : found' = PackW1(mode, UseHint(mode, Caddq(r), hint))
  BY SMT DEF Recover
<1>5. Caddq(r) = x % Q
  <2>1. x % Q \in Int /\ 0 <= x % Q /\ x % Q < Q
    BY SMT, <1>2 DEF Q
  <2>. QED  BY SMT, <2>1 DEF Caddq, Q
<1>6. UseHint(mode, x % Q, hint) = w1
  <2>1. AbsValue(r0) < GAMMA2(mode) /\ r0 + ct0 = w0
    BY SMT, <1>1, <1>2 DEF AbsValue, GAMMA2, BETA
  <2>2. x = w1 * (2 * GAMMA2(mode)) + r0 + ct0 + k * Q
    <3>. DEFINE a == w1 * (2 * GAMMA2(mode))   b == k * Q
    <3>1. a \in Int /\ b \in Int
      BY SMT, <1>1, <1>2 DEF Below, GAMMA2, Q
    <3>. HIDE DEF a, b
    <3>2. w - cs2 = a + r0 + b
      BY SMT, <1>3 DEF a, b
    <3>3. x = a + r0 + ct0 + b
      BY SMT, <3>1, <3>2, <1>2
    <3>. QED  BY SMT, <3>3 DEF a, b
  <2>3. x \in Int /\ r0 \in Int
    BY SMT, <1>2
  <2>. HIDE DEF x, r0
  <2>4. UseHint(mode, x % Q, MakeHint(mode, r0 + ct0, w1)) = w1
    BY SMT, <1>1, <1>2, <2>1, <2>2, <2>3, UseHintUndoes
  <2>. QED  BY SMT, <1>2, <2>1, <2>4
<1>7. found' = PackW1(mode, w1)
  BY SMT, <1>4, <1>5, <1>6
<1>8. Below(found', HighCount(mode))
  BY SMT, <1>1, <1>2, <1>7 DEF PackW1, Below, HighCount
<1>9. TypeOK'
  BY SMT, <1>1, <1>8
     DEF IInv, TypeOK, Recover, keyVars, maskVars
<1>. QED
  BY SMT, <1>1, <1>7, <1>9 DEF IInv, UnpackedIsPacked, MaskInv, LowInv, HintInv

LEMMA StutterStep == IInv /\ UNCHANGED vars => IInv'
BY SMT DEF IInv, TypeOK, UnpackedIsPacked, MaskInv, LowInv, HintInv, SumIs,
   vars, keyVars, maskVars, commitVars

LEMMA Inductive == Spec => []IInv
<1>1. IInv /\ [Next]_vars => IInv'
  BY SMT, RoundKeyStep, MaskSecretStep, VerifyNormStep, DecomposeStep, CheckLowStep,
     HintLowStep, RecoverStep, StutterStep DEF Next
<1>. QED  BY <1>1, InitIInv, PTL DEF Spec

-------------------------------------------------------------------------------
(* The invariants that the run checks, for every coefficient. *)

(* Each function of rounding.c and reduce.c is called within its contract  *)
(* and stays within it.                                                    *)
THEOREM TypeCorrect == Spec => []TypeOK
<1>1. IInv => TypeOK
  BY DEF IInv
<1>. QED  BY <1>1, Inductive, PTL

(* Packing a key or z and unpacking it loses nothing. *)
THEOREM PackingIsLossless == Spec => []UnpackedIsPacked
<1>1. IInv => UnpackedIsPacked
  BY DEF IInv
<1>. QED  BY <1>1, Inductive, PTL

(* The norm check of w0 - c s2 in sign.c decides what FIPS 204 decides on  *)
(* the low part of w - c s2, and keeps the high part of w.                 *)
THEOREM ChecksLowBitsHolds == Spec => []ChecksLowBits
<1>1. IInv => ChecksLowBits
  <2>. SUFFICES ASSUME IInv PROVE ChecksLowBits
    OBVIOUS
  <2>1. mode \in {2, 3, 5} /\ Below(w, Q) /\ Below(w1, HighCount(mode)) /\ w0 \in Int /\ cs2 \in Int
    BY SMT, CoefficientAssumption DEF IInv, TypeOK, Bounded
  <2>2. CASE pc = "committed"
    BY SMT, <2>1, <2>2, DecomposeIsHighLow DEF ChecksLowBits, IInv, LowInv
  <2>3. CASE pc = "w0_kept"
    <3>1. AbsValue(w0) < GAMMA2(mode) - BETA(mode) /\ SumIs(w - cs2, w0)
      BY SMT, <2>3 DEF IInv, LowInv
    <3>2. PICK k \in {0, 1} : w - cs2 = w1 * (2 * GAMMA2(mode)) + w0 + k * Q
      BY SMT, <3>1 DEF SumIs
    <3>3. AbsValue(w0) < GAMMA2(mode) /\ w - cs2 \in Int
      BY SMT, <2>1, <3>1 DEF AbsValue, GAMMA2, BETA, Below
    <3>4. HighLow(mode, (w - cs2) % Q) = <<w1, w0>>
      BY SMT, <2>1, <3>2, <3>3, HighLowOfSum
    <3>5. ~ (AbsValue(w0) >= GAMMA2(mode) - BETA(mode))
      BY SMT, <2>1, <3>1 DEF AbsValue, GAMMA2, BETA
    <3>. QED  BY SMT, <2>3, <3>4, <3>5 DEF ChecksLowBits
  <2>4. CASE pc = "w0_rejected"
    BY SMT, <2>4 DEF ChecksLowBits, IInv, LowInv
  <2>. QED  BY SMT, <2>2, <2>3, <2>4 DEF ChecksLowBits
<1>. QED  BY <1>1, Inductive, PTL

(* mld_make_hint answers 1 exactly when adding c t0 changes the high part. *)
THEOREM HintIsExact == Spec => []HintExact
<1>1. IInv => HintExact
  <2>. SUFFICES ASSUME IInv, pc = "hinted" PROVE HintExact
    BY DEF HintExact
  <2>. DEFINE r0 == w0 - ct0
              u == w - cs2
              x == w - cs2 + ct0
  <2>1. /\ mode \in {2, 3, 5} /\ w \in Int /\ cs2 \in Int /\ ct0 \in Int /\ w0 \in Int
        /\ Below(w1, HighCount(mode))
        /\ AbsValue(r0) < GAMMA2(mode) - BETA(mode) /\ AbsValue(ct0) < GAMMA2(mode)
        /\ SumIs(u, r0) /\ hint = MakeHint(mode, w0, w1)
    BY SMT, CoefficientAssumption DEF IInv, TypeOK, HintInv, Bounded, Below
  <2>2. PICK k \in {0, 1} : u = w1 * (2 * GAMMA2(mode)) + r0 + k * Q
    BY SMT, <2>1 DEF SumIs
  <2>3. /\ AbsValue(r0) < GAMMA2(mode) /\ r0 + ct0 = w0 /\ r0 \in Int /\ u \in Int
        /\ x \in Int /\ x = u + ct0
    BY SMT, <2>1 DEF AbsValue, GAMMA2, BETA
  <2>4. w1 * (2 * GAMMA2(mode)) \in Int /\ k * Q \in Int
    BY SMT, <2>1 DEF Below, GAMMA2, Q
  <2>. HIDE DEF r0, u, x
  <2>5. x = w1 * (2 * GAMMA2(mode)) + r0 + ct0 + k * Q
    BY SMT, <2>1, <2>2, <2>3, <2>4
  <2>6. HighLow(mode, u % Q) = <<w1, r0>>
    BY SMT, <2>1, <2>2, <2>3, HighLowOfSum
  <2>7. MakeHint(mode, r0 + ct0, w1) = 1 <=> HighLow(mode, x % Q)[1] # w1
    BY SMT, <2>1, <2>3, <2>5, HintSaysChange
  <2>. QED
    BY SMT, <2>1, <2>3, <2>6, <2>7 DEF HintExact, u, x
<1>. QED  BY <1>1, Inductive, PTL

(* For every w, every c s2 and c t0 that the checks let pass, and either   *)
(* representative of A z - c t1 2^d, the verifier recovers the high part   *)
(* that the signer hashed.                                                 *)
THEOREM VerifierRecovers == Spec => []HintRecovers
<1>1. IInv => HintRecovers
  BY DEF IInv, HintInv, HintRecovers
<1>. QED  BY <1>1, Inductive, PTL

-------------------------------------------------------------------------------
(***************************************************************************)
(* The intervals that Intervals computes contain what the code computes:   *)
(* for every interval, and every number in it.                             *)
(***************************************************************************)
I == INSTANCE Intervals

\* mld_reduce32 of a number in r lies in ReduceInterval(r), although it is not monotone.
THEOREM ReduceSound ==
  ASSUME NEW r \in I!Intervals, NEW a \in Int, I!In(a, r)
  PROVE  I!In(I!Reduce32(a), I!ReduceInterval(r))
<1> DEFINE lo == r.lo
           hi == r.hi
           q == I!Quotient(a)
           first == I!Quotient(lo)
           last == I!Quotient(hi)
<1>1. lo \in Int /\ hi \in Int /\ lo <= a /\ a <= hi
  BY DEF I!Intervals, I!In
<1>2. /\ q \in Int /\ 8388608 * q <= a + 4194304 /\ a + 4194304 < 8388608 * q + 8388608
      /\ first \in Int /\ 8388608 * first <= lo + 4194304
      /\ lo + 4194304 < 8388608 * first + 8388608
      /\ last \in Int /\ 8388608 * last <= hi + 4194304
      /\ hi + 4194304 < 8388608 * last + 8388608
  BY <1>1, SMT DEF I!Quotient
<1>3. /\ I!Reduce32(a) = a - q * I!Q
      /\ I!Reduce32(lo) = lo - first * I!Q /\ I!Reduce32(hi) = hi - last * I!Q
  BY DEF I!Reduce32
<1> DEFINE rise == (first + 1) * 8388608 - 4194304
           peak == last * 8388608 - 4194304 - 1
<1>4. I!Reduce32(rise) = rise - (first + 1) * I!Q /\ I!Reduce32(peak) = peak - (last - 1) * I!Q
  <2>1. I!Quotient(rise) = first + 1 /\ I!Quotient(peak) = last - 1
    <3> HIDE DEF first, last
    <3> QED  BY <1>2, SMT DEF I!Quotient
  <2> QED  BY <2>1 DEF I!Reduce32
<1>5. I!ReduceInterval(r) =
        IF first = last THEN I!Interval(I!Reduce32(lo), I!Reduce32(hi))
        ELSE I!Interval(I!Least(I!Reduce32(lo), I!Reduce32(rise)),
                        I!Greatest(I!Reduce32(hi), I!Reduce32(peak)))
  BY DEF I!ReduceInterval
<1> HIDE DEF q, first, last, lo, hi
<1>6. first <= q /\ q <= last
  BY <1>1, <1>2, SMT
<1>7. CASE first = last
  <2>1. q = first  BY <1>2, <1>6, <1>7
  <2>2. I!Reduce32(lo) <= I!Reduce32(a) /\ I!Reduce32(a) <= I!Reduce32(hi)
    BY <1>1, <1>2, <1>3, <1>7, <2>1, SMT DEF I!Q
  <2> QED  BY <1>5, <1>7, <2>2 DEF I!In, I!Interval
<1>8. CASE first # last
  <2>1. I!Reduce32(lo) <= I!Reduce32(a) \/ I!Reduce32(rise) <= I!Reduce32(a)
    BY <1>1, <1>2, <1>3, <1>4, <1>6, SMT DEF I!Q
  <2>2. I!Reduce32(a) <= I!Reduce32(hi) \/ I!Reduce32(a) <= I!Reduce32(peak)
    BY <1>1, <1>2, <1>3, <1>4, <1>6, SMT DEF I!Q
  <2>3. /\ I!Reduce32(a) \in Int /\ I!Reduce32(lo) \in Int /\ I!Reduce32(hi) \in Int
        /\ I!Reduce32(rise) \in Int /\ I!Reduce32(peak) \in Int
    BY <1>1, <1>2, <1>3, <1>4, SMT DEF I!Q
  <2> HIDE DEF rise, peak
  <2>4. /\ I!Least(I!Reduce32(lo), I!Reduce32(rise)) <= I!Reduce32(a)
        /\ I!Reduce32(a) <= I!Greatest(I!Reduce32(hi), I!Reduce32(peak))
    BY <2>1, <2>2, <2>3 DEF I!Least, I!Greatest
  <2> QED  BY <1>5, <1>8, <2>4 DEF I!In, I!Interval
<1> QED  BY <1>7, <1>8

\* The comment of mld_reduce32: whatever is at most REDUCE32_DOMAIN_MAX is reduced to
\* within REDUCE32_RANGE_MAX of 0, and to a number that is congruent to it; the sum in
\* front of the shift does not overflow.
THEOREM ReduceInRange ==
  ASSUME NEW a \in Int, I!INT32_MIN <= a, a <= I!REDUCE32_DOMAIN_MAX
  PROVE  /\ -I!REDUCE32_RANGE_MAX <= I!Reduce32(a) /\ I!Reduce32(a) < I!REDUCE32_RANGE_MAX
         /\ \E quo \in Int : I!Reduce32(a) = a + quo * I!Q
         /\ a + 4194304 <= I!INT32_MAX
<1> DEFINE q == I!Quotient(a)
<1>1. q \in Int /\ 8388608 * q <= a + 4194304 /\ a + 4194304 < 8388608 * q + 8388608
  BY SMT DEF I!Quotient
<1>2. I!Reduce32(a) = a - q * I!Q
  BY DEF I!Reduce32
<1> HIDE DEF q
<1>3. -256 <= q /\ q <= 255
  BY <1>1, SMT DEF I!INT32_MIN, I!INT32_MAX, I!REDUCE32_DOMAIN_MAX
<1>4. -I!REDUCE32_RANGE_MAX <= I!Reduce32(a) /\ I!Reduce32(a) < I!REDUCE32_RANGE_MAX
  <2>1. CASE q = -256
    BY <1>1, <1>2, <2>1, SMT DEF I!Q, I!REDUCE32_RANGE_MAX, I!INT32_MIN
  <2>2. CASE q >= -255
    BY <1>1, <1>2, <1>3, <2>2, SMT DEF I!Q, I!REDUCE32_RANGE_MAX
  <2> QED  BY <1>1, <1>3, <2>1, <2>2
<1>5. -q \in Int /\ I!Reduce32(a) = a + (-q) * I!Q
  BY <1>1, <1>2, SMT DEF I!Q
<1>6. a + 4194304 <= I!INT32_MAX
  BY SMT DEF I!INT32_MAX, I!REDUCE32_DOMAIN_MAX
<1> QED  BY <1>4, <1>5, <1>6

\* mld_caddq of a number in r lies in CaddqInterval(r).
THEOREM CaddqSound ==
  ASSUME NEW r \in I!Intervals, NEW a \in Int, I!In(a, r)
  PROVE  I!In(I!Caddq(a), I!CaddqInterval(r))
<1>1. r.lo \in Int /\ r.hi \in Int /\ r.lo <= a /\ a <= r.hi
  BY DEF I!Intervals, I!In
<1>2. CASE r.lo >= 0
  BY <1>1, <1>2 DEF I!In, I!Caddq, I!CaddqInterval
<1>3. CASE r.lo < 0 /\ r.hi < 0
  BY <1>1, <1>3 DEF I!In, I!Caddq, I!CaddqInterval, I!Interval, I!Q
<1>4. CASE r.lo < 0 /\ r.hi >= 0
  BY <1>1, <1>4 DEF I!In, I!Caddq, I!CaddqInterval, I!Interval, I!Least, I!Greatest, I!Q
<1> QED  BY <1>1, <1>2, <1>3, <1>4

\* Sums and differences, which mld_poly_add and mld_poly_sub do not reduce.
THEOREM AddSubSound ==
  ASSUME NEW r \in I!Intervals, NEW s \in I!Intervals, NEW a \in Int, NEW b \in Int,
         I!In(a, r), I!In(b, s)
  PROVE  I!In(a + b, I!AddInterval(r, s)) /\ I!In(a - b, I!SubInterval(r, s))
<1>1. /\ r.lo \in Int /\ r.hi \in Int /\ r.lo <= a /\ a <= r.hi
      /\ s.lo \in Int /\ s.hi \in Int /\ s.lo <= b /\ b <= s.hi
  BY DEF I!Intervals, I!In
<1>2. I!In(a + b, I!AddInterval(r, s))
  BY <1>1 DEF I!In, I!AddInterval, I!Interval
<1>3. I!In(a - b, I!SubInterval(r, s))
  BY <1>1 DEF I!In, I!SubInterval, I!Interval
<1> QED  BY <1>2, <1>3

LEMMA TwoToTheD == 2 ^ I!D = 8192 /\ 2 ^ (I!D - 1) = 4096
<1>1. 2 ^ 13 = 8192 /\ 2 ^ 12 = 4096
  BY SMT
<1>2. I!D = 13 /\ I!D - 1 = 12
  BY DEF I!D
<1> QED  BY <1>1, <1>2

\* mld_poly_shiftl, a multiplication by 1 << MLDSA_D.
THEOREM ShiftlSound ==
  ASSUME NEW r \in I!Intervals, NEW a \in Int, I!In(a, r)
  PROVE  I!In(a * 8192, I!ShiftlInterval(r))
<1>1. r.lo \in Int /\ r.hi \in Int /\ r.lo <= a /\ a <= r.hi
  BY DEF I!Intervals, I!In
<1>2. I!ShiftlInterval(r) = [lo |-> r.lo * 8192, hi |-> r.hi * 8192]
  BY TwoToTheD DEF I!ShiftlInterval, I!Interval
<1> QED  BY <1>1, <1>2 DEF I!In

\* mld_power2round: a1 = (a + (1 << 12) - 1) >> 13 and a0 = a - (a1 << 13).
THEOREM Power2RoundSound ==
  ASSUME NEW r \in I!Intervals, NEW a \in Int, I!In(a, r),
         NEW a1 \in Int, a1 = (a + 4095) \div 8192
  PROVE  I!In(a1, I!Power2RoundHigh(r)) /\ I!In(a - a1 * 8192, I!Power2RoundLow)
<1>1. r.lo \in Int /\ r.hi \in Int /\ r.lo <= a /\ a <= r.hi
  BY DEF I!Intervals, I!In
<1>2. /\ I!Power2RoundHigh(r) = [lo |-> (r.lo + 4095) \div 8192, hi |-> (r.hi + 4095) \div 8192]
      /\ I!Power2RoundLow = [lo |-> -4095, hi |-> 4096]
  <2>1. \A b \in Int : b + 4096 - 1 = b + 4095
    OBVIOUS
  <2> QED  BY <1>1, <2>1, TwoToTheD DEF I!Power2RoundHigh, I!Power2RoundLow, I!Interval
<1>3. (r.lo + 4095) \div 8192 <= a1 /\ a1 <= (r.hi + 4095) \div 8192
  BY <1>1, SMT
<1>4. -4095 <= a - a1 * 8192 /\ a - a1 * 8192 <= 4096
  BY SMT
<1> QED  BY <1>2, <1>3, <1>4 DEF I!In

\* A field of a packed polynomial, base - a, and what unpacking makes of it.
THEOREM MirrorSound ==
  ASSUME NEW r \in I!Intervals, NEW a \in Int, I!In(a, r), NEW base \in Int
  PROVE  I!In(base - a, I!Mirror(base, r))
BY DEF I!Intervals, I!In, I!Mirror, I!Interval

LEMMA MagnitudeBounds ==
  ASSUME NEW r \in I!Intervals
  PROVE  /\ I!Magnitude(r) \in Nat
         /\ \A a \in Int : I!In(a, r) => -I!Magnitude(r) <= a /\ a <= I!Magnitude(r)
BY DEF I!Intervals, I!In, I!Magnitude, I!Greatest

\* StrongDomain(n, u, v) keeps every sum of n products of numbers in u and in v below
\* 2^31 * Q, where mld_montgomery_reduce returns less than Q (MontgomeryBound, in NttProofs).
THEOREM StrongDomainSound ==
  ASSUME NEW n \in Nat, n >= 1, NEW u \in I!Intervals, NEW v \in I!Intervals,
         I!StrongDomain(n, u, v),
         NEW sum \in Int, -(n * (I!Magnitude(u) * I!Magnitude(v))) <= sum,
         sum <= n * (I!Magnitude(u) * I!Magnitude(v))
  PROVE  -((I!INT32_MAX + 1) * I!Q) < sum /\ sum < (I!INT32_MAX + 1) * I!Q
<1> DEFINE mu == I!Magnitude(u)
           mv == I!Magnitude(v)
           m == (mu + I!Q - 1) \div I!Q
           g == I!Greatest(m, 1)
<1>1. mu \in Nat /\ mv \in Nat
  BY MagnitudeBounds
<1>2. m \in Int /\ mu <= m * I!Q
  <2> HIDE DEF mu
  <2> QED  BY <1>1, SMT DEF I!Q
<1>3. g \in Nat /\ g >= 1 /\ g >= m
  <2> HIDE DEF m
  <2> QED  BY <1>2 DEF I!Greatest
<1>4. mv <= I!INT32_MAX \div (n * g)
  BY DEF I!StrongDomain
<1>n. n \in Int /\ n >= 1 /\ I!Q \in Int /\ I!Q >= 1 /\ I!INT32_MAX \in Nat
  BY DEF I!Q, I!INT32_MAX
<1> HIDE DEF mu, mv, m, g
<1>5. (n * g) * mv <= I!INT32_MAX
  <2> DEFINE nm == n * g
             top == I!INT32_MAX
             quo == top \div nm
  <2>1. nm \in Int /\ nm >= 1
    <3>1. (n - 1) * g >= 0  BY <1>3, SMT
    <3>2. (n - 1) * g = n * g - g  BY <1>3, SMT
    <3> QED  BY <1>3, <3>1, <3>2, SMT
  <2>2. top \in Int  BY DEF I!INT32_MAX
  <2> HIDE DEF nm, top
  <2>3. quo \in Int /\ quo * nm <= top
    BY <2>1, <2>2, SMT
  <2> HIDE DEF quo
  <2>4. mv <= quo  BY <1>4 DEF quo, nm, top
  <2>5. nm * (quo - mv) >= 0  BY <1>1, <2>1, <2>3, <2>4, SMT
  <2>6. nm * (quo - mv) = quo * nm - nm * mv  BY <1>1, <2>1, <2>3, SMT
  <2>7. nm * mv \in Int /\ quo * nm \in Int  BY <1>1, <2>1, <2>3, SMT
  <2>8. nm * mv <= top  BY <2>2, <2>3, <2>5, <2>6, <2>7
  <2> QED  BY <2>8 DEF nm, top
<1>6. mu <= g * I!Q
  <2>1. (g - m) * I!Q >= 0  BY <1>n, <1>2, <1>3, SMT
  <2>2. (g - m) * I!Q = g * I!Q - m * I!Q  BY <1>n, <1>2, <1>3, SMT
  <2>3. g * I!Q \in Int /\ m * I!Q \in Int  BY <1>n, <1>2, <1>3
  <2> QED  BY <1>1, <1>2, <2>1, <2>2, <2>3
<1>7. n * (mu * mv) <= ((n * g) * mv) * I!Q
  <2> DEFINE x == g * I!Q
  <2>1. x \in Int /\ mu <= x  BY <1>n, <1>3, <1>6
  <2>2. (n * mv) * (x - mu) >= 0
    <3>1. n * mv >= 0 /\ n * mv \in Int  BY <1>1, <1>n, SMT
    <3> HIDE DEF x
    <3> QED  BY <1>1, <2>1, <3>1, SMT
  <2>3. ((n * g) * mv) * I!Q = (n * mv) * x
    BY <1>1, <1>3, <1>n, SMT
  <2> HIDE DEF x
  <2>4. (n * mv) * (x - mu) = (n * mv) * x - n * (mu * mv)
    BY <1>1, <1>n, <2>1, SMT
  <2>5. (n * mv) * x \in Int /\ n * (mu * mv) \in Int
    BY <1>1, <1>n, <2>1, SMT
  <2> QED  BY <2>2, <2>3, <2>4, <2>5
<1>8. ((n * g) * mv) * I!Q <= I!INT32_MAX * I!Q
  <2> DEFINE prod == (n * g) * mv
             top == I!INT32_MAX
  <2>1. prod \in Int /\ top \in Int /\ prod <= top
    BY <1>1, <1>3, <1>5, <1>n
  <2> HIDE DEF prod, top
  <2>2. (top - prod) * I!Q >= 0  BY <2>1, <1>n, SMT
  <2>3. (top - prod) * I!Q = top * I!Q - prod * I!Q  BY <2>1, <1>n, SMT
  <2>4. top * I!Q \in Int /\ prod * I!Q \in Int  BY <2>1, <1>n
  <2>5. prod * I!Q <= top * I!Q  BY <2>2, <2>3, <2>4
  <2> QED  BY <2>5 DEF prod, top
<1>9. /\ n * (mu * mv) \in Int /\ ((n * g) * mv) * I!Q \in Int /\ I!INT32_MAX * I!Q \in Int
  BY <1>1, <1>3, <1>n
<1>10. n * (mu * mv) <= I!INT32_MAX * I!Q
  BY <1>7, <1>8, <1>9
<1>11. -(I!INT32_MAX * I!Q) <= sum /\ sum <= I!INT32_MAX * I!Q /\ I!INT32_MAX * I!Q \in Int
  <2>1. -(n * (mu * mv)) <= sum /\ sum <= n * (mu * mv)
    BY DEF mu, mv
  <2> QED  BY <1>9, <1>10, <1>n, <2>1
<1> QED
  <2>1. (I!INT32_MAX + 1) * I!Q = I!INT32_MAX * I!Q + I!Q  BY <1>n, SMT
  <2> QED  BY <1>n, <1>11, <2>1
===============================================================================
