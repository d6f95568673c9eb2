----------------------------- MODULE Coefficient -----------------------------
(***************************************************************************)
(* One coefficient through key generation, signing and verification: the   *)
(* arithmetic of rounding.c and reduce.c, the norm checks of poly.c and    *)
(* the coefficient fields of packing, in the order in which sign.c applies *)
(* them, on the real modulus and with the real magic constants.            *)
(*                                                                         *)
(* A behaviour follows one of three coefficients:                          *)
(*   "key"    of t = A s1 + s2, rounded and stored in both halves of a key *)
(*   "mask"   of z = y + c s1, checked, sent and checked by the verifier   *)
(*   "commit" of w = A y, rounded, checked against c s2 and c t0, hinted,  *)
(*            and recovered by the verifier from A z - c t1 2^d.           *)
(* Products of the ring come from the constants, within the bounds that    *)
(* norms give them; A z - c t1 2^d = w - c s2 + c t0 is ring arithmetic.   *)
(* The three modes differ in more than constants, so mode is a variable    *)
(* and the operators take it as m.                                         *)
(***************************************************************************)
EXTENDS Integers

CONSTANTS
  Modes,            \* the values of MLDSA_MODE
  Raw,              \* what mld_invntt_tomont may leave of a product
  Short,            \* coefficients of s2, those within ETA
  Masks,            \* coefficients of y, those that GAMMA1 allows
  ShortProducts,    \* coefficients of c s1 and c s2, those within BETA
  KeyProducts       \* coefficients of c t0, those TAU terms can reach

Q == 8380417
INTT_BOUND == 4211139

ETA(m) == IF m = 3 THEN 4 ELSE 2
TAU(m) == CASE m = 2 -> 39 [] m = 3 -> 49 [] m = 5 -> 60
BETA(m) == CASE m = 2 -> 78 [] m = 3 -> 196 [] m = 5 -> 120
GAMMA1(m) == IF m = 2 THEN 131072 ELSE 524288
GAMMA2(m) == IF m = 2 THEN 95232 ELSE 261888
HighCount(m) == IF m = 2 THEN 44 ELSE 16    \* (Q - 1) / (2 GAMMA2)

ASSUME CoefficientAssumption ==
  /\ Modes \subseteq {2, 3, 5}
  /\ Raw \subseteq {x \in Int : -INTT_BOUND < x /\ x < INTT_BOUND}
  /\ Short \subseteq Int /\ Masks \subseteq Int
  /\ ShortProducts \subseteq Int /\ KeyProducts \subseteq Int

-------------------------------------------------------------------------------
(* Operators of the C code: >> is the floor of a quotient. *)

AbsValue(a) == IF a < 0 THEN -a ELSE a

Within(S, b) == {x \in S : AbsValue(x) <= b}

Reduce32(a) == a - ((a + 4194304) \div 8388608) * Q

Caddq(a) == IF a < 0 THEN a + Q ELSE a

\* Fault: the bound itself passes.
Bug_ChknormLoose(a, B) == B - AbsValue(a) < 0

\* mld_poly_chknorm answers whether the bound is violated.
Chknorm(a, B) == B - 1 - AbsValue(a) < 0

\* Fault: rounds half up.
Bug_Power2RoundHalfUp(a) == (a + 4096) \div 8192

Power2RoundHigh(a) == (a + 4095) \div 8192

Power2RoundLow(a) == a - Power2RoundHigh(a) * 8192

\* Fault: mode 2 keeps the top interval.
Bug_DecomposeNoJoin(m, a) ==
  LET a1 == (a + 127) \div 128
  IN  IF m = 2 THEN (a1 * 11275 + 8388608) \div 16777216
               ELSE ((a1 * 1025 + 2097152) \div 4194304) % 16

DecomposeHigh(m, a) ==
  LET a1 == (a + 127) \div 128
      b1 == (a1 * 11275 + 8388608) \div 16777216
  IN  IF m = 2 THEN IF 43 - b1 < 0 THEN 0 ELSE b1
               ELSE ((a1 * 1025 + 2097152) \div 4194304) % 16

DecomposeLow(m, a) ==
  LET a0 == a - DecomposeHigh(m, a) * 2 * GAMMA2(m)
  IN  IF (Q - 1) \div 2 - a0 < 0 THEN a0 - Q ELSE a0

\* Fault: the lower end is treated alike in every interval.
Bug_MakeHintLowerEnd(m, a0, a1) ==
  IF a0 > GAMMA2(m) \/ a0 < -GAMMA2(m) THEN 1 ELSE 0

MakeHint(m, a0, a1) ==
  IF \/ a0 > GAMMA2(m) \/ a0 < -GAMMA2(m)
     \/ a0 = -GAMMA2(m) /\ a1 # 0
  THEN 1 ELSE 0

\* Fault: mode 2 wraps as the other modes do.
Bug_UseHintWrap(m, a, hint) ==
  LET a1 == DecomposeHigh(m, a)
  IN  CASE hint = 0 -> a1
        [] hint # 0 /\ DecomposeLow(m, a) > 0 -> (a1 + 1) % 16
        [] hint # 0 /\ DecomposeLow(m, a) <= 0 -> (a1 - 1) % 16

UseHint(m, a, hint) ==
  LET a0 == DecomposeLow(m, a)
      a1 == DecomposeHigh(m, a)
  IN  CASE hint = 0 -> a1
        [] hint # 0 /\ m = 2 /\ a0 > 0 -> IF a1 = 43 THEN 0 ELSE a1 + 1
        [] hint # 0 /\ m = 2 /\ a0 <= 0 -> IF a1 = 0 THEN 43 ELSE a1 - 1
        [] hint # 0 /\ m # 2 /\ a0 > 0 -> (a1 + 1) % 16
        [] hint # 0 /\ m # 2 /\ a0 <= 0 -> (a1 - 1) % 16

(* A packed coefficient is a field of so many bits; where the bits of the  *)
(* field lie among the bytes is not modelled.                              *)
PackEta(m, a) == (ETA(m) - a) % (IF m = 3 THEN 16 ELSE 8)
UnpackEta(m, f) == ETA(m) - f
PackT1(a) == a % 1024
UnpackT1(f) == f
PackT0(a) == (4096 - a) % 8192
UnpackT0(f) == 4096 - f
PackZ(m, a) == (GAMMA1(m) - a) % (IF m = 2 THEN 262144 ELSE 1048576)
UnpackZ(m, f) == GAMMA1(m) - f
PackW1(m, a) == a % (IF m = 2 THEN 64 ELSE 16)

-------------------------------------------------------------------------------
VARIABLES
  mode,             \* MLDSA_MODE
  pc,               \* what was done to the coefficient last
  t, s2,            \* key generation: t1 before it is rounded, and s2
  pkt1, skt0, sks2, \* and the fields of the two key buffers
  y, cs1, z,        \* the mask, c s1, and z as sent and as unpacked
  w,                \* w1 of the C code once reduced to 0 .. Q - 1
  w1, w0,           \* its parts; w0 is then updated in place, as in C
  cs2, ct0,         \* the two uses of h in the C code
  hint,             \* the coefficient of h as mld_polyveck_make_hint leaves it
  found             \* the verifier's result of mld_use_hint, packed by PackW1

keyVars == <<t, s2, pkt1, skt0, sks2>>
maskVars == <<y, cs1, z>>
commitVars == <<w, w1, w0, cs2, ct0, hint, found>>
vars == <<mode, pc, keyVars, maskVars, commitVars>>

Init ==
  /\ mode \in Modes /\ pc = "start"
  /\ t = 0 /\ s2 = 0 /\ pkt1 = 0 /\ skt0 = 0 /\ sks2 = 0
  /\ y = 0 /\ cs1 = 0 /\ z = 0
  /\ w = 0 /\ w1 = 0 /\ w0 = 0 /\ cs2 = 0 /\ ct0 = 0 /\ hint = 0 /\ found = 0

(* crypto_sign_keypair_internal: add s2, caddq, power2round, and pack. *)
RoundKey ==
  /\ pc = "start" /\ pc' = "key_packed"
  /\ \E r \in Raw, e \in Within(Short, ETA(mode)) :
       /\ s2' = e
       /\ t' = Caddq(r + e)
       /\ sks2' = PackEta(mode, e)
  /\ pkt1' = PackT1(Power2RoundHigh(t'))
  /\ skt0' = PackT0(Power2RoundLow(t'))
  /\ UNCHANGED <<mode, maskVars, commitVars>>

(* mld_attempt_signature_generation: z = y + c s1, reduced, checked; what  *)
(* passes is packed and unpacked by mld_unpack_sig of the verifier.        *)
MaskSecret ==
  /\ pc = "start"
  /\ \E e \in {x \in Masks : -GAMMA1(mode) < x /\ x <= GAMMA1(mode)},
       p \in Within(ShortProducts, BETA(mode)) :
         LET sum == Reduce32(p + e)
         IN  /\ y' = e /\ cs1' = p
             /\ \/ /\ Chknorm(sum, GAMMA1(mode) - BETA(mode))
                   /\ pc' = "z_rejected" /\ z' = sum
                \/ /\ ~ Chknorm(sum, GAMMA1(mode) - BETA(mode))
                   /\ pc' = "z_sent" /\ z' = UnpackZ(mode, PackZ(mode, sum))
  /\ UNCHANGED <<mode, keyVars, commitVars>>

(* crypto_sign_verify_internal checks the norm of z again. *)
VerifyNorm ==
  /\ pc = "z_sent"
  /\ pc' = IF Chknorm(z, GAMMA1(mode) - BETA(mode)) THEN "z_refused" ELSE "z_used"
  /\ UNCHANGED <<mode, keyVars, maskVars, commitVars>>

(* mld_attempt_signature_generation: caddq and decompose of w. *)
Decompose ==
  /\ pc = "start" /\ pc' = "committed"
  /\ \E r \in Raw : w' = Caddq(r)
  /\ w1' = DecomposeHigh(mode, w') /\ w0' = DecomposeLow(mode, w')
  /\ UNCHANGED <<mode, keyVars, maskVars, cs2, ct0, hint, found>>

(* Subtract c s2 from w0, reduce, and check the norm. *)
CheckLow ==
  /\ pc = "committed"
  /\ \E p \in Within(ShortProducts, BETA(mode)) :
       /\ cs2' = p
       /\ w0' = Reduce32(w0 - p)
  /\ pc' = IF Chknorm(w0', GAMMA2(mode) - BETA(mode)) THEN "w0_rejected" ELSE "w0_kept"
  /\ UNCHANGED <<mode, keyVars, maskVars, w, w1, ct0, hint, found>>

(* Check the norm of c t0, add it to w0, and make the hint. *)
HintLow ==
  /\ pc = "w0_kept"
  /\ \E p \in Within(KeyProducts, TAU(mode) * 4096) :
       /\ ct0' = p
       /\ \/ /\ Chknorm(Reduce32(p), GAMMA2(mode))
             /\ pc' = "h_rejected" /\ UNCHANGED <<w0, hint>>
          \/ /\ ~ Chknorm(Reduce32(p), GAMMA2(mode))
             /\ pc' = "hinted"
             /\ w0' = w0 + Reduce32(p)
             /\ hint' = MakeHint(mode, w0', w1)
  /\ UNCHANGED <<mode, keyVars, maskVars, w, w1, cs2, found>>

(* crypto_sign_verify_internal: mld_invntt_tomont leaves A z - c t1 2^d as  *)
(* either of its representatives below INTT_BOUND; caddq, then use_hint.   *)
Recover ==
  /\ pc = "hinted" /\ pc' = "recovered"
  /\ LET x == (w - cs2 + ct0) % Q
     IN  \E r \in {x, x - Q} :
           /\ AbsValue(r) < INTT_BOUND
           /\ found' = PackW1(mode, UseHint(mode, Caddq(r), hint))
  /\ UNCHANGED <<mode, keyVars, maskVars, w, w1, w0, cs2, ct0, hint>>

Next ==
  \/ RoundKey
  \/ MaskSecret \/ VerifyNorm
  \/ Decompose \/ CheckLow \/ HintLow \/ Recover

Spec == Init /\ [][Next]_vars

-------------------------------------------------------------------------------
(* The definitions of FIPS 204 that the properties compare with. *)

\* a mod+- m, in -m/2 + 1 .. m/2 for an even m.
CentredMod(a, m) == IF a % m > m \div 2 THEN (a % m) - m ELSE a % m

\* Algorithm 36: the top interval joins the bottom one.
HighLow(m, a) ==
  LET r0 == CentredMod(a, 2 * GAMMA2(m))
  IN  IF a - r0 = Q - 1 THEN <<0, r0 - 1>>
                        ELSE <<(a - r0) \div (2 * GAMMA2(m)), r0>>

Below(a, n) == a \in Int /\ 0 <= a /\ a < n
Bounded(a, n) == a \in Int /\ AbsValue(a) <= n

(* Coefficients stay in the ranges of the contracts in rounding.h, poly.h  *)
(* and packing.h, each of which the next function called relies on.        *)
TypeOK ==
  /\ mode \in Modes
  /\ pc \in {"start", "key_packed", "z_rejected", "z_sent", "z_refused", "z_used",
             "committed", "w0_rejected", "w0_kept", "h_rejected", "hinted", "recovered"}
  /\ Below(t, Q) /\ Bounded(s2, ETA(mode))
  /\ Below(pkt1, 1024) /\ Below(skt0, 8192) /\ Below(sks2, 2 * ETA(mode) + 1)
  /\ y \in Int /\ cs1 \in Int /\ Bounded(z, GAMMA1(mode) + BETA(mode))
  /\ Below(w, Q) /\ Below(w1, HighCount(mode)) /\ Bounded(w0, 2 * GAMMA2(mode))
  /\ Bounded(cs2, BETA(mode)) /\ Bounded(ct0, TAU(mode) * 4096)
  /\ hint \in {0, 1} /\ Below(found, HighCount(mode))

(* What is unpacked from a key adds up to the t and is the s2 that key     *)
(* generation had, and the z that the verifier unpacks is the signer's     *)
(* y + c s1 and passes the verifier's check: no field of packing.c is too  *)
(* narrow for what power2round and the norm check let through.             *)
UnpackedIsPacked ==
  /\ pc = "key_packed" =>
       /\ UnpackT1(pkt1) * 8192 + UnpackT0(skt0) = t
       /\ UnpackEta(mode, sks2) = s2
  /\ pc \in {"z_sent", "z_used"} => z = y + cs1
  /\ pc # "z_refused"

(* The commitment has the parts that FIPS 204 defines, and the check of    *)
(* w0 - c s2, which never looks at w - c s2 itself, rejects exactly when    *)
(* the low part of w - c s2 is too large and otherwise leaves that low     *)
(* part in w0 and its high part in w1 ("does not change high bits of w",   *)
(* sign.c).                                                                *)
ChecksLowBits ==
  LET r == HighLow(mode, (w - cs2) % Q)
      large == AbsValue(r[2]) >= GAMMA2(mode) - BETA(mode)
  IN  /\ pc = "committed" => HighLow(mode, w) = <<w1, w0>>
      /\ pc = "w0_kept" => r = <<w1, w0>> /\ ~ large
      /\ pc = "w0_rejected" => large

(* mld_make_hint, which compares numbers, answers 1 exactly when adding    *)
(* c t0 changes the high part of w - c s2: a needless hint would count     *)
(* towards OMEGA, a missing one would make the signature fail.             *)
HintExact ==
  pc = "hinted" =>
    (hint = 1 <=> HighLow(mode, (w - cs2) % Q)[1]
                    # HighLow(mode, (w - cs2 + ct0) % Q)[1])

(* The verifier hashes the same high part as the signer did. *)
HintRecovers == pc = "recovered" => found = PackW1(mode, w1)
===============================================================================
