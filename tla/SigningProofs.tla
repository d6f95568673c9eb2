----------------------------- MODULE SigningProofs -----------------------------
(***************************************************************************)
(* Proofs about Signing, for every value of its constants: in particular   *)
(* for UINT16_MAX = 65535 and the three values of MLDSA_L.                  *)
(***************************************************************************)
EXTENDS Signing, TLAPS

(***************************************************************************)
(* The inductive invariants behind MaskFresh and VerifiedWasSigned.        *)
(***************************************************************************)
\* A running call knows its inputs: key generation its seed, everything else
\* in a call a written key, a signing function its message representative.
CallInv ==
  /\ pc \in KeypairPcs \/ (Signing /\ frame = "pct") => call.api = "keypair"
  /\ Signing /\ frame = "app" => call.api = "sign"
  /\ pc = "keypair" => call.seed \in Seeds
  /\ Signing \/ pc \in {"pct", "pct_verify"} => sk \in Seeds
  /\ Signing => mu \in Mus

\* In attempt `nonce` the mask is made of the nonces L * nonce + i, without
\* wrapping, and all the masks before it were made of smaller ones.
MaskInv ==
  /\ pc \in AttemptPcs \cup {"loop"} => nonce <= NONCE_UB /\ used \subseteq 0 .. L * nonce - 1
  /\ pc \in AttemptPcs => nonce < NONCE_UB /\ y = [i \in 0 .. L - 1 |-> L * nonce + i]

\* Outside a signing call on it, the caller's buffer is honest about what it
\* holds; at the end of one it holds the signature or is cleared.
BufferInv ==
  /\ ~(Signing /\ frame = "app") => HonestBuffer
  /\ pc = "sign_ret" /\ frame = "app" =>
       IF ret = 0
       THEN sig["app"].kind = "sig" /\ sig["app"].seed = sk /\ sig["app"].mu = mu
       ELSE sig["app"] = Zeros /\ siglen["app"] = 0

-------------------------------------------------------------------------------
(***************************************************************************)
(* The nonces of a mask.                                                   *)
(***************************************************************************)

\* Converting to uint16_t changes no value that fits.
LEMMA U16Identity ==
  ASSUME NEW x \in 0 .. UINT16_MAX
  PROVE  U16(x) = x
BY Uint16Assumption DEF U16

\* What is below the bound of the rejection loop leaves room for one more mask.
LEMMA NonceRoom ==
  ASSUME NEW n \in Nat, n < NONCE_UB
  PROVE  L * n + L <= UINT16_MAX - L
<1>1. CASE L = 4
  BY <1>1, SigningAssumption, Uint16Assumption DEF NONCE_UB
<1>2. CASE L = 5
  BY <1>2, SigningAssumption, Uint16Assumption DEF NONCE_UB
<1>3. CASE L = 7
  BY <1>3, SigningAssumption, Uint16Assumption DEF NONCE_UB
<1> QED
  BY <1>1, <1>2, <1>3, SigningAssumption

\* Below the bound, polyvecl_uniform_gamma1 expands polynomial i of the mask
\* from the nonce L * nonce + i: nothing wraps and no irrelevant lane is left.
LEMMA MaskNonces ==
  ASSUME NEW n \in Nat, n < NONCE_UB
  PROVE  UniformGamma1(L, Garbage, n) = [i \in 0 .. L - 1 |-> L * n + i]
<1> DEFINE m == UniformGamma1(L, Garbage, n)
<1>1. L * n \in Nat /\ \A i \in 0 .. L - 1 : L * n + i \in 0 .. UINT16_MAX
  <2>1. L \in 1 .. 7
    BY SigningAssumption
  <2>2. L * n \in Nat
    BY <2>1
  <2> QED
    BY <2>1, <2>2, NonceRoom, Uint16Assumption
<1>2. U16(L * n) = L * n
  BY <1>1, U16Identity, SigningAssumption
<1>3. \A i \in 0 .. L - 1 : U16(L * n + i) = L * n + i
  BY <1>1, U16Identity
<1>4. CASE L = 4
  <2>1. m = Overwrite(Garbage, FourLanes(0, L * n, L * n + 1, L * n + 2, L * n + 3))
    BY <1>2, <1>4 DEF UniformGamma1
  <2> QED
    BY <1>1, <1>3, <1>4, <2>1 DEF Overwrite, FourLanes, Garbage
<1>5. CASE L = 5
  <2>1. m = Overwrite(Overwrite(Garbage, FourLanes(0, L * n, L * n + 1, L * n + 2, L * n + 3)),
                      OneLane(4, L * n + 4))
    BY <1>2, <1>5 DEF UniformGamma1
  <2> QED
    BY <1>1, <1>3, <1>5, <2>1 DEF Overwrite, FourLanes, OneLane, Garbage
<1>6. CASE L = 7
  <2>1. m = Overwrite(Overwrite(Garbage, FourLanes(0, L * n, L * n + 1, L * n + 2, IRRELEVANT)),
                      FourLanes(3, L * n + 3, L * n + 4, L * n + 5, L * n + 6))
    BY <1>2, <1>6 DEF UniformGamma1
  <2> QED
    BY <1>1, <1>3, <1>6, <2>1 DEF Overwrite, FourLanes, Garbage
<1> QED
  BY <1>4, <1>5, <1>6, SigningAssumption

-------------------------------------------------------------------------------
(***************************************************************************)
(* Type correctness together with what a running call knows.               *)
(***************************************************************************)
TInv == TypeOK /\ CallInv

\* A representative made of a generated key is one.
LEMMA MuType ==
  ASSUME NEW s \in Seeds, NEW c \in ShortCtxs, NEW m \in Msgs
  PROVE  Mu(PublicKey(s), c, m) \in Mus
BY DEF Mu, Mus

\* Verification returns 0 or -1.
LEMMA VerifyType ==
  ASSUME NEW buf, NEW len, NEW key, NEW u
  PROVE  VerifyInternal(buf, len, key, u) \in {0, -1}
BY DEF VerifyInternal

\* A nonce is a uint16_t, and so is every nonce a mask is expanded from.
LEMMA U16Type ==
  ASSUME NEW x \in Int
  PROVE  U16(x) \in 0 .. UINT16_MAX
BY Uint16Assumption DEF U16

LEMMA GarbageType == Garbage \in [0 .. L - 1 -> -1 .. UINT16_MAX]
BY SigningAssumption, Uint16Assumption DEF Garbage

\* polyvecl_uniform_gamma1 initialises every polynomial of the mask.
LEMMA MaskType ==
  ASSUME NEW n \in 0 .. UINT16_MAX
  PROVE  UniformGamma1(L, Garbage, n) \in [0 .. L - 1 -> 0 .. UINT16_MAX]
<1> DEFINE m == UniformGamma1(L, Garbage, n)
           k == U16(L * n)
<1>1. k \in 0 .. UINT16_MAX
  BY U16Type, SigningAssumption, Uint16Assumption
<1>2. \A x \in {k, k + 1, k + 2, k + 3, k + 4, k + 5, k + 6, IRRELEVANT} :
         U16(x) \in 0 .. UINT16_MAX
  BY <1>1, U16Type, Uint16Assumption DEF IRRELEVANT
<1> HIDE DEF k
<1>3. CASE L = 4
  <2>1. m = Overwrite(Garbage, FourLanes(0, k, k + 1, k + 2, k + 3))
    BY <1>3 DEF UniformGamma1, k
  <2> QED
    BY <1>2, <1>3, <2>1 DEF Overwrite, FourLanes, Garbage
<1>4. CASE L = 5
  <2>1. m = Overwrite(Overwrite(Garbage, FourLanes(0, k, k + 1, k + 2, k + 3)),
                      OneLane(4, k + 4))
    BY <1>4 DEF UniformGamma1, k
  <2> QED
    BY <1>2, <1>4, <2>1 DEF Overwrite, FourLanes, OneLane, Garbage
<1>5. CASE L = 7
  <2>1. m = Overwrite(Overwrite(Garbage, FourLanes(0, k, k + 1, k + 2, IRRELEVANT)),
                      FourLanes(3, k + 3, k + 4, k + 5, k + 6))
    BY <1>5 DEF UniformGamma1, k
  <2> QED
    BY <1>2, <1>5, <2>1 DEF Overwrite, FourLanes, Garbage
<1> QED
  BY <1>3, <1>4, <1>5, SigningAssumption

\* A rejected attempt leaves well-typed nonces behind.
LEMMA RejectType ==
  ASSUME NonceType, Reject
  PROVE  NonceType'
<1>1. nonce' \in 0 .. UINT16_MAX
  BY U16Type, Uint16Assumption DEF Reject, NonceType
<1>2. {y[i] : i \in DOMAIN y} \subseteq -1 .. UINT16_MAX
  BY DEF NonceType
<1>3. used' \subseteq -1 .. UINT16_MAX
  BY <1>2 DEF Reject, NonceType
<1> QED
  BY <1>1, <1>3, GarbageType DEF Reject, NonceType, AttemptPcs

LEMMA InitTInv == Init => TInv
<1> SUFFICES ASSUME Init PROVE TInv
  OBVIOUS
<1>1. ControlType
  BY DEF Init, ControlType, Frames
<1>2. BufferType
  BY DEF Init, BufferType, SigValues
<1>3. NonceType
  BY GarbageType, Uint16Assumption DEF Init, NonceType, AttemptPcs
<1>4. StackType
  BY DEF Init, StackType
<1>5. CallInv
  BY DEF Init, CallInv, Signing, AttemptPcs, KeypairPcs
<1> QED
  BY <1>1, <1>2, <1>3, <1>4, <1>5 DEF TInv, TypeOK

LEMMA StepTInv == TInv /\ [Next]_vars => TInv'
<1> SUFFICES ASSUME TInv, [Next]_vars PROVE TInv'
  OBVIOUS
<1> USE DEF TInv, TypeOK, Signing, AttemptPcs, KeypairPcs
<1>1. CASE SignSignature
  <2>1. ControlType'
    BY <1>1 DEF SignSignature, StartSigning, keys, out, ControlType, Frames
  <2>2. BufferType'
    BY <1>1, MuType DEF SignSignature, StartSigning, keys, out, BufferType, CallInv
  <2>3. NonceType'
    BY <1>1, GarbageType, Uint16Assumption DEF SignSignature, StartSigning, keys, out, NonceType
  <2>4. StackType'
    BY <1>1 DEF SignSignature, StartSigning, keys, out, StackType, InternalBuffers, WrapperBuffers, StackBuffers
  <2>5. CallInv'
    BY <1>1, MuType DEF SignSignature, StartSigning, keys, out, CallInv, BufferType
  <2> QED
    BY <2>1, <2>2, <2>3, <2>4, <2>5
<1>2. CASE SignExtmu
  <2>1. ControlType'
    BY <1>2 DEF SignExtmu, StartSigning, keys, out, ControlType, Frames
  <2>2. BufferType'
    BY <1>2 DEF SignExtmu, StartSigning, keys, out, BufferType, CallInv
  <2>3. NonceType'
    BY <1>2, GarbageType, Uint16Assumption DEF SignExtmu, StartSigning, keys, out, NonceType
  <2>4. StackType'
    BY <1>2 DEF SignExtmu, StartSigning, keys, out, StackType, InternalBuffers, WrapperBuffers, StackBuffers
  <2>5. CallInv'
    BY <1>2 DEF SignExtmu, StartSigning, keys, out, CallInv, BufferType
  <2> QED
    BY <2>1, <2>2, <2>3, <2>4, <2>5
<1>3. CASE SignRefused
  BY <1>3
  DEF SignRefused, keys, Frames, ControlType, BufferType, NonceType, StackType, StackBuffers, CallInv
<1>4. CASE Verify
  BY <1>4, VerifyType
  DEF Verify, keys, out, ControlType, BufferType, NonceType, StackType, StackBuffers, CallInv
<1>5. CASE VerifyExtmu
  BY <1>5, VerifyType
  DEF VerifyExtmu, keys, out, ControlType, BufferType, NonceType, StackType, StackBuffers, CallInv
<1>6. CASE VerifyRefused
  BY <1>6
  DEF VerifyRefused, keys, out, ControlType, BufferType, NonceType, StackType, StackBuffers, CallInv
<1>7. CASE Scribble
  BY <1>7
  DEF Scribble, keys, Frames, SigValues, ControlType, BufferType, NonceType, StackType, StackBuffers, CallInv
<1>8. CASE Keypair
  <2>1. ControlType'
    BY <1>8 DEF Keypair, keys, out, ControlType
  <2>2. BufferType'
    BY <1>8 DEF Keypair, keys, out, BufferType, CallInv
  <2>3. NonceType'
    BY <1>8 DEF Keypair, keys, out, NonceType
  <2>4. StackType'
    BY <1>8 DEF Keypair, keys, out, StackType, StackBuffers
  <2>5. CallInv'
    BY <1>8 DEF Keypair, keys, out, CallInv, BufferType
  <2> QED
    BY <2>1, <2>2, <2>3, <2>4, <2>5
<1>9. CASE KeypairInternal
  <2>1. ControlType'
    BY <1>9 DEF KeypairInternal, out, ControlType
  <2>2. BufferType'
    BY <1>9 DEF KeypairInternal, out, BufferType, CallInv
  <2>3. NonceType'
    BY <1>9 DEF KeypairInternal, out, NonceType
  <2>4. StackType'
    BY <1>9 DEF KeypairInternal, out, StackType, KeypairBuffers, StackBuffers
  <2>5. CallInv'
    BY <1>9 DEF KeypairInternal, out, CallInv, BufferType
  <2> QED
    BY <2>1, <2>2, <2>3, <2>4, <2>5
<1>10. CASE PctSign
  <2>1. ControlType'
    BY <1>10 DEF PctSign, StartSigning, keys, out, ControlType, Frames
  <2>2. BufferType'
    BY <1>10, MuType, SigningAssumption DEF PctSign, StartSigning, keys, out, BufferType, CallInv
  <2>3. NonceType'
    BY <1>10, GarbageType, Uint16Assumption DEF PctSign, StartSigning, keys, out, NonceType
  <2>4. StackType'
    BY <1>10 DEF PctSign, StartSigning, keys, out, StackType, InternalBuffers, WrapperBuffers, PctBuffers, StackBuffers
  <2>5. CallInv'
    BY <1>10, MuType, SigningAssumption DEF PctSign, StartSigning, keys, out, CallInv, BufferType
  <2> QED
    BY <2>1, <2>2, <2>3, <2>4, <2>5
<1>11. CASE PctVerify
  BY <1>11, VerifyType
  DEF PctVerify, keys, out, ControlType, BufferType, NonceType, StackType, StackBuffers, CallInv
<1>12. CASE PctReturn
  BY <1>12
  DEF PctReturn, keys, Frames, SigValues, ControlType, BufferType, NonceType, StackType, StackBuffers, CallInv
<1>13. CASE KeypairReturn
  BY <1>13
  DEF KeypairReturn, keys, out, ControlType, BufferType, NonceType, StackType, StackBuffers, CallInv
<1>14. CASE NonceExhausted
  BY <1>14
  DEF NonceExhausted, keys, Frames, SigValues, ControlType, BufferType, NonceType, StackType, StackBuffers, CallInv
<1>15. CASE SampleMask
  <2>1. ControlType'
    BY <1>15 DEF SampleMask, keys, out, ControlType
  <2>2. BufferType'
    BY <1>15 DEF SampleMask, keys, out, BufferType, CallInv
  <2>3. NonceType'
    <3>1. y' \in [0 .. L - 1 -> 0 .. UINT16_MAX]
      BY <1>15, MaskType DEF SampleMask, NonceType
    <3>2. \A v \in 0 .. UINT16_MAX : v # -1 /\ v \in -1 .. UINT16_MAX
      BY Uint16Assumption
    <3>3. y' \in [0 .. L - 1 -> -1 .. UINT16_MAX] /\ \A k \in 0 .. L - 1 : y'[k] # -1
      BY <3>1, <3>2
    <3> QED
      BY <1>15, <3>3 DEF SampleMask, NonceType
  <2>4. StackType'
    BY <1>15 DEF SampleMask, keys, out, StackType, AttemptBuffers, StackBuffers
  <2>5. CallInv'
    BY <1>15 DEF SampleMask, keys, out, CallInv, BufferType
  <2> QED
    BY <2>1, <2>2, <2>3, <2>4, <2>5
<1>16. CASE Commit
  BY <1>16
  DEF Commit, keys, Frames, SigValues, AttemptBuffers, StackBuffers, ControlType, BufferType, NonceType, StackType, StackBuffers, CallInv
<1>17. CASE CheckZ
  <2>1. ControlType'
    BY <1>17 DEF CheckZ, Reject, Continue, keys, out, ControlType
  <2>2. BufferType'
    BY <1>17 DEF CheckZ, Reject, Continue, keys, out, BufferType, CallInv
  <2>3. NonceType'
    BY <1>17, RejectType DEF CheckZ, Continue, keys, out, NonceType
  <2>4. StackType'
    BY <1>17 DEF CheckZ, Reject, Continue, keys, out, StackType, AttemptBuffers, StackBuffers
  <2>5. CallInv'
    BY <1>17 DEF CheckZ, Reject, Continue, keys, out, CallInv, BufferType
  <2> QED
    BY <2>1, <2>2, <2>3, <2>4, <2>5
<1>18. CASE CheckW0
  <2>1. ControlType'
    BY <1>18 DEF CheckW0, Reject, Continue, keys, out, ControlType
  <2>2. BufferType'
    BY <1>18 DEF CheckW0, Reject, Continue, keys, out, BufferType, CallInv
  <2>3. NonceType'
    BY <1>18, RejectType DEF CheckW0, Continue, keys, out, NonceType
  <2>4. StackType'
    BY <1>18 DEF CheckW0, Reject, Continue, keys, out, StackType
  <2>5. CallInv'
    BY <1>18 DEF CheckW0, Reject, Continue, keys, out, CallInv, BufferType
  <2> QED
    BY <2>1, <2>2, <2>3, <2>4, <2>5
<1>19. CASE CheckH
  <2>1. ControlType'
    BY <1>19 DEF CheckH, Reject, Continue, keys, out, ControlType
  <2>2. BufferType'
    BY <1>19 DEF CheckH, Reject, Continue, keys, out, BufferType, CallInv
  <2>3. NonceType'
    BY <1>19, RejectType DEF CheckH, Continue, keys, out, NonceType
  <2>4. StackType'
    BY <1>19 DEF CheckH, Reject, Continue, keys, out, StackType
  <2>5. CallInv'
    BY <1>19 DEF CheckH, Reject, Continue, keys, out, CallInv, BufferType
  <2> QED
    BY <2>1, <2>2, <2>3, <2>4, <2>5
<1>20. CASE CheckHint
  <2>1. ControlType'
    BY <1>20 DEF CheckHint, Reject, keys, out, ControlType
  <2>2. BufferType'
    BY <1>20, Uint16Assumption DEF CheckHint, Reject, keys, out, BufferType, CallInv, Frames, SigValues, Signature, Signatures, NonceType
  <2>3. NonceType'
    <3>1. CASE Reject
      BY <3>1, RejectType
    <3>2. CASE ~Reject
      <4>1. nonce' = U16(nonce + 1) /\ pc' = "sign_ret" /\ UNCHANGED <<y, used>>
        BY <1>20, <3>2 DEF CheckHint
      <4>2. U16(nonce + 1) \in 0 .. UINT16_MAX
        BY U16Type, Uint16Assumption DEF NonceType
      <4> QED
        BY <4>1, <4>2 DEF NonceType
    <3> QED
      BY <3>1, <3>2
  <2>4. StackType'
    BY <1>20 DEF CheckHint, Reject, keys, out, StackType
  <2>5. CallInv'
    BY <1>20 DEF CheckHint, Reject, keys, out, CallInv, BufferType
  <2> QED
    BY <2>1, <2>2, <2>3, <2>4, <2>5
<1>21. CASE SignReturn
  <2>1. ControlType'
    BY <1>21 DEF SignReturn, LocalsGone, keys, out, ControlType
  <2>2. BufferType'
    BY <1>21 DEF SignReturn, LocalsGone, keys, out, BufferType, CallInv
  <2>3. NonceType'
    BY <1>21, GarbageType, SigningAssumption, Uint16Assumption DEF SignReturn, LocalsGone, keys, out, NonceType
  <2>4. StackType'
    BY <1>21 DEF SignReturn, LocalsGone, keys, out, StackType
  <2>5. CallInv'
    BY <1>21 DEF SignReturn, LocalsGone, keys, out, CallInv, BufferType
  <2> QED
    BY <2>1, <2>2, <2>3, <2>4, <2>5
<1>22. CASE UNCHANGED vars
  BY <1>22 DEF vars, ControlType, BufferType, NonceType, StackType, StackBuffers, CallInv
<1> QED
  BY <1>1, <1>2, <1>3, <1>4, <1>5, <1>6, <1>7, <1>8, <1>9, <1>10, <1>11, <1>12, <1>13, <1>14, <1>15, <1>16, <1>17, <1>18, <1>19, <1>20, <1>21, <1>22 DEF Next, Call, Step


\* Each variable always has its type.
THEOREM TypeCorrect == Spec => []TypeOK
<1>1. TInv => TypeOK
  BY DEF TInv
<1> QED
  BY InitTInv, StepTInv, <1>1, PTL DEF Spec

LEMMA TInvCorrect == Spec => []TInv
BY InitTInv, StepTInv, PTL DEF Spec

-------------------------------------------------------------------------------
(***************************************************************************)
(* Fresh masks.                                                            *)
(***************************************************************************)

\* The bound of the loop is a natural number.
LEMMA BoundType == NONCE_UB \in Nat /\ NONCE_UB < UINT16_MAX
<1>1. CASE L = 4
  BY <1>1, SigningAssumption, Uint16Assumption DEF NONCE_UB
<1>2. CASE L = 5
  BY <1>2, SigningAssumption, Uint16Assumption DEF NONCE_UB
<1>3. CASE L = 7
  BY <1>3, SigningAssumption, Uint16Assumption DEF NONCE_UB
<1> QED
  BY <1>1, <1>2, <1>3, SigningAssumption

\* Rejecting attempt `nonce` adds its mask to the used ones and moves on to a
\* nonce that is at most the bound, so the increment does not wrap.
LEMMA RejectMaskInv ==
  ASSUME TypeOK, MaskInv, pc \in AttemptPcs, Reject
  PROVE  MaskInv'
<1>1. nonce \in Nat /\ nonce < NONCE_UB /\ nonce + 1 <= NONCE_UB
  BY BoundType, Uint16Assumption DEF TypeOK, NonceType, MaskInv
<1>2. nonce' = nonce + 1
  BY <1>1, BoundType, Uint16Assumption, U16Identity DEF Reject
<1>3. /\ L * nonce \in Nat
      /\ L * (nonce + 1) = L * nonce + L
      /\ L \in Nat \ {0}
  BY <1>1, SigningAssumption
<1>4. y = [i \in 0 .. L - 1 |-> L * nonce + i] /\ used \subseteq 0 .. L * nonce - 1
  BY DEF MaskInv
<1>5. {y[i] : i \in DOMAIN y} \subseteq 0 .. L * nonce' - 1
  BY <1>1, <1>2, <1>3, <1>4
<1>6. used' \subseteq 0 .. L * nonce' - 1
  <2>1. L * nonce' = L * nonce + L
    BY <1>2, <1>3
  <2>2. 0 .. L * nonce - 1 \subseteq 0 .. L * nonce' - 1
    BY <1>3, <2>1
  <2>3. used' = used \cup {y[i] : i \in DOMAIN y}
    BY DEF Reject
  <2> QED
    BY <1>4, <1>5, <2>2, <2>3
<1> QED
  BY <1>1, <1>2, <1>6 DEF Reject, MaskInv, AttemptPcs

\* A signing call starts at nonce 0 with no mask used.
LEMMA StartMaskInv ==
  ASSUME NEW f, NEW u, NEW d, StartSigning(f, u, d)
  PROVE  MaskInv'
<1>1. nonce' = 0 /\ used' = {} /\ pc' = "loop"
  BY DEF StartSigning
<1> QED
  BY <1>1, BoundType DEF MaskInv, AttemptPcs

LEMMA StepMaskInv == TypeOK /\ MaskInv /\ [Next]_vars => MaskInv'
<1> SUFFICES ASSUME TypeOK, MaskInv, [Next]_vars PROVE MaskInv'
  OBVIOUS
<1>1. CASE SignSignature \/ SignExtmu \/ PctSign
  BY <1>1, StartMaskInv DEF SignSignature, SignExtmu, PctSign
<1>2. CASE SampleMask
  <2>1. nonce \in Nat /\ nonce <= NONCE_UB /\ nonce # NONCE_UB
    BY <1>2, Uint16Assumption DEF SampleMask, MaskInv, TypeOK, NonceType
  <2>2. nonce < NONCE_UB
    BY <2>1, BoundType
  <2>3. y' = [i \in 0 .. L - 1 |-> L * nonce + i]
    BY <1>2, <2>1, <2>2, MaskNonces DEF SampleMask
  <2> QED
    BY <1>2, <2>2, <2>3 DEF SampleMask, MaskInv, AttemptPcs
<1>3. CASE Commit
  BY <1>3 DEF Commit, MaskInv, AttemptPcs
<1>4. CASE CheckZ
  BY <1>4, RejectMaskInv DEF CheckZ, Continue, MaskInv, AttemptPcs
<1>5. CASE CheckW0
  BY <1>5, RejectMaskInv DEF CheckW0, Continue, MaskInv, AttemptPcs
<1>6. CASE CheckH
  BY <1>6, RejectMaskInv DEF CheckH, Continue, MaskInv, AttemptPcs
<1>7. CASE CheckHint
  BY <1>7, RejectMaskInv DEF CheckHint, MaskInv, AttemptPcs
<1>8. CASE NonceExhausted \/ SignReturn
  BY <1>8 DEF NonceExhausted, SignReturn, MaskInv, AttemptPcs
<1>9. CASE Keypair \/ KeypairInternal \/ PctVerify \/ PctReturn \/ KeypairReturn
  BY <1>9 DEF Keypair, KeypairInternal, PctVerify, PctReturn, KeypairReturn, MaskInv, AttemptPcs
<1>10. CASE SignRefused \/ Verify \/ VerifyExtmu \/ VerifyRefused \/ Scribble
  BY <1>10 DEF SignRefused, Verify, VerifyExtmu, VerifyRefused, Scribble, MaskInv, AttemptPcs
<1>11. CASE UNCHANGED vars
  BY <1>11 DEF vars, MaskInv
<1> QED
  BY <1>1, <1>2, <1>3, <1>4, <1>5, <1>6, <1>7, <1>8, <1>9, <1>10, <1>11 DEF Next, Call, Step

\* No mask nonce is used twice in a signing call, over all its attempts.
THEOREM MaskFreshness == Spec => []MaskFresh
<1>1. Init => MaskInv
  BY DEF Init, MaskInv, AttemptPcs
<1>2. TypeOK /\ MaskInv => MaskFresh
  <2> SUFFICES ASSUME TypeOK, MaskInv, pc \in AttemptPcs PROVE MaskFresh
    BY DEF MaskFresh
  <2>1. L * nonce \in Nat /\ L \in Nat
    BY SigningAssumption, Uint16Assumption DEF TypeOK, NonceType
  <2>2. y = [i \in 0 .. L - 1 |-> L * nonce + i] /\ used \subseteq 0 .. L * nonce - 1
    BY DEF MaskInv
  <2> QED
    BY <2>1, <2>2 DEF MaskFresh
<1> QED
  BY TypeCorrect, <1>1, <1>2, StepMaskInv, PTL DEF Spec

-------------------------------------------------------------------------------
(***************************************************************************)
(* The signature buffer is honest, and what verifies was signed.           *)
(***************************************************************************)
VInv ==
  /\ BufferInv /\ VerifiedWasSigned
  /\ pc \in {"idle", "keypair", "pct", "keypair_ret"} => frame = "app"

\* Verification accepts only a buffer of the right length that holds a
\* signature of that key for that representative.
LEMMA VerifyAccepts ==
  ASSUME NEW buf, NEW len, NEW key, NEW u, VerifyInternal(buf, len, key, u) = 0
  PROVE  len = CRYPTO_BYTES /\ buf.kind = "sig" /\ PublicKey(buf.seed) = key /\ buf.mu = u
BY DEF VerifyInternal

\* In an honest buffer, what verifies is the signature of the last signing call.
LEMMA HonestVerify ==
  ASSUME TypeOK, HonestBuffer, pk # NoKey, NEW u \in Mus,
         VerifyInternal(sig["app"], siglen["app"], PublicKey(pk), u) = 0
  PROVE  signed = [seed |-> pk, mu |-> u]
<1>1. /\ siglen["app"] = CRYPTO_BYTES /\ sig["app"].kind = "sig"
      /\ PublicKey(sig["app"].seed) = PublicKey(pk) /\ sig["app"].mu = u
  BY VerifyAccepts
<1>2. sig["app"].seed = pk
  BY <1>1 DEF PublicKey
<1>3. sig["app"] \notin Junk
  BY <1>1 DEF Junk
<1>4. signed # NoRecord /\ signed.seed = pk /\ signed.mu = u
  BY <1>1, <1>2, <1>3 DEF HonestBuffer
<1>5. signed \in [seed : Seeds, mu : Mus]
  BY <1>4 DEF TypeOK, BufferType
<1> QED
  BY <1>4, <1>5

LEMMA InitVInv == Init => VInv
<1> SUFFICES ASSUME Init PROVE VInv
  OBVIOUS
<1>1. sig["app"] = Zeros /\ siglen["app"] = 0
  BY DEF Init, Frames
<1>2. HonestBuffer
  BY <1>1, TermsAssumption DEF HonestBuffer, Zeros, PackedW1
<1> QED
  BY <1>2 DEF Init, VInv, BufferInv, VerifiedWasSigned, Signing, AttemptPcs, NONE

LEMMA StepVInv == TInv /\ VInv /\ [Next]_vars => VInv'
<1> SUFFICES ASSUME TInv, VInv, [Next]_vars PROVE VInv'
  OBVIOUS
<1> USE DEF Signing, AttemptPcs, KeypairPcs
<1>1. CASE SignSignature \/ SignExtmu
  BY <1>1 DEF VInv, SignSignature, SignExtmu, StartSigning, BufferInv, VerifiedWasSigned
<1>2. CASE SignRefused
  BY <1>2, TermsAssumption DEF VInv, SignRefused, keys, TInv, TypeOK, BufferType, ControlType, BufferInv, HonestBuffer, VerifiedWasSigned
<1>3. CASE Verify
  BY <1>3, HonestVerify, MuType DEF VInv, Verify, keys, out, TInv, TypeOK, BufferType, BufferInv, HonestBuffer, VerifiedWasSigned
<1>4. CASE VerifyExtmu
  BY <1>4, HonestVerify DEF VInv, VerifyExtmu, keys, out, TInv, BufferInv, HonestBuffer, VerifiedWasSigned
<1>5. CASE VerifyRefused
  BY <1>5 DEF VInv, VerifyRefused, keys, out, BufferInv, HonestBuffer, VerifiedWasSigned
<1>6. CASE Scribble
  BY <1>6 DEF VInv, Scribble, TInv, TypeOK, BufferType, ControlType, NONE, PackedW1, Junk, BufferInv, HonestBuffer, VerifiedWasSigned
<1>7. CASE Keypair
  BY <1>7 DEF VInv, Keypair, keys, out, BufferInv, HonestBuffer, VerifiedWasSigned
<1>8. CASE KeypairInternal
  BY <1>8 DEF VInv, KeypairInternal, out, BufferInv, HonestBuffer, VerifiedWasSigned
<1>9. CASE PctSign
  BY <1>9 DEF VInv, PctSign, StartSigning, out, BufferInv, HonestBuffer, VerifiedWasSigned
<1>10. CASE PctVerify
  BY <1>10 DEF VInv, PctVerify, out, BufferInv, HonestBuffer, VerifiedWasSigned
<1>11. CASE PctReturn
  BY <1>11 DEF VInv, PctReturn, TInv, TypeOK, BufferType, Frames, BufferInv, HonestBuffer, VerifiedWasSigned
<1>12. CASE KeypairReturn
  BY <1>12 DEF VInv, KeypairReturn, out, TInv, CallInv, BufferInv, HonestBuffer, VerifiedWasSigned
<1>13. CASE NonceExhausted
  BY <1>13 DEF VInv, NonceExhausted, TInv, TypeOK, BufferType, ControlType, Frames, BufferInv, HonestBuffer, VerifiedWasSigned
<1>14. CASE SampleMask
  BY <1>14 DEF VInv, SampleMask, out, BufferInv, HonestBuffer, VerifiedWasSigned
<1>15. CASE Commit
  BY <1>15 DEF VInv, Commit, TInv, TypeOK, BufferType, ControlType, Frames, BufferInv, HonestBuffer, VerifiedWasSigned
<1>16. CASE CheckZ \/ CheckW0 \/ CheckH
  BY <1>16 DEF VInv, CheckZ, CheckW0, CheckH, Reject, Continue, out, BufferInv, HonestBuffer, VerifiedWasSigned
<1>17. CASE CheckHint
  <2>1. CASE Reject
    BY <1>17, <2>1 DEF VInv, CheckHint, Reject, out, BufferInv, HonestBuffer, VerifiedWasSigned
  <2>2. CASE ~Reject
    <3>1. /\ sig' = [sig EXCEPT ![frame] = Signature(sk, mu, nonce)]
          /\ siglen' = [siglen EXCEPT ![frame] = CRYPTO_BYTES]
          /\ pc' = "sign_ret" /\ ret' = 0
          /\ UNCHANGED <<frame, sk, mu, signed>>
      BY <1>17, <2>2 DEF CheckHint, keys
    <3>2. frame = "app" => sig'["app"] = Signature(sk, mu, nonce)
      BY <3>1 DEF TInv, TypeOK, BufferType, Frames
    <3>3. frame # "app" => sig'["app"] = sig["app"] /\ siglen'["app"] = siglen["app"]
      BY <3>1 DEF TInv, TypeOK, BufferType, Frames
    <3> QED
      BY <1>17, <3>1, <3>2, <3>3
      DEF CheckHint, Signature, VInv, BufferInv, HonestBuffer, VerifiedWasSigned
  <2> QED
    BY <2>1, <2>2
<1>18. CASE SignReturn
  <2>1. CASE frame = "pct"
    BY <1>18, <2>1 DEF VInv, SignReturn, out, BufferInv, HonestBuffer, VerifiedWasSigned
  <2>2. CASE frame = "app" /\ ret = 0
    <3>1. signed' = [seed |-> sk, mu |-> mu] /\ signed' # NoRecord
      BY <1>18, <2>2 DEF SignReturn, NoRecord
    <3>2. sig["app"].kind = "sig" /\ sig["app"].seed = sk /\ sig["app"].mu = mu
      BY <1>18, <2>2 DEF SignReturn, VInv, BufferInv
    <3>3. HonestBuffer'
      BY <1>18, <3>1, <3>2 DEF SignReturn, out, HonestBuffer, PackedW1
    <3> QED
      BY <1>18, <2>2, <3>3 DEF SignReturn, VInv, BufferInv, VerifiedWasSigned, TInv, CallInv
  <2>3. CASE frame = "app" /\ ret # 0
    <3>1. HonestBuffer'
      BY <1>18, <2>3, TermsAssumption
      DEF SignReturn, out, VInv, BufferInv, HonestBuffer, PackedW1, Zeros
    <3> QED
      BY <1>18, <2>3, <3>1 DEF SignReturn, VInv, BufferInv, VerifiedWasSigned, TInv, CallInv
  <2> QED
    BY <1>18, <2>1, <2>2, <2>3 DEF SignReturn
<1>19. CASE UNCHANGED vars
  BY <1>19 DEF vars, VInv, BufferInv, HonestBuffer, VerifiedWasSigned
<1> QED
  BY <1>1, <1>2, <1>3, <1>4, <1>5, <1>6, <1>7, <1>8, <1>9, <1>10, <1>11, <1>12, <1>13,
     <1>14, <1>15, <1>16, <1>17, <1>18, <1>19 DEF Next, Call, Step

\* The signature buffer never announces what it does not hold.
THEOREM SiglenHonesty == Spec => []SiglenIsHonest
<1>1. VInv => SiglenIsHonest
  BY DEF VInv, BufferInv, SiglenIsHonest, Signing, AttemptPcs
<1> QED
  BY TInvCorrect, InitVInv, StepVInv, <1>1, PTL DEF Spec

\* What verifies was signed, with this key and for this representative.
THEOREM VerificationSound == Spec => []VerifiedWasSigned
<1>1. VInv => VerifiedWasSigned
  BY DEF VInv
<1> QED
  BY TInvCorrect, InitVInv, StepVInv, <1>1, PTL DEF Spec

-------------------------------------------------------------------------------
(***************************************************************************)
(* What the return value and the stack say of the attempts: the oracle of  *)
(* the call decides both.                                                  *)
(***************************************************************************)
Exhausted == Good(call.oracle) = {}

\* No attempt before this one was acceptable; the checks that this one has passed; and
\* what the return value means until the call is over.
OracleInv ==
  /\ call.api \in {"sign", "keypair"} => call.oracle \in Oracles(NONCE_UB)
  /\ pc \in AttemptPcs \cup {"loop"} => \A n \in 0 .. nonce - 1 : call.oracle[n] # "ok"
  /\ pc = "check_w0" => Outcome # "z"
  /\ pc = "check_h" => Outcome \notin {"z", "w0"}
  /\ pc = "check_hint" => Outcome \notin {"z", "w0", "h"}
  /\ pc = "sign_ret" => (ret = 0 <=> ~Exhausted)
  /\ pc = "pct_verify" => ~Exhausted
  /\ pc = "pct_ret" => (ret = 0 <=> ~Exhausted /\ ~broke)
  /\ pc = "keypair_ret" /\ PCT => (ret = 0 <=> ~Exhausted /\ ~broke)

\* The PCT signs its message with the new key, and verifies that very signature.
PctInv ==
  /\ Signing /\ frame = "pct" => mu = Mu(PublicKey(sk), PctCtx, PctMsg)
  /\ pc = "sign_ret" /\ frame = "pct" /\ ret = 0 =>
       sig["pct"].kind = "sig" /\ sig["pct"].seed = sk /\ sig["pct"].mu = mu
       /\ siglen["pct"] = CRYPTO_BYTES
  /\ pc = "pct_verify" =>
       /\ sig["pct"].kind = "sig" /\ sig["pct"].seed = sk
       /\ sig["pct"].mu = Mu(PublicKey(sk), PctCtx, PctMsg)
       /\ siglen["pct"] = CRYPTO_BYTES

\* The intermediate values of the functions below the signing code.
Below == WrapperBuffers \cup (IF frame = "pct" THEN PctBuffers \cup {"seed"} ELSE {})

DirtyInv ==
  /\ pc \in {"keypair", "pct"} => dirty = {"seed"}
  /\ pc = "loop" => dirty \subseteq Below \cup InternalBuffers
  /\ pc \in AttemptPcs => dirty \subseteq Below \cup InternalBuffers \cup AttemptBuffers
  /\ pc = "sign_ret" => dirty \subseteq Below \cup (IF ret = 0 THEN {} ELSE InternalBuffers)
  /\ pc = "pct_verify" => dirty \subseteq PctBuffers \cup {"seed"}
  /\ pc = "pct_ret" =>
       dirty \subseteq PctBuffers \cup {"seed"} \cup (IF Exhausted THEN InternalBuffers ELSE {})
  /\ pc = "keypair_ret" =>
       dirty \subseteq {"seed"} \cup (IF Exhausted THEN InternalBuffers ELSE {})

OInv == OracleInv /\ PctInv /\ DirtyInv /\ PctGate /\ OnlyExhaustionLeavesValues

LEMMA InitOInv == Init => OInv
BY DEF Init, OInv, OracleInv, PctInv, DirtyInv, PctGate, OnlyExhaustionLeavesValues, NONE,
       Signing, AttemptPcs

\* The outcome of an attempt below the bound is the oracle's.
LEMMA OutcomeIsOracle ==
  ASSUME TInv, MaskInv, OracleInv, pc \in AttemptPcs
  PROVE  /\ nonce \in Nat /\ nonce < NONCE_UB /\ NONCE_UB \in Nat
         /\ call.api \in {"sign", "keypair"} /\ call.oracle \in Oracles(NONCE_UB)
         /\ Outcome = call.oracle[nonce] /\ Outcome \in Outcomes
         /\ U16(nonce + 1) = nonce + 1
<1>1. nonce \in Nat /\ nonce < NONCE_UB
  BY DEF TInv, TypeOK, NonceType, MaskInv
<1>2. NONCE_UB \in Nat
  BY SigningAssumption, Uint16Assumption DEF NONCE_UB
<1>3. call.api \in {"sign", "keypair"}
  BY DEF TInv, CallInv, Signing, TypeOK, ControlType, Frames
<1>4. call.oracle \in Oracles(NONCE_UB)
  BY <1>3 DEF OracleInv
<1>5. Outcome = call.oracle[nonce] /\ Outcome \in Outcomes
  BY <1>1, <1>2, <1>4 DEF Oracles, Outcome
<1>6. nonce + 1 \in 0 .. UINT16_MAX
  <2>1. L * nonce + L <= UINT16_MAX - L
    BY <1>1, NonceRoom
  <2>2. L \in {4, 5, 7}
    BY SigningAssumption
  <2> QED
    BY <1>1, <2>1, <2>2, Uint16Assumption
<1> QED
  BY <1>1, <1>2, <1>3, <1>4, <1>5, <1>6, U16Identity

\* A rejected attempt was not acceptable, and its buffers are wiped.
LEMMA RejectOInv ==
  ASSUME TInv, MaskInv, OInv, pc \in AttemptPcs, Outcome # "ok", Reject
  PROVE  OInv'
<1>1. /\ nonce' = nonce + 1 /\ nonce \in Nat /\ call.oracle[nonce] # "ok"
      /\ call' = call /\ pc' = "loop" /\ dirty' = dirty \ AttemptWiped
      /\ UNCHANGED <<keys, frame, out, mu, broke, signed, ret>>
  BY OutcomeIsOracle DEF Reject, OInv
<1>2. OracleInv'
  <2>1. \A n \in 0 .. nonce - 1 : call.oracle[n] # "ok"
    BY DEF OInv, OracleInv
  <2>2. \A n \in 0 .. nonce' - 1 : call'.oracle[n] # "ok"
    BY <1>1, <2>1
  <2> QED
    BY <1>1, <2>2 DEF OInv, OracleInv, AttemptPcs
<1>3. PctInv'
  BY <1>1 DEF OInv, PctInv, Signing, AttemptPcs, keys
<1>4. DirtyInv' /\ OnlyExhaustionLeavesValues'
  BY <1>1 DEF OInv, DirtyInv, OnlyExhaustionLeavesValues, Below, AttemptPcs, AttemptWiped,
              AttemptBuffers, InternalBuffers, WrapperBuffers, PctBuffers
<1>5. PctGate'
  BY <1>1 DEF PctGate
<1> QED
  BY <1>2, <1>3, <1>4, <1>5 DEF OInv

LEMMA StepOInv == TInv /\ MaskInv /\ VInv /\ OInv /\ [Next]_vars => OInv'
<1> SUFFICES ASSUME TInv, MaskInv, VInv, OInv, [Next]_vars PROVE OInv'
  OBVIOUS
<1> USE DEF Signing, AttemptPcs
<1>0. OracleInv /\ PctInv /\ DirtyInv /\ PctGate /\ OnlyExhaustionLeavesValues
  BY DEF OInv
<1>1. CASE SignSignature \/ SignExtmu
  <2>1. /\ call'.api = "sign" /\ call'.oracle \in Oracles(NONCE_UB)
        /\ pc' = "loop" /\ frame' = "app" /\ nonce' = 0
        /\ dirty' \subseteq WrapperBuffers \cup InternalBuffers
    BY <1>1 DEF SignSignature, SignExtmu, StartSigning, WrapperBuffers
  <2> QED
    BY <2>1 DEF OInv, OracleInv, PctInv, DirtyInv, PctGate, OnlyExhaustionLeavesValues, Below,
                AttemptBuffers, InternalBuffers, WrapperBuffers
<1>2. CASE SignRefused \/ Verify \/ VerifyExtmu \/ VerifyRefused \/ Scribble
  <2>1. call'.api \notin {"sign", "keypair"} /\ pc' = "idle"
    BY <1>2 DEF SignRefused, Verify, VerifyExtmu, VerifyRefused, Scribble, NONE
  <2> QED
    BY <2>1 DEF OInv, OracleInv, PctInv, DirtyInv, PctGate, OnlyExhaustionLeavesValues
<1>3. CASE Keypair
  <2>1. /\ call'.api = "keypair" /\ call'.oracle \in Oracles(NONCE_UB)
        /\ pc' = "keypair" /\ dirty' = {"seed"}
    BY <1>3 DEF Keypair
  <2> QED
    BY <2>1 DEF OInv, OracleInv, PctInv, DirtyInv, PctGate, OnlyExhaustionLeavesValues
<1>4. CASE KeypairInternal
  <2>1. /\ call' = call /\ dirty' = {"seed"}
        /\ IF PCT THEN pc' = "pct" ELSE pc' = "keypair_ret"
    BY <1>0, <1>4 DEF KeypairInternal, DirtyInv, KeypairBuffers, KeypairWiped
  <2> QED
    BY <1>0, <2>1, SigningAssumption
    DEF OInv, OracleInv, PctInv, DirtyInv, PctGate, OnlyExhaustionLeavesValues
<1>5. CASE PctSign
  <2>1. /\ call' = call /\ pc' = "loop" /\ frame' = "pct" /\ nonce' = 0
        /\ mu' = Mu(PublicKey(sk), PctCtx, PctMsg) /\ sk' = sk
        /\ dirty' \subseteq {"seed"} \cup WrapperBuffers \cup PctBuffers \cup InternalBuffers
    BY <1>0, <1>5 DEF PctSign, StartSigning, DirtyInv, keys
  <2> QED
    BY <1>0, <2>1 DEF OInv, OracleInv, PctInv, DirtyInv, PctGate, OnlyExhaustionLeavesValues, Below,
                AttemptBuffers, InternalBuffers, WrapperBuffers, PctBuffers
<1>6. CASE PctVerify
  <2>1. /\ pc = "pct_verify" /\ broke' \in BOOLEAN /\ pc' = "pct_ret"
        /\ UNCHANGED <<call, keys, frame, out, mu, nonce, y, used, dirty, signed>>
    BY <1>6 DEF PctVerify
  <2>2. /\ sig["pct"].kind = "sig" /\ sig["pct"].seed = sk /\ siglen["pct"] = CRYPTO_BYTES
        /\ sig["pct"].mu = Mu(PublicKey(sk), PctCtx, PctMsg) /\ sk = pk /\ ~Exhausted
    BY <1>0, <2>1 DEF PctInv, OracleInv, TInv, TypeOK, BufferType
  <2>3. CASE broke'
    <3>1. ret' = VerifyInternal(sig["pct"], siglen["pct"], Flip(PublicKey(pk)),
                                Mu(Flip(PublicKey(pk)), PctCtx, PctMsg))
      BY <1>6, <2>3 DEF PctVerify
    <3>2. Flip(PublicKey(pk)) # PublicKey(pk)
      BY DEF Flip, PublicKey
    <3>3. ret' # 0
      BY <2>2, <3>1, <3>2, VerifyAccepts
    <3> QED
      BY <1>0, <2>1, <2>2, <2>3, <3>3
      DEF OInv, OracleInv, PctInv, DirtyInv, PctGate, OnlyExhaustionLeavesValues, Exhausted
  <2>4. CASE ~broke'
    <3>1. ret' = VerifyInternal(sig["pct"], siglen["pct"], PublicKey(pk),
                                Mu(PublicKey(pk), PctCtx, PctMsg))
      BY <1>6, <2>4 DEF PctVerify
    <3>2. ret' = 0
      BY <2>2, <3>1 DEF VerifyInternal
    <3> QED
      BY <1>0, <2>1, <2>2, <2>4, <3>2
      DEF OInv, OracleInv, PctInv, DirtyInv, PctGate, OnlyExhaustionLeavesValues, Exhausted
  <2> QED  BY <2>3, <2>4
<1>7. CASE PctReturn
  <2>1. /\ pc = "pct_ret" /\ pc' = "keypair_ret" /\ dirty' = dirty \ PctWiped
        /\ UNCHANGED <<call, broke, ret>>
    BY <1>7 DEF PctReturn
  <2> QED
    BY <1>0, <2>1
    DEF OInv, OracleInv, PctInv, DirtyInv, PctGate, OnlyExhaustionLeavesValues, Exhausted,
        PctWiped, PctBuffers, InternalBuffers
<1>8. CASE KeypairReturn
  <2>1. /\ pc = "keypair_ret" /\ pc' = "idle" /\ dirty' = dirty \ {"seed"}
        /\ UNCHANGED <<call, broke, ret>>
    BY <1>8 DEF KeypairReturn
  <2>2. ~Exhausted => dirty' = {}
    BY <1>0, <2>1 DEF DirtyInv
  <2> QED
    BY <1>0, <2>1, <2>2
    DEF OInv, OracleInv, PctInv, DirtyInv, PctGate, OnlyExhaustionLeavesValues, Exhausted
<1>9. CASE NonceExhausted
  <2>1. /\ pc = "loop" /\ nonce = NONCE_UB /\ pc' = "sign_ret" /\ ret' = -1
        /\ UNCHANGED <<call, keys, frame, mu, dirty, broke>>
    BY <1>9 DEF NonceExhausted
  <2>2. call.api \in {"sign", "keypair"}
    BY <2>1 DEF TInv, CallInv, TypeOK, ControlType, Frames
  <2>3. Exhausted
    BY <1>0, <2>1, <2>2 DEF OracleInv, Exhausted, Good, Oracles
  <2>4. OracleInv' /\ PctInv' /\ PctGate'
    BY <1>0, <2>1, <2>3 DEF OracleInv, PctInv, PctGate, Exhausted, keys
  <2>5. DirtyInv' /\ OnlyExhaustionLeavesValues'
    BY <1>0, <2>1
    DEF DirtyInv, OnlyExhaustionLeavesValues, Below, AttemptBuffers, InternalBuffers,
        WrapperBuffers, PctBuffers
  <2> QED  BY <2>4, <2>5 DEF OInv
<1>10. CASE SampleMask \/ Commit
  <2>1. /\ pc \in {"loop", "commit"} /\ pc' \in {"commit", "check_z"}
        /\ dirty' \subseteq dirty \cup AttemptBuffers
        /\ UNCHANGED <<call, keys, frame, mu, nonce, broke, ret>>
    BY <1>10 DEF SampleMask, Commit, AttemptBuffers
  <2>2. OracleInv' /\ PctInv' /\ PctGate'
    BY <1>0, <2>1 DEF OracleInv, PctInv, PctGate, keys
  <2>3. DirtyInv' /\ OnlyExhaustionLeavesValues'
    BY <1>0, <2>1 DEF DirtyInv, OnlyExhaustionLeavesValues, Below
  <2> QED  BY <2>2, <2>3 DEF OInv
<1>11. CASE CheckZ \/ CheckW0 \/ CheckH
  <2>1. CASE Reject
    <3>1. pc \in AttemptPcs /\ Outcome # "ok"
      <4>1. CASE CheckZ /\ Outcome = "z"  BY <4>1 DEF CheckZ
      <4>2. CASE CheckW0 /\ Outcome = "w0"  BY <4>2 DEF CheckW0
      <4>3. CASE CheckH /\ Outcome = "h"  BY <4>3 DEF CheckH
      <4>4. pc' = "loop"  BY <2>1 DEF Reject
      <4> QED  BY <1>11, <4>1, <4>2, <4>3, <4>4 DEF CheckZ, CheckW0, CheckH, Continue
    <3> QED  BY <2>1, <3>1, RejectOInv
  <2>2. CASE ~Reject
    <3>1. /\ pc \in {"check_z", "check_w0", "check_h"}
          /\ pc = "check_z" => Outcome # "z" /\ pc' = "check_w0"
          /\ pc = "check_w0" => Outcome # "w0" /\ pc' = "check_h"
          /\ pc = "check_h" => Outcome # "h" /\ pc' = "check_hint"
          /\ dirty' \subseteq dirty \cup AttemptBuffers
          /\ UNCHANGED <<call, keys, frame, mu, nonce, broke, ret>>
      BY <1>11, <2>2 DEF CheckZ, CheckW0, CheckH, Continue, AttemptBuffers
    <3>2. Outcome' = Outcome
      BY <3>1 DEF Outcome
    <3>3. OracleInv' /\ PctInv' /\ PctGate'
      BY <1>0, <3>1, <3>2 DEF OracleInv, PctInv, PctGate, keys
    <3>4. DirtyInv' /\ OnlyExhaustionLeavesValues'
      BY <1>0, <3>1 DEF DirtyInv, OnlyExhaustionLeavesValues, Below
    <3> QED  BY <3>3, <3>4 DEF OInv
  <2> QED  BY <2>1, <2>2
<1>12. CASE CheckHint
  <2>1. CASE Outcome = "hint"
    <3>1. pc \in AttemptPcs /\ Outcome # "ok" /\ Reject
      BY <1>12, <2>1 DEF CheckHint
    <3> QED  BY <3>1, RejectOInv
  <2>2. CASE Outcome # "hint"
    <3>1. /\ pc = "check_hint" /\ pc' = "sign_ret" /\ ret' = 0
          /\ sig' = [sig EXCEPT ![frame] = Signature(sk, mu, nonce)]
          /\ siglen' = [siglen EXCEPT ![frame] = CRYPTO_BYTES]
          /\ dirty' = dirty \ (AttemptWiped \cup InternalWiped)
          /\ UNCHANGED <<call, keys, frame, mu, broke>>
      BY <1>12, <2>2 DEF CheckHint
    <3>2. Outcome = "ok"
      BY <1>0, <2>2, <3>1, OutcomeIsOracle DEF OracleInv, Outcomes
    <3>3. ~Exhausted
      BY <1>0, <3>1, <3>2, OutcomeIsOracle DEF Exhausted, Good, Oracles
    <3>4. frame = "pct" => sig'["pct"] = Signature(sk, mu, nonce) /\ siglen'["pct"] = CRYPTO_BYTES
      BY <3>1 DEF TInv, TypeOK, BufferType, Frames
    <3>5. OracleInv' /\ PctGate'
      BY <1>0, <3>1, <3>3 DEF OracleInv, PctGate, Exhausted
    <3>6. PctInv'
      BY <1>0, <3>1, <3>4 DEF PctInv, Signature, keys
    <3>7. DirtyInv' /\ OnlyExhaustionLeavesValues'
      BY <1>0, <3>1
      DEF DirtyInv, OnlyExhaustionLeavesValues, Below, AttemptBuffers, InternalBuffers,
          WrapperBuffers, PctBuffers, AttemptWiped, InternalWiped
    <3> QED  BY <3>5, <3>6, <3>7 DEF OInv
  <2> QED  BY <2>1, <2>2
<1>13. CASE SignReturn
  <2>1. /\ pc = "sign_ret" /\ dirty' = dirty \ WrapperWiped
        /\ UNCHANGED <<call, keys, frame, out, broke, ret>>
    BY <1>13 DEF SignReturn
  <2>2. CASE frame = "app"
    <3>1. pc' = "idle" /\ call.api = "sign"
      BY <1>13, <2>2 DEF SignReturn, TInv, CallInv
    <3>2. ~Exhausted => dirty' = {}
      BY <1>0, <2>1, <2>2 DEF DirtyInv, OracleInv, Below, WrapperWiped, WrapperBuffers
    <3> QED
      BY <1>0, <2>1, <3>1, <3>2
      DEF OInv, OracleInv, PctInv, DirtyInv, PctGate, OnlyExhaustionLeavesValues, Exhausted
  <2>3. CASE frame = "pct"
    <3>1. pc' = (IF ret = 0 THEN "pct_verify" ELSE "pct_ret")
      BY <1>13, <2>3 DEF SignReturn
    <3>2. OracleInv' /\ PctGate'
      BY <1>0, <2>1, <3>1 DEF OracleInv, PctGate, Exhausted
    <3>3. PctInv'
      BY <1>0, <2>1, <2>3, <3>1 DEF PctInv, keys, out
    <3>4. DirtyInv' /\ OnlyExhaustionLeavesValues'
      BY <1>0, <2>1, <2>3, <3>1
      DEF OracleInv, DirtyInv, OnlyExhaustionLeavesValues, Below, WrapperWiped, WrapperBuffers,
          Exhausted
    <3> QED  BY <3>2, <3>3, <3>4 DEF OInv
  <2> QED  BY <2>2, <2>3 DEF TInv, TypeOK, ControlType, Frames
<1>14. CASE UNCHANGED vars
  BY <1>14
  DEF vars, OInv, OracleInv, PctInv, DirtyInv, PctGate, OnlyExhaustionLeavesValues, Exhausted,
      Outcome, Below, keys, out
<1> QED
  BY <1>1, <1>2, <1>3, <1>4, <1>5, <1>6, <1>7, <1>8, <1>9, <1>10, <1>11, <1>12, <1>13, <1>14
  DEF Next, Call, Step

\* A key generation with the PCT succeeds exactly when its test message could be signed
\* and the test was not asked to fail.
THEOREM PctDecides == Spec => []PctGate
<1>1. Init => MaskInv
  BY DEF Init, MaskInv, AttemptPcs
<1>2. OInv => PctGate
  BY DEF OInv
<1> QED
  BY TInvCorrect, TypeCorrect, InitVInv, StepVInv, <1>1, StepMaskInv, InitOInv, StepOInv, <1>2, PTL
  DEF Spec

\* Only a call whose attempts were all rejected leaves intermediate values on the stack,
\* and an attempt leaves none.
THEOREM OnlyExhaustionLeaves == Spec => []OnlyExhaustionLeavesValues
<1>1. Init => MaskInv
  BY DEF Init, MaskInv, AttemptPcs
<1>2. OInv => OnlyExhaustionLeavesValues
  BY DEF OInv
<1> QED
  BY TInvCorrect, TypeCorrect, InitVInv, StepVInv, <1>1, StepMaskInv, InitOInv, StepOInv, <1>2, PTL
  DEF Spec

-------------------------------------------------------------------------------
(***************************************************************************)
(* Signing implements SigningApi: every step of sign.c is a step of the    *)
(* API or none, and the rejection loop with its scratch is invisible.      *)
(***************************************************************************)
Attempted == Signature(sk, mu, First(Good(call.oracle)))

\* A running call works for its caller's inputs, and what a signing function is about to
\* return is the signature of the first acceptable attempt.
RefInv ==
  /\ Signing /\ frame = "app" => call.mu = mu
  /\ pc \in KeypairPcs \ {"keypair"} \/ (Signing /\ frame = "pct") => pk = call.seed
  /\ pc \in {"pct", "pct_verify", "pct_ret"} \/ (Signing /\ frame = "pct") => PCT
  /\ pc = "keypair_ret" /\ ~PCT => ret = 0
  /\ pc = "sign_ret" /\ frame = "app" /\ ret = 0 =>
       sig["app"] = Attempted /\ siglen["app"] = CRYPTO_BYTES

LEMMA InitRefInv == Init => RefInv
BY DEF Init, RefInv, Signing, AttemptPcs, KeypairPcs

\* Of the acceptable attempts, one that none precedes is the first.
LEMMA FirstIs ==
  ASSUME NEW S \in SUBSET Nat, NEW n \in S, \A k \in S : n <= k
  PROVE  First(S) = n
<1>1. \E m \in S : \A k \in S : m <= k
  OBVIOUS
<1>2. First(S) \in S /\ \A k \in S : First(S) <= k
  BY <1>1, Zenon DEF First
<1>3. First(S) <= n /\ n <= First(S)
  BY <1>2, Zenon
<1>4. First(S) \in Nat /\ n \in Nat
  BY <1>2, Zenon
<1> QED
  BY <1>3, <1>4

LEMMA StepRefInv == TInv /\ MaskInv /\ VInv /\ OInv /\ RefInv /\ [Next]_vars => RefInv'
<1> SUFFICES ASSUME TInv, MaskInv, VInv, OInv, RefInv, [Next]_vars PROVE RefInv'
  OBVIOUS
<1> USE DEF Signing, AttemptPcs, KeypairPcs
<1>1. CASE SignSignature \/ SignExtmu
  BY <1>1 DEF SignSignature, SignExtmu, StartSigning, RefInv
<1>2. CASE SignRefused \/ Verify \/ VerifyExtmu \/ VerifyRefused \/ Scribble \/ Keypair
  BY <1>2 DEF SignRefused, Verify, VerifyExtmu, VerifyRefused, Scribble, Keypair, RefInv
<1>3. CASE KeypairInternal
  BY <1>3, SigningAssumption DEF KeypairInternal, RefInv
<1>4. CASE PctSign
  BY <1>4 DEF PctSign, StartSigning, RefInv, keys
<1>5. CASE PctVerify \/ PctReturn
  BY <1>5 DEF PctVerify, PctReturn, RefInv, keys
<1>6. CASE KeypairReturn
  BY <1>6 DEF KeypairReturn, RefInv
<1>7. CASE NonceExhausted \/ SampleMask \/ Commit
  BY <1>7 DEF NonceExhausted, SampleMask, Commit, RefInv, keys
<1>8. CASE CheckZ \/ CheckW0 \/ CheckH
  BY <1>8 DEF CheckZ, CheckW0, CheckH, Reject, Continue, RefInv, keys
<1>9. CASE CheckHint
  <2>1. CASE Outcome = "hint"
    BY <1>9, <2>1 DEF CheckHint, Reject, RefInv, keys
  <2>2. CASE Outcome # "hint"
    <3>1. /\ pc = "check_hint" /\ pc' = "sign_ret" /\ ret' = 0
          /\ sig' = [sig EXCEPT ![frame] = Signature(sk, mu, nonce)]
          /\ siglen' = [siglen EXCEPT ![frame] = CRYPTO_BYTES]
          /\ UNCHANGED <<call, keys, frame, mu>>
      BY <1>9, <2>2 DEF CheckHint
    <3>2. call.oracle[nonce] = "ok" /\ \A n \in 0 .. nonce - 1 : call.oracle[n] # "ok"
      BY <2>2, <3>1, OutcomeIsOracle DEF OInv, OracleInv, Outcomes
    <3>3. First(Good(call.oracle)) = nonce
      <4>1. DOMAIN call.oracle = 0 .. NONCE_UB - 1 /\ nonce \in 0 .. NONCE_UB - 1 /\ NONCE_UB \in Nat
        BY <3>1, OutcomeIsOracle DEF OInv, Oracles
      <4>2. /\ Good(call.oracle) \in SUBSET Nat /\ nonce \in Good(call.oracle)
            /\ \A k \in Good(call.oracle) : nonce <= k
        BY <3>2, <4>1 DEF Good
      <4> QED
        BY <4>2, FirstIs
    <3>4. frame = "app" => sig'["app"] = Signature(sk, mu, nonce) /\ siglen'["app"] = CRYPTO_BYTES
      BY <3>1 DEF TInv, TypeOK, BufferType, Frames
    <3> QED
      BY <3>1, <3>3, <3>4 DEF RefInv, Attempted, keys
  <2> QED
    BY <2>1, <2>2
<1>10. CASE SignReturn
  BY <1>10 DEF SignReturn, RefInv, keys
<1>11. CASE UNCHANGED vars
  BY <1>11 DEF vars, RefInv, Attempted
<1> QED
  BY <1>1, <1>2, <1>3, <1>4, <1>5, <1>6, <1>7, <1>8, <1>9, <1>10, <1>11 DEF Next, Call, Step

\* What the caller may rely on: its signature buffer, except while it is signed into.
Promised ==
  IF Signing /\ frame = "app"
  THEN [sig |-> [kind |-> "undefined"], len |-> 0]
  ELSE [sig |-> sig["app"], len |-> siglen["app"]]

Returned == IF pc = "idle" THEN ret ELSE 1

\* The terms of the two specifications are the same ones.
LEMMA SameTerms ==
  /\ Api!Mus = Mus /\ Api!Junk = Junk /\ Api!Zeros = Zeros /\ Api!NONE = NONE
  /\ Api!Oracles(NONCE_UB) = Oracles(NONCE_UB)
  /\ \A o : Api!Good(o) = Good(o)
  /\ \A S : Api!First(S) = First(S)
  /\ \A s, u, n : Api!Signature(s, u, n) = Signature(s, u, n)
<1>1. \A s : Api!PublicKey(s) = PublicKey(s)
  BY DEF Api!PublicKey, PublicKey
<1>2. Api!Mus = Mus
  BY <1>1 DEF Api!Mus, Mus
<1>3. Api!Junk = Junk /\ Api!Zeros = Zeros /\ Api!NONE = NONE
  BY DEF Api!Junk, Junk, Api!Zeros, Zeros, Api!NONE, NONE
<1>4. Api!Oracles(NONCE_UB) = Oracles(NONCE_UB)
  BY DEF Api!Oracles, Oracles, Api!Outcomes, Outcomes
<1>5. /\ \A o : Api!Good(o) = Good(o)
      /\ \A s, u, n : Api!Signature(s, u, n) = Signature(s, u, n)
  BY DEF Api!Good, Good, Api!Signature, Signature
<1>6. \A S : Api!First(S) = First(S)
  BY DEF Api!First, First
<1> QED
  BY <1>2, <1>3, <1>4, <1>5, <1>6

LEMMA InitImplements == Init => Api!Init
BY SameTerms DEF Init, Api!Init, Signing, AttemptPcs, Frames

\* Verification of the caller's buffer answers as the API does.
LEMMA VerifyImplements ==
  ASSUME TypeOK, pc = "idle", pk # NoKey, NEW u \in Mus,
         call' = [api |-> "verify", mu |-> u],
         ret' = VerifyInternal(sig["app"], siglen["app"], PublicKey(pk), u),
         UNCHANGED <<pc, keys, frame, out>>
  PROVE  Api!Verify
<1> USE DEF Signing, AttemptPcs
<1>1. Promised = [sig |-> sig["app"], len |-> siglen["app"]] /\ Promised' = Promised
  BY DEF Promised, out
<1>2. Returned = ret /\ Returned' = ret' /\ ret \in {0, -1}
  BY DEF Returned, TypeOK, ControlType
<1>3. VerifyInternal(sig["app"], siglen["app"], PublicKey(pk), u)
        = (IF Api!Valid(pk, u) THEN 0 ELSE -1)
  <2>1. Api!Valid(pk, u) <=> /\ siglen["app"] = CRYPTO_BYTES /\ sig["app"].kind = "sig"
                             /\ pk = sig["app"].seed /\ u = sig["app"].mu
    BY <1>1 DEF Api!Valid, Promised
  <2>2. PublicKey(sig["app"].seed) = PublicKey(pk) <=> sig["app"].seed = pk
    BY DEF PublicKey
  <2> QED
    BY <2>1, <2>2 DEF VerifyInternal
<1> QED
  BY SameTerms, <1>1, <1>2, <1>3 DEF Api!Verify, Api!PENDING, Promised, Returned, keys

\* The steps of the rejection loop, and of the pairwise consistency test.
Internal ==
  PctSign \/ PctVerify \/ PctReturn \/ NonceExhausted \/ SampleMask \/ Commit
    \/ CheckZ \/ CheckW0 \/ CheckH \/ CheckHint \/ (SignReturn /\ frame = "pct")

LEMMA InternalStutters ==
  ASSUME TInv, VInv, Internal
  PROVE  UNCHANGED Api!vars
<1> USE DEF Signing, AttemptPcs, KeypairPcs
<1>1. UNCHANGED <<call, pk, sk>> /\ pc # "idle" /\ pc' # "idle"
  BY DEF Internal, PctSign, StartSigning, PctVerify, PctReturn, NonceExhausted, SampleMask, Commit,
         CheckZ, CheckW0, CheckH, CheckHint, Reject, Continue, SignReturn, keys
<1>2. Promised' = Promised
  <2>1. CASE frame = "app" /\ Signing /\ frame' = "app" /\ Signing'
    BY <2>1 DEF Promised
  <2>2. CASE /\ frame = "pct" \/ ~Signing
             /\ frame' = "pct" \/ ~Signing'
             /\ sig'["app"] = sig["app"] /\ siglen'["app"] = siglen["app"]
    BY <2>2 DEF Promised
  <2>3. CASE PctSign \/ PctVerify \/ PctReturn \/ (SignReturn /\ frame = "pct")
    <3>1. sig'["app"] = sig["app"] /\ siglen'["app"] = siglen["app"]
      BY <2>3 DEF PctSign, PctVerify, PctReturn, SignReturn, out, TInv, TypeOK, BufferType, Frames
    <3>2. (frame = "pct" \/ ~Signing) /\ (frame' = "pct" \/ ~Signing')
      BY <2>3 DEF PctSign, StartSigning, PctVerify, PctReturn, SignReturn
    <3> QED
      BY <2>2, <3>1, <3>2
  <2>4. CASE NonceExhausted \/ SampleMask \/ Commit \/ CheckZ \/ CheckW0 \/ CheckH \/ CheckHint
    <3>1. Signing /\ Signing' /\ frame' = frame
      BY <2>4 DEF NonceExhausted, SampleMask, Commit, CheckZ, CheckW0, CheckH, CheckHint, Reject,
                  Continue
    <3>2. frame = "pct" => sig'["app"] = sig["app"] /\ siglen'["app"] = siglen["app"]
      BY <2>4 DEF NonceExhausted, SampleMask, Commit, CheckZ, CheckW0, CheckH, CheckHint, Reject,
                  Continue, out, TInv, TypeOK, BufferType, Frames
    <3>3. frame \in {"app", "pct"}
      BY DEF TInv, TypeOK, ControlType, Frames
    <3> QED
      BY <2>1, <2>2, <3>1, <3>2, <3>3
  <2> QED
    BY <2>3, <2>4 DEF Internal
<1> QED
  BY <1>1, <1>2 DEF Api!vars, Promised

LEMMA StepImplements == TInv /\ VInv /\ OInv /\ RefInv /\ [Next]_vars => [Api!Next]_(Api!vars)
<1> SUFFICES ASSUME TInv, VInv, OInv, RefInv, [Next]_vars PROVE [Api!Next]_(Api!vars)
  OBVIOUS
<1> USE DEF Signing, AttemptPcs, KeypairPcs
<1>0. TypeOK /\ ret \in {0, -1} /\ OracleInv /\ BufferInv
  BY DEF TInv, TypeOK, ControlType, VInv, OInv
<1>1. CASE SignSignature \/ SignExtmu
  <2>1. PICK u \in Mus, o \in Oracles(NONCE_UB) : call' = [api |-> "sign", mu |-> u, oracle |-> o]
    <3>1. sk # NoKey => sk \in Seeds
      BY <1>0 DEF TypeOK, BufferType
    <3> QED
      BY <1>1, <3>1, MuType DEF SignSignature, SignExtmu
  <2>2. /\ pc = "idle" /\ sk # NoKey /\ pc' = "loop" /\ frame' = "app"
        /\ UNCHANGED <<pk, sk>>
    BY <1>1 DEF SignSignature, SignExtmu, StartSigning, keys
  <2>3. Api!SignCall
    BY SameTerms, <1>0, <2>1, <2>2 DEF Api!SignCall, Api!Begin, Api!Undefined, Api!PENDING
  <2> QED  BY <2>3 DEF Api!Next
<1>2. CASE SignRefused
  <2>1. /\ pc = "idle" /\ pc' = "idle" /\ sk # NoKey /\ call' = [api |-> "refused"] /\ ret' = -1
        /\ siglen'["app"] = 0 /\ sig'["app"] = sig["app"] /\ UNCHANGED <<pk, sk>>
    BY <1>0, <1>2 DEF SignRefused, keys, TypeOK, BufferType, Frames
  <2>2. Api!SignRefused
    BY <1>0, <2>1 DEF Api!SignRefused, Api!PENDING
  <2> QED  BY <2>2 DEF Api!Next
<1>3. CASE Verify \/ VerifyExtmu
  <2>1. pc = "idle" /\ pk # NoKey /\ pk \in Seeds
    BY <1>0, <1>3 DEF Verify, VerifyExtmu, TypeOK, BufferType
  <2>2. PICK u \in Mus : /\ call' = [api |-> "verify", mu |-> u]
                         /\ ret' = VerifyInternal(sig["app"], siglen["app"], PublicKey(pk), u)
    BY <1>3, <2>1, MuType DEF Verify, VerifyExtmu
  <2>3. UNCHANGED <<pc, keys, frame, out>>
    BY <1>3 DEF Verify, VerifyExtmu
  <2> QED  BY <1>0, <2>1, <2>2, <2>3, VerifyImplements DEF Api!Next
<1>4. CASE VerifyRefused
  <2>1. Api!VerifyRefused
    BY <1>0, <1>4 DEF VerifyRefused, keys, out, Api!VerifyRefused, Api!PENDING
  <2> QED  BY <2>1 DEF Api!Next
<1>5. CASE Scribble
  <2>1. PICK b \in Junk, n \in {CRYPTO_BYTES - 1, CRYPTO_BYTES} :
          sig'["app"] = b /\ siglen'["app"] = n
    BY <1>0, <1>5 DEF Scribble, TypeOK, BufferType, Frames
  <2>2. Api!Scribble
    BY SameTerms, <1>0, <1>5, <2>1 DEF Scribble, keys, Api!Scribble, Api!PENDING
  <2> QED  BY <2>2 DEF Api!Next
<1>6. CASE Keypair
  <2>1. Api!KeypairCall
    BY SameTerms, <1>0, <1>6 DEF Keypair, keys, out, Api!KeypairCall, Api!Begin, Api!PENDING
  <2> QED  BY <2>1 DEF Api!Next
<1>7. CASE KeypairInternal
  <2>1. Api!KeypairWrite
    BY <1>0, <1>7 DEF KeypairInternal, out, TInv, CallInv, Api!KeypairWrite, Api!Running, Api!PENDING
  <2> QED  BY <2>1 DEF Api!Next
<1>8. CASE KeypairReturn
  <2>1. /\ pc = "keypair_ret" /\ pc' = "idle" /\ call.api = "keypair"
        /\ UNCHANGED <<call, keys, frame, out, ret>>
    BY <1>8 DEF KeypairReturn, TInv, CallInv
  <2>2. /\ pk = call.seed /\ sk = call.seed
        /\ ret = -1 => PCT
        /\ ret = 0 /\ PCT => Good(call.oracle) # {}
    BY <1>0, <2>1 DEF RefInv, OracleInv, Exhausted, TypeOK, BufferType
  <2>3. Api!KeypairReturn
    BY SameTerms, <1>0, <2>1, <2>2 DEF Api!KeypairReturn, Api!Running, Api!PENDING, keys, out
  <2> QED  BY <2>3 DEF Api!Next
<1>9. CASE SignReturn /\ frame = "app"
  <2>1. /\ pc = "sign_ret" /\ pc' = "idle" /\ call.api = "sign" /\ call.mu = mu
        /\ UNCHANGED <<call, keys, frame, out, ret>>
    BY <1>9 DEF SignReturn, TInv, CallInv, RefInv
  <2>2. IF Good(call.oracle) # {}
        THEN ret = 0 /\ sig["app"] = Signature(sk, call.mu, First(Good(call.oracle)))
             /\ siglen["app"] = CRYPTO_BYTES
        ELSE ret = -1 /\ sig["app"] = Zeros /\ siglen["app"] = 0
    BY <1>0, <1>9, <2>1 DEF RefInv, Attempted, OracleInv, Exhausted, BufferInv
  <2>3. Api!SignReturn
    BY SameTerms, <1>9, <2>1, <2>2 DEF Api!SignReturn, Api!Running, Api!PENDING, keys, out
  <2> QED  BY <2>3 DEF Api!Next
<1>10. CASE Internal
  BY <1>10, InternalStutters
<1>11. CASE UNCHANGED vars
  BY <1>11 DEF vars, Api!vars
<1>12. frame \in {"app", "pct"}
  BY <1>0 DEF TypeOK, ControlType, Frames
<1> QED
  BY <1>1, <1>2, <1>3, <1>4, <1>5, <1>6, <1>7, <1>8, <1>9, <1>10, <1>11, <1>12
  DEF Next, Call, Step, Internal

\* The functions of sign.c do what SigningApi promises, for every L, nonce width and
\* sequence of calls.
THEOREM SigningImplementsApi == Spec => ImplementsApi
<1>1. Init => MaskInv
  BY DEF Init, MaskInv, AttemptPcs
<1> QED
  BY TInvCorrect, TypeCorrect, InitVInv, StepVInv, <1>1, StepMaskInv, InitOInv, StepOInv,
     InitRefInv, StepRefInv, InitImplements, StepImplements, PTL
  DEF Spec, ImplementsApi, Api!Spec
===============================================================================
