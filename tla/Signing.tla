-------------------------------- MODULE Signing --------------------------------
(***************************************************************************)
(* mldsa/sign.c: key generation with the pairwise consistency test (PCT),  *)
(* the signing functions with their rejection loop, and verification, as   *)
(* one sequential program that a caller invokes in any order on one pair   *)
(* of key buffers and one signature buffer.                                *)
(*                                                                         *)
(* One action per stretch of code between two decisions.  Lattice values   *)
(* are abstracted to what the decisions tell apart (SigningTerms); what is *)
(* kept is the control, the nonces, the signature buffer with its use as   *)
(* scratch space, and which stack buffers hold intermediate values.        *)
(***************************************************************************)
EXTENDS SigningTerms, SamplePlan

CONSTANTS
  L,                \* MLDSA_L
  PCT,              \* is MLD_CONFIG_KEYGEN_PCT defined?
  PctMsg, PctCtx    \* the one-byte message and the empty context of the PCT

ASSUME SigningAssumption ==
  /\ L \in {4, 5, 7}
  /\ UINT16_MAX >= L
  /\ PCT \in BOOLEAN
  /\ PctMsg \in Msgs /\ PctCtx \in ShortCtxs

VARIABLES
  pc,               \* where the program is; "idle" outside any call
  call,             \* the last call of the API and its inputs
  pk, sk,           \* the caller's key buffers: the seed whose keys they hold
  frame,            \* whose buffer is signed into: the caller's ("app") or the PCT's
  sig, siglen,      \* the signature buffer and *siglen of each frame
  mu,               \* message representative of the signing call
  nonce,            \* uint16_t nonce of the rejection loop
  y,                \* nonce each polynomial of the mask y was expanded from
  used,             \* nonces of the masks of the earlier attempts of this call
  dirty,            \* stack buffers of the last call that still hold intermediate values
  broke,            \* did mld_break_pct() ask for a broken test in this call?
  signed,           \* history: what the last signing call put in the caller's buffer
  ret               \* return value of the last function that returned

vars == <<pc, call, pk, sk, frame, sig, siglen, mu, nonce, y, used, dirty, broke, signed, ret>>
keys == <<pk, sk>>
out  == <<sig, siglen>>

Frames == {"app", "pct"}

(***************************************************************************)
(* The bound of the rejection loop.                                        *)
(***************************************************************************)
\* Mutation: one attempt more than the nonces allow.
Bug_NonceBoundTooLarge == UINT16_MAX \div L + 1

NONCE_UB == (UINT16_MAX - L) \div L

(***************************************************************************)
(* The lists of mld_zeroize calls.  Verification works on public values    *)
(* only, so its buffers are not tracked.                                   *)
(***************************************************************************)
\* Mutation: the copy of s1 that is transformed in place is forgotten.
Bug_S1hatNotWiped ==
  {"kp_seedbuf", "kp_inbuf", "kp_tr", "kp_mat", "kp_s1", "kp_s2", "kp_t1", "kp_t2", "kp_t0"}

KeypairWiped == {"kp_seedbuf", "kp_inbuf", "kp_tr", "kp_mat", "kp_s1", "kp_s1hat", "kp_s2",
                 "kp_t1", "kp_t2", "kp_t0"}
InternalWiped == {"seedbuf", "mat", "s1", "s2", "t0"}
AttemptWiped  == {"challenge_bytes", "y", "z", "w2", "w1", "w0", "h", "cp"}
WrapperWiped  == {"pre", "rnd"}
PctWiped      == {"signature", "pk_test"}

(***************************************************************************)
(* The buffers that hold intermediate values, by the function they are in. *)
(***************************************************************************)
KeypairBuffers == {"kp_seedbuf", "kp_inbuf", "kp_tr", "kp_mat", "kp_s1", "kp_s1hat", "kp_s2",
                   "kp_t1", "kp_t2", "kp_t0"}
InternalBuffers == {"seedbuf", "mat", "s1", "s2", "t0"}
AttemptBuffers  == {"challenge_bytes", "y", "z", "w2", "w1", "w0", "h", "cp"}
WrapperBuffers  == {"pre", "rnd"}
PctBuffers      == {"signature", "pk_test"}
StackBuffers == KeypairBuffers \cup InternalBuffers \cup AttemptBuffers \cup WrapperBuffers
                  \cup PctBuffers \cup {"seed"}

KeypairPcs == {"keypair", "pct", "pct_verify", "pct_ret", "keypair_ret"}
AttemptPcs == {"commit", "check_z", "check_w0", "check_h", "check_hint"}

\* Past the last attempt of the oracle, which only a mutation reaches, nothing is acceptable.
Outcome == IF nonce \in DOMAIN call.oracle THEN call.oracle[nonce] ELSE "z"

Garbage == [i \in 0 .. L - 1 |-> -1]      \* y before anything is written to it

-------------------------------------------------------------------------------
Init ==
  /\ pc = "idle" /\ call = [api |-> NONE]
  /\ pk = NoKey /\ sk = NoKey
  /\ frame = "app"
  /\ sig = [f \in Frames |-> Zeros] /\ siglen = [f \in Frames |-> 0]
  /\ mu = NoRecord /\ nonce = 0 /\ y = Garbage /\ used = {}
  /\ dirty = {} /\ broke = FALSE /\ signed = NoRecord /\ ret = 0

-------------------------------------------------------------------------------
(***************************************************************************)
(* Signing.                                                                *)
(*                                                                         *)
(* The code from the entry of crypto_sign_signature or _extmu to the loop  *)
(* of crypto_sign_signature_internal, signing u into frame f's buffer.     *)
(***************************************************************************)
StartSigning(f, u, written) ==
  /\ frame' = f /\ mu' = u
  /\ nonce' = 0 /\ y' = Garbage /\ used' = {}
  /\ dirty' = written \cup InternalBuffers
  /\ pc' = "loop"

SignSignature ==      \* crypto_sign_signature with ctxlen <= 255
  /\ pc = "idle" /\ sk # NoKey
  /\ \E c \in ShortCtxs, m \in Msgs, o \in Oracles(NONCE_UB) :
       LET u == Mu(PublicKey(sk), c, m) IN      \* tr is part of sk
         /\ call' = [api |-> "sign", mu |-> u, oracle |-> o]
         /\ StartSigning("app", u, WrapperBuffers)
  /\ UNCHANGED <<keys, out, broke, signed, ret>>

SignExtmu ==          \* crypto_sign_signature_extmu
  /\ pc = "idle" /\ sk # NoKey
  /\ \E u \in Mus, o \in Oracles(NONCE_UB) :
       /\ call' = [api |-> "sign", mu |-> u, oracle |-> o]
       /\ StartSigning("app", u, {"rnd"})
  /\ UNCHANGED <<keys, out, broke, signed, ret>>

\* Mutation: the refusal leaves *siglen as the caller had it.
Bug_RefusalKeepsSiglen ==
  /\ pc = "idle" /\ sk # NoKey
  /\ call' = [api |-> "refused"]
  /\ signed' = NoRecord /\ ret' = -1
  /\ UNCHANGED <<pc, keys, frame, out, mu, nonce, y, used, dirty, broke>>

SignRefused ==        \* crypto_sign_signature with ctxlen > 255
  /\ pc = "idle" /\ sk # NoKey
  /\ call' = [api |-> "refused"]
  /\ siglen' = [siglen EXCEPT !["app"] = 0]
  /\ signed' = NoRecord /\ ret' = -1
  /\ UNCHANGED <<pc, keys, frame, sig, mu, nonce, y, used, dirty, broke>>

(***************************************************************************)
(* The head of the rejection loop: give up when the nonces are used up,    *)
(* otherwise start an attempt by expanding the mask y.  Giving up clears   *)
(* the outputs and returns at once, with no mld_zeroize.                   *)
(***************************************************************************)
NonceExhausted ==
  /\ pc = "loop" /\ nonce = NONCE_UB
  /\ siglen' = [siglen EXCEPT ![frame] = 0]
  /\ sig' = [sig EXCEPT ![frame] = Zeros]
  /\ ret' = -1 /\ pc' = "sign_ret"
  /\ UNCHANGED <<call, keys, frame, mu, nonce, y, used, dirty, broke, signed>>

\* Mutation: the loop has no bound, as in the reference implementation.
Bug_SampleMaskUnbounded ==
  /\ pc = "loop"
  /\ y' = UniformGamma1(L, Garbage, nonce)
  /\ dirty' = dirty \cup {"y"}
  /\ pc' = "commit"
  /\ UNCHANGED <<call, keys, frame, out, mu, nonce, used, broke, signed, ret>>

SampleMask ==
  /\ pc = "loop" /\ nonce # NONCE_UB
  /\ y' = UniformGamma1(L, Garbage, nonce)
  /\ dirty' = dirty \cup {"y"}
  /\ pc' = "commit"
  /\ UNCHANGED <<call, keys, frame, out, mu, nonce, used, broke, signed, ret>>

(***************************************************************************)
(* w = Ay, its high bits packed into the output buffer, the challenge      *)
(* hashed from there, z = y + c s1.                                        *)
(***************************************************************************)
Commit ==
  /\ pc = "commit"
  /\ sig' = [sig EXCEPT ![frame] = PackedW1]
  /\ dirty' = dirty \cup {"z", "w1", "w0", "w2", "challenge_bytes", "cp"}
  /\ pc' = "check_z"
  /\ UNCHANGED <<call, keys, frame, siglen, mu, nonce, y, used, broke, signed, ret>>

(***************************************************************************)
(* An attempt that returns -1: its buffers are wiped, the loop goes on     *)
(* with the next nonce, and sig keeps the packed w1.                       *)
(***************************************************************************)
Reject ==
  /\ dirty' = dirty \ AttemptWiped
  /\ used' = used \cup {y[i] : i \in DOMAIN y} /\ y' = Garbage
  /\ nonce' = U16(nonce + 1)
  /\ pc' = "loop"
  /\ UNCHANGED <<call, keys, frame, out, mu, broke, signed, ret>>

Continue(next, written) ==
  /\ dirty' = dirty \cup written
  /\ pc' = next
  /\ UNCHANGED <<call, keys, frame, out, mu, nonce, y, used, broke, signed, ret>>

CheckZ ==             \* ||z|| against GAMMA1 - BETA
  /\ pc = "check_z"
  /\ \/ Outcome = "z" /\ Reject
     \/ Outcome # "z" /\ Continue("check_w0", {"h"})

\* Mutation: the norm of the low bits is not checked.
Bug_W0NotChecked == pc = "check_w0" /\ Continue("check_h", {})

CheckW0 ==            \* ||w0 - c s2|| against GAMMA2 - BETA
  /\ pc = "check_w0"
  /\ \/ Outcome = "w0" /\ Reject
     \/ Outcome # "w0" /\ Continue("check_h", {})

CheckH ==             \* ||c t0|| against GAMMA2
  /\ pc = "check_h"
  /\ \/ Outcome = "h" /\ Reject
     \/ Outcome # "h" /\ Continue("check_hint", {})

(***************************************************************************)
(* The last check, on the weight of the hint.  An attempt that passes it   *)
(* packs its signature over the scratch, and the signing function wipes    *)
(* its own buffers and returns 0.                                          *)
(***************************************************************************)
CheckHint ==
  /\ pc = "check_hint"
  /\ \/ Outcome = "hint" /\ Reject
     \/ /\ Outcome # "hint"
        /\ sig' = [sig EXCEPT ![frame] = Signature(sk, mu, nonce)]
        /\ siglen' = [siglen EXCEPT ![frame] = CRYPTO_BYTES]
        /\ nonce' = U16(nonce + 1)
        /\ dirty' = dirty \ (AttemptWiped \cup InternalWiped)
        /\ ret' = 0 /\ pc' = "sign_ret"
        /\ UNCHANGED <<call, keys, frame, mu, y, used, broke, signed>>

LocalsGone == mu' = NoRecord /\ nonce' = 0 /\ y' = Garbage /\ used' = {}

SignReturn ==         \* the tail of crypto_sign_signature and _extmu
  /\ pc = "sign_ret"
  /\ dirty' = dirty \ WrapperWiped
  /\ LocalsGone
  /\ \/ frame = "app" /\ pc' = "idle"
        /\ signed' = IF ret = 0 THEN [seed |-> sk, mu |-> mu] ELSE NoRecord
     \/ frame = "pct" /\ pc' = (IF ret = 0 THEN "pct_verify" ELSE "pct_ret")
        /\ UNCHANGED signed
  /\ UNCHANGED <<call, keys, frame, out, broke, ret>>

-------------------------------------------------------------------------------
(***************************************************************************)
(* Verification: the checks of crypto_sign_verify_internal in their order. *)
(* Zeros unpack to a z whose coefficients are GAMMA1, so they fail the     *)
(* norm check.                                                             *)
(***************************************************************************)
\* Mutation: the length of the signature is not looked at.
Bug_LengthNotChecked(buf, len, key, u) ==
  IF buf.kind # "sig" \/ ~(buf.mu = u /\ PublicKey(buf.seed) = key) THEN -1 ELSE 0

VerifyInternal(buf, len, key, u) ==
  IF /\ len = CRYPTO_BYTES
     /\ buf.kind # "badhint"                  \* mld_unpack_sig
     /\ buf.kind \notin {"badz", "zeros"}     \* mld_polyvecl_chknorm
     /\ buf.kind = "sig" /\ PublicKey(buf.seed) = key /\ buf.mu = u     \* c = c2
  THEN 0 ELSE -1

Verify ==             \* crypto_sign_verify with ctxlen <= 255
  /\ pc = "idle" /\ pk # NoKey
  /\ \E c \in ShortCtxs, m \in Msgs :
       LET u == Mu(PublicKey(pk), c, m) IN
         /\ call' = [api |-> "verify", mu |-> u]
         /\ ret' = VerifyInternal(sig["app"], siglen["app"], PublicKey(pk), u)
  /\ UNCHANGED <<pc, keys, frame, out, mu, nonce, y, used, dirty, broke, signed>>

VerifyExtmu ==        \* crypto_sign_verify_extmu
  /\ pc = "idle" /\ pk # NoKey
  /\ \E u \in Mus :
       /\ call' = [api |-> "verify", mu |-> u]
       /\ ret' = VerifyInternal(sig["app"], siglen["app"], PublicKey(pk), u)
  /\ UNCHANGED <<pc, keys, frame, out, mu, nonce, y, used, dirty, broke, signed>>

VerifyRefused ==      \* crypto_sign_verify with ctxlen > 255
  /\ pc = "idle" /\ pk # NoKey
  /\ call' = [api |-> "refused"] /\ ret' = -1
  /\ UNCHANGED <<pc, keys, frame, out, mu, nonce, y, used, dirty, broke, signed>>

-------------------------------------------------------------------------------
(***************************************************************************)
(* Key generation.  crypto_sign_keypair draws the seed;                    *)
(* crypto_sign_keypair_internal derives and packs the keys, wipes its      *)
(* buffers and, only then, runs the PCT on the keys it has handed out.     *)
(***************************************************************************)
Keypair ==
  /\ pc = "idle"
  /\ \E s \in Seeds, o \in Oracles(NONCE_UB) :
       call' = [api |-> "keypair", seed |-> s, oracle |-> o]
  /\ dirty' = {"seed"}
  /\ broke' = FALSE /\ pc' = "keypair"
  /\ UNCHANGED <<keys, frame, out, mu, nonce, y, used, signed, ret>>

KeypairInternal ==
  /\ pc = "keypair"
  /\ pk' = call.seed /\ sk' = call.seed
  /\ dirty' = (dirty \cup KeypairBuffers) \ KeypairWiped
  /\ IF PCT THEN pc' = "pct" /\ UNCHANGED ret ELSE pc' = "keypair_ret" /\ ret' = 0
  /\ UNCHANGED <<call, frame, out, mu, nonce, y, used, broke, signed>>

PctSign ==            \* mld_check_pct up to the rejection loop
  /\ pc = "pct"
  /\ StartSigning("pct", Mu(PublicKey(sk), PctCtx, PctMsg), dirty \cup WrapperBuffers \cup PctBuffers)
  /\ UNCHANGED <<call, keys, out, broke, signed, ret>>

\* Mutation: the broken copy of the key is prepared but the key itself is tested.
Bug_PctTestsTheKey ==
  /\ pc = "pct_verify"
  /\ broke' \in BOOLEAN
  /\ ret' = VerifyInternal(sig["pct"], siglen["pct"], PublicKey(pk),
                           Mu(PublicKey(pk), PctCtx, PctMsg))
  /\ pc' = "pct_ret"
  /\ UNCHANGED <<call, keys, frame, out, mu, nonce, y, used, dirty, signed>>

PctVerify ==          \* the test signature against the possibly broken copy of pk
  /\ pc = "pct_verify"
  /\ broke' \in BOOLEAN
  /\ LET test == IF broke' THEN Flip(PublicKey(pk)) ELSE PublicKey(pk) IN
       ret' = VerifyInternal(sig["pct"], siglen["pct"], test, Mu(test, PctCtx, PctMsg))
  /\ pc' = "pct_ret"
  /\ UNCHANGED <<call, keys, frame, out, mu, nonce, y, used, dirty, signed>>

PctReturn ==          \* mld_check_pct wipes its two buffers on either outcome
  /\ pc = "pct_ret"
  /\ sig' = [sig EXCEPT !["pct"] = Zeros] /\ siglen' = [siglen EXCEPT !["pct"] = 0]
  /\ dirty' = dirty \ PctWiped
  /\ frame' = "app" /\ pc' = "keypair_ret"
  /\ UNCHANGED <<call, keys, mu, nonce, y, used, broke, signed, ret>>

KeypairReturn ==      \* crypto_sign_keypair wipes the seed and passes the result on
  /\ pc = "keypair_ret"
  /\ dirty' = dirty \ {"seed"}
  /\ pc' = "idle"
  /\ UNCHANGED <<call, keys, frame, out, mu, nonce, y, used, broke, signed, ret>>

(***************************************************************************)
(* The caller writes bytes of its own to its signature buffer.             *)
(***************************************************************************)
Scribble ==
  /\ pc = "idle"
  /\ \E j \in Junk, n \in {CRYPTO_BYTES - 1, CRYPTO_BYTES} :
       sig' = [sig EXCEPT !["app"] = j] /\ siglen' = [siglen EXCEPT !["app"] = n]
  /\ call' = [api |-> NONE] /\ signed' = NoRecord
  /\ UNCHANGED <<pc, keys, frame, mu, nonce, y, used, dirty, broke, ret>>

-------------------------------------------------------------------------------
Call == Keypair \/ SignSignature \/ SignExtmu \/ SignRefused
        \/ Verify \/ VerifyExtmu \/ VerifyRefused \/ Scribble

Step == KeypairInternal \/ PctSign \/ PctVerify \/ PctReturn \/ KeypairReturn
        \/ NonceExhausted \/ SampleMask \/ Commit
        \/ CheckZ \/ CheckW0 \/ CheckH \/ CheckHint \/ SignReturn

Next == Call \/ Step

Spec == Init /\ [][Next]_vars

(***************************************************************************)
(* The library is called and runs; nothing obliges anyone to call it.      *)
(***************************************************************************)
FairSpec == Spec /\ WF_vars(Step)

-------------------------------------------------------------------------------
(***************************************************************************)
(* Properties.                                                             *)
(***************************************************************************)
Signing == pc \in AttemptPcs \cup {"loop", "sign_ret"}

ControlType ==
  /\ pc \in {"idle", "loop", "sign_ret"} \cup AttemptPcs \cup KeypairPcs
  /\ frame \in Frames
  /\ broke \in BOOLEAN /\ ret \in {0, -1}
BufferType ==
  /\ pk \in Seeds \cup {NoKey} /\ sk = pk
  /\ sig \in [Frames -> SigValues]
  /\ siglen \in [Frames -> {0, CRYPTO_BYTES - 1, CRYPTO_BYTES}]
  /\ mu \in Mus \cup {NoRecord}
  /\ signed \in [seed : Seeds, mu : Mus] \cup {NoRecord}
NonceType ==
  /\ nonce \in 0 .. UINT16_MAX
  /\ y \in [0 .. L - 1 -> -1 .. UINT16_MAX]
  /\ pc \in AttemptPcs => \A i \in 0 .. L - 1 : y[i] # -1     \* initialised
  /\ used \subseteq -1 .. UINT16_MAX
StackType == dirty \subseteq StackBuffers

\* Every variable has the type its declaration in sign.c gives it, both key
\* buffers hold keys of one pair, and no polynomial of a mask in use is
\* uninitialised.
TypeOK == ControlType /\ BufferType /\ NonceType /\ StackType

\* No two polynomials of the masks of a signing call are expanded from the
\* same nonce, over all its attempts: the loop of signature_internal gives up
\* before L * nonce + i wraps, and the irrelevant lane of the 4-way sampler
\* never survives.  A repeated mask would reveal s1.
MaskFresh ==
  pc \in AttemptPcs =>
    \A i \in 0 .. L - 1 :
      /\ y[i] \notin used
      /\ \A j \in 0 .. L - 1 : i # j => y[i] # y[j]

\* Between calls the signature buffer never holds the packed w1 of an attempt,
\* and *siglen announces a signature only if the caller wrote the bytes itself
\* or the last signing call succeeded and this is its signature: true over any
\* sequence of successful, exhausted and refused calls.
HonestBuffer ==
  /\ sig["app"] # PackedW1
  /\ siglen["app"] = CRYPTO_BYTES /\ sig["app"] \notin Junk =>
       /\ signed # NoRecord
       /\ sig["app"].kind = "sig"
       /\ sig["app"].seed = signed.seed /\ sig["app"].mu = signed.mu

SiglenIsHonest == pc = "idle" => HonestBuffer

\* What verifies was signed: crypto_sign_verify returns 0 only if the last
\* signing call on this buffer returned 0, was made with the key that now
\* verifies it and for the same message representative; in particular never
\* after a signing call that failed.
VerifiedWasSigned ==
  pc = "idle" /\ call.api = "verify" /\ ret = 0 =>
    signed = [seed |-> pk, mu |-> call.mu]

\* Intermediate values survive the return of a key generation or of a signing
\* call only when every attempt was rejected, and those of an attempt never
\* survive the attempt (the mld_zeroize calls of sign.c).
OnlyExhaustionLeavesValues ==
  /\ pc = "idle" /\ call.api \in {"sign", "keypair"} /\ dirty # {} => Good(call.oracle) = {}
  /\ pc \in {"loop", "sign_ret"} => dirty \cap AttemptBuffers = {}

\* A key generation with the PCT returns 0 exactly when the test message could
\* be signed and mld_break_pct() did not ask for a broken test.
PctGate ==
  pc = "idle" /\ call.api = "keypair" /\ PCT =>
    (ret = 0 <=> Good(call.oracle) # {} /\ ~broke)

\* Every call returns: the rejection loop ends, by success or by exhaustion.
EveryCallReturns == pc # "idle" ~> pc = "idle"

(***************************************************************************)
(* The signing functions implement the abstract API.  While a signing call *)
(* runs, the caller's buffer is undefined; so is a return value.           *)
(***************************************************************************)
Api == INSTANCE SigningApi WITH
  out <- IF Signing /\ frame = "app"
         THEN [sig |-> [kind |-> "undefined"], len |-> 0]
         ELSE [sig |-> sig["app"], len |-> siglen["app"]],
  ret <- IF pc = "idle" THEN ret ELSE 1

\* The API does what SigningApi says: the signature is that of the first
\* acceptable attempt, or there was none and the outputs are cleared; a
\* refused call leaves the buffer alone; verification accepts signatures only.
ImplementsApi == Api!Spec

\* config.h, MLD_CONFIG_CUSTOM_ZEROIZE: "mldsa-native zeroizes intermediate
\* stack buffers before returning from function calls".
WipedBeforeReturn ==
  pc = "idle" /\ call.api \in {"sign", "keypair"} => dirty = {}
===============================================================================
