------------------------------ MODULE SigningApi ------------------------------
(***************************************************************************)
(* What the signature API promises its caller, with every call in two      *)
(* steps (three for a key generation) and nothing of how signing works.    *)
(***************************************************************************)
EXTENDS SigningTerms

CONSTANTS
  NONCE_UB,       \* how many attempts a signing call may make
  PCT             \* is MLD_CONFIG_KEYGEN_PCT defined?

VARIABLES
  pk, sk,         \* the caller's key buffers: the seed whose keys they hold
  out,            \* the caller's signature buffer and signature length
  call,           \* the last call
  ret             \* what it returned, PENDING while it runs

vars == <<pk, sk, out, call, ret>>

PENDING   == 1
Undefined == [sig |-> [kind |-> "undefined"], len |-> 0]

Valid(key, u) ==      \* out holds a signature for u that key verifies
  /\ out.len = CRYPTO_BYTES
  /\ out.sig.kind = "sig"
  /\ key = out.sig.seed
  /\ u = out.sig.mu

-------------------------------------------------------------------------------
Init ==
  /\ pk = NoKey /\ sk = NoKey
  /\ out = [sig |-> Zeros, len |-> 0]
  /\ call = [api |-> NONE] /\ ret = 0

Begin(calls) == ret # PENDING /\ call' \in calls /\ ret' = PENDING
Running(api) == ret = PENDING /\ call.api = api

(***************************************************************************)
(* Key generation writes both buffers, then returns; only the pairwise     *)
(* consistency test can fail it, and it must when no signature was found.  *)
(***************************************************************************)
KeypairCall ==
  /\ Begin([api : {"keypair"}, seed : Seeds, oracle : Oracles(NONCE_UB)])
  /\ UNCHANGED <<pk, sk, out>>

KeypairWrite ==
  /\ Running("keypair")
  /\ pk' = call.seed /\ sk' = call.seed
  /\ UNCHANGED <<out, call, ret>>

KeypairReturn ==
  /\ Running("keypair") /\ pk = call.seed /\ sk = call.seed
  /\ ret' \in {0, -1}
  /\ ret' = -1 => PCT
  /\ ret' = 0 /\ PCT => Good(call.oracle) # {}
  /\ UNCHANGED <<pk, sk, out, call>>

(***************************************************************************)
(* Signing returns the first acceptable attempt, or a zeroed buffer when   *)
(* there is none; a context that is too long leaves the buffer as it is.   *)
(***************************************************************************)
SignCall ==
  /\ sk # NoKey
  /\ Begin([api : {"sign"}, mu : Mus, oracle : Oracles(NONCE_UB)])
  /\ out' = Undefined
  /\ UNCHANGED <<pk, sk>>

SignReturn ==
  /\ Running("sign")
  /\ LET good == Good(call.oracle) IN
       IF good # {}
       THEN /\ out' = [sig |-> Signature(sk, call.mu, First(good)), len |-> CRYPTO_BYTES]
            /\ ret' = 0
       ELSE /\ out' = [sig |-> Zeros, len |-> 0]
            /\ ret' = -1
  /\ UNCHANGED <<pk, sk, call>>

SignRefused ==
  /\ ret # PENDING /\ sk # NoKey
  /\ call' = [api |-> "refused"] /\ ret' = -1
  /\ out' = [out EXCEPT !.len = 0]
  /\ UNCHANGED <<pk, sk>>

(***************************************************************************)
(* Verification accepts exactly a signature of this key for this message.  *)
(***************************************************************************)
Verify ==
  /\ ret # PENDING /\ pk # NoKey
  /\ \E u \in Mus :
       /\ call' = [api |-> "verify", mu |-> u]
       /\ ret' = IF Valid(pk, u) THEN 0 ELSE -1
  /\ UNCHANGED <<pk, sk, out>>

VerifyRefused ==
  /\ ret # PENDING /\ pk # NoKey
  /\ call' = [api |-> "refused"] /\ ret' = -1
  /\ UNCHANGED <<pk, sk, out>>

Scribble ==       \* the caller writes bytes of its own to the buffer
  /\ ret # PENDING
  /\ \E j \in Junk, n \in {CRYPTO_BYTES - 1, CRYPTO_BYTES} : out' = [sig |-> j, len |-> n]
  /\ call' = [api |-> NONE]
  /\ UNCHANGED <<pk, sk, ret>>

Next ==
  \/ KeypairCall \/ KeypairWrite \/ KeypairReturn
  \/ SignCall \/ SignReturn \/ SignRefused
  \/ Verify \/ VerifyRefused \/ Scribble

Spec == Init /\ [][Next]_vars
===============================================================================
