----------------------------- MODULE SigningTerms -----------------------------
(***************************************************************************)
(* The symbolic data of the signature API, shared by its abstract          *)
(* specification (SigningApi) and by the one that follows sign.c (Signing).*)
(*                                                                         *)
(* A key pair is named by the seed it was generated from.  The message     *)
(* representative mu is the record of the inputs that are hashed into it,  *)
(* so two representatives are equal exactly when those inputs are.  A      *)
(* signature is the record of the key, the representative and the attempt  *)
(* it was made in.                                                         *)
(***************************************************************************)
EXTENDS Integers

CONSTANTS
  Seeds,          \* the 32-byte seeds of key generation
  Msgs,           \* messages
  ShortCtxs,      \* contexts of at most 255 bytes
  NoKey,          \* what a key buffer holds that was never written
  CRYPTO_BYTES    \* length of a signature

ASSUME TermsAssumption ==
  /\ NoKey \notin Seeds
  /\ CRYPTO_BYTES \in Nat \ {0}

PublicKeys   == [seed : Seeds, flipped : BOOLEAN]
PublicKey(s) == [seed |-> s, flipped |-> FALSE]
Flip(key)    == [key EXCEPT !.flipped = ~@]     \* pk_test[0] = ~pk_test[0]

Mus         == [pk : {PublicKey(s) : s \in Seeds}, ctx : ShortCtxs, m : Msgs]
Mu(key, c, m) == [pk |-> key, ctx |-> c, m |-> m]

(***************************************************************************)
(* What a signature buffer can hold: a signature, zeros, the packed w1     *)
(* that signing hashes from it, or bytes of the caller's that fail one of  *)
(* the checks of verification.                                             *)
(***************************************************************************)
Signature(s, u, n) == [kind |-> "sig", seed |-> s, mu |-> u, nonce |-> n]
Signatures == [kind : {"sig"}, seed : Seeds, mu : Mus, nonce : Nat]
Zeros    == [kind |-> "zeros"]
PackedW1 == [kind |-> "w1"]
Junk     == [kind : {"badhint", "badz", "badc"}]
SigValues == Signatures \cup {Zeros, PackedW1} \cup Junk

(***************************************************************************)
(* What the values of a signing attempt come to: "ok", or the first of the *)
(* four checks that they fail.  It is a function of the inputs of the call *)
(* and of the attempt's number.                                            *)
(***************************************************************************)
Outcomes   == {"ok", "z", "w0", "h", "hint"}
Oracles(n) == [0 .. n - 1 -> Outcomes]
Good(o)    == {n \in DOMAIN o : o[n] = "ok"}
First(S)   == CHOOSE n \in S : \A k \in S : n <= k

NONE == "none"
NoRecord == [none |-> TRUE]
===============================================================================
