----------------------------- MODULE SignedMessage -----------------------------
(***************************************************************************)
(* crypto_sign and crypto_sign_open of mldsa/sign.c: the API that keeps    *)
(* signature and message in one buffer, sm.  Both may be called with m and *)
(* sm the same array (sign.h), so the message moves by CRYPTO_BYTES within *)
(* one memory, one byte per step, down in crypto_sign and up in            *)
(* crypto_sign_open.                                                       *)
(*                                                                         *)
(* A caller signs, hands the signed message over, where anyone may change  *)
(* a byte of it, and opens what arrives, with any length.                  *)
(***************************************************************************)
EXTENDS Integers

CONSTANTS
  CRYPTO_BYTES,     \* length of a signature
  MaxLen,           \* bound on the length of a message
  Texts             \* the messages that are signed

ASSUME SignedMessageAssumption ==
  /\ CRYPTO_BYTES \in Nat \ {0}
  /\ MaxLen \in Nat

Index == 0 .. CRYPTO_BYTES + MaxLen - 1

(***************************************************************************)
(* The bytes that memory can hold.  A byte of a message is known by its    *)
(* text and its offset; a byte of a signature by the message that was      *)
(* signed and its offset.                                                  *)
(***************************************************************************)
TextByte(t, k) == [kind |-> "text", of |-> t, at |-> k]
SigByte(w, k)  == [kind |-> "sig", of |-> w, at |-> k]
Zero == [kind |-> "zero", of |-> <<>>, at |-> 0]
Junk == [kind |-> "junk", of |-> <<>>, at |-> 0]

MsgBytes == {TextByte(t, k) : t \in Texts, k \in Index} \cup {Zero, Junk}
Messages == UNION {[0 .. n - 1 -> MsgBytes] : n \in 0 .. MaxLen}
Empty == [k \in 0 .. -1 |-> Zero]

VARIABLES
  pc,               \* where the program is; "signed" and "opened" after a return
  mem,              \* the caller's two arrays
  alias,            \* was the last call made with m = sm?
  mlen, smlen,      \* lengths, *mlen and *smlen
  i,                \* the loop counter of both functions, 0 outside
  ret,              \* what the last call returned
  message,          \* history: the message that the last call is about
  signed,           \* history: the last message that crypto_sign signed
  intact,           \* history: is sm, with smlen, what a successful crypto_sign left?
  honest            \* history: was crypto_sign_open given an intact sm, and the right key?

vars == <<pc, mem, alias, mlen, smlen, i, ret, message, signed, intact, honest>>
history == <<message, signed, intact, honest>>

AtRest == pc \in {"idle", "signed", "opened"}

M == IF alias THEN "sm" ELSE "m"        \* the array that the parameter m points to

\* n bytes of array b from offset k on.
Slice(b, k, n) == [j \in 0 .. n - 1 |-> mem[b][k + j]]

Init ==
  /\ pc = "idle"
  /\ mem = [b \in {"m", "sm"} |-> [k \in Index |-> Zero]]
  /\ alias = FALSE /\ mlen = 0 /\ smlen = 0 /\ i = 0 /\ ret = -1
  /\ message = Empty /\ signed = Empty /\ intact = FALSE /\ honest = FALSE

-------------------------------------------------------------------------------
(***************************************************************************)
(* crypto_sign, of a text that the caller has put in m.                    *)
(***************************************************************************)
CryptoSign ==
  /\ AtRest
  /\ \E a \in BOOLEAN, n \in 0 .. MaxLen, t \in Texts :
       LET b == IF a THEN "sm" ELSE "m" IN
         /\ alias' = a /\ mlen' = n
         /\ message' = [j \in 0 .. n - 1 |-> TextByte(t, j)]
         /\ mem' = [mem EXCEPT ![b] = [k \in Index |-> IF k < n THEN TextByte(t, k) ELSE @[k]]]
  /\ i' = 0 /\ pc' = "sign_copy" /\ intact' = FALSE /\ honest' = FALSE
  /\ UNCHANGED <<smlen, ret, signed>>

\* Mutation: the message is moved from its first byte on.
Bug_SignCopiesUp ==
  /\ pc = "sign_copy" /\ i < mlen
  /\ mem' = [mem EXCEPT !["sm"][CRYPTO_BYTES + i] = mem[M][i]]
  /\ i' = i + 1
  /\ UNCHANGED <<pc, alias, mlen, smlen, ret, history>>

SignCopy ==           \* sm[CRYPTO_BYTES + mlen - 1 - i] = m[mlen - 1 - i]
  /\ pc = "sign_copy" /\ i < mlen
  /\ mem' = [mem EXCEPT !["sm"][CRYPTO_BYTES + mlen - 1 - i] = mem[M][mlen - 1 - i]]
  /\ i' = i + 1
  /\ UNCHANGED <<pc, alias, mlen, smlen, ret, history>>

(***************************************************************************)
(* crypto_sign_signature(sm, smlen, sm + CRYPTO_BYTES, mlen, ...), then    *)
(* *smlen += mlen.  It signs the bytes that it finds after the signature.  *)
(* When it fails *smlen is mlen and the signature bytes are either zeros   *)
(* (nonces exhausted) or what they were (context too long).                *)
(***************************************************************************)
SignDone ==
  /\ pc = "sign_copy" /\ i = mlen
  /\ \/ /\ mem' = [mem EXCEPT !["sm"] = [k \in Index |->
                     IF k < CRYPTO_BYTES THEN SigByte(Slice("sm", CRYPTO_BYTES, mlen), k) ELSE @[k]]]
        /\ smlen' = CRYPTO_BYTES + mlen
        /\ ret' = 0 /\ intact' = TRUE /\ signed' = message
     \/ /\ mem' = [mem EXCEPT !["sm"] = [k \in Index |-> IF k < CRYPTO_BYTES THEN Zero ELSE @[k]]]
        /\ smlen' = mlen
        /\ ret' = -1 /\ UNCHANGED <<signed, intact>>
     \/ /\ smlen' = mlen
        /\ ret' = -1 /\ UNCHANGED <<signed, intact>>
        /\ UNCHANGED mem
  /\ i' = 0 /\ pc' = "signed"
  /\ UNCHANGED <<alias, mlen, message, honest>>

(***************************************************************************)
(* Outside the library: a byte of the signed message is lost, or replaced  *)
(* by a byte of another one, or the announced length is changed.           *)
(***************************************************************************)
Tamper ==
  /\ AtRest /\ intact /\ intact' = FALSE /\ pc' = "idle"
  /\ \/ \E k \in 0 .. smlen - 1 :
          \E b \in {Junk} \cup {TextByte(t, k - CRYPTO_BYTES) : t \in Texts} :
            /\ mem["sm"][k] # b
            /\ b # Junk => k >= CRYPTO_BYTES
            /\ mem' = [mem EXCEPT !["sm"][k] = b]
            /\ UNCHANGED smlen
     \/ \E n \in 0 .. CRYPTO_BYTES + MaxLen :
          n # smlen /\ smlen' = n /\ UNCHANGED mem
  /\ UNCHANGED <<alias, mlen, i, ret, message, signed, honest>>

-------------------------------------------------------------------------------
(***************************************************************************)
(* crypto_sign_open, with the key and context of the signer (match) or     *)
(* with others.  The signature verifies if it is, byte for byte, that of   *)
(* the bytes after it.                                                     *)
(***************************************************************************)
Verifies(match, n) ==
  /\ match
  /\ \A k \in 0 .. CRYPTO_BYTES - 1 : mem["sm"][k] = SigByte(Slice("sm", CRYPTO_BYTES, n), k)

CryptoSignOpen ==
  /\ AtRest
  /\ \E a \in BOOLEAN, match \in BOOLEAN :
       LET n == smlen - CRYPTO_BYTES IN
         /\ alias' = a /\ i' = 0
         /\ honest' = (intact /\ match)
         /\ intact' = (intact /\ ~a)
         /\ IF n >= 0 /\ Verifies(match, n)
            THEN mlen' = n /\ message' = Slice("sm", CRYPTO_BYTES, n) /\ pc' = "open_copy"
            ELSE mlen' = 0 /\ message' = Empty /\ pc' = "badsig"
  /\ UNCHANGED <<mem, smlen, ret, signed>>

\* Mutation: the message is moved from its last byte on, as in crypto_sign.
Bug_OpenCopiesDown ==
  /\ pc = "open_copy" /\ i < mlen
  /\ mem' = [mem EXCEPT ![M][mlen - 1 - i] = mem["sm"][CRYPTO_BYTES + mlen - 1 - i]]
  /\ i' = i + 1
  /\ UNCHANGED <<pc, alias, mlen, smlen, ret, history>>

\* Mutation: the message is taken from the head of sm.
Bug_OpenCopiesFromHead ==
  /\ pc = "open_copy" /\ i < mlen
  /\ mem' = [mem EXCEPT ![M][i] = mem["sm"][i]]
  /\ i' = i + 1
  /\ UNCHANGED <<pc, alias, mlen, smlen, ret, history>>

OpenCopy ==           \* m[i] = sm[CRYPTO_BYTES + i]
  /\ pc = "open_copy" /\ i < mlen
  /\ mem' = [mem EXCEPT ![M][i] = mem["sm"][CRYPTO_BYTES + i]]
  /\ i' = i + 1
  /\ UNCHANGED <<pc, alias, mlen, smlen, ret, history>>

OpenDone ==
  /\ pc = "open_copy" /\ i = mlen
  /\ ret' = 0 /\ i' = 0 /\ pc' = "opened"
  /\ UNCHANGED <<mem, alias, mlen, smlen, history>>

OpenWipe ==           \* badsig: m[i] = 0 for all of smlen
  /\ pc = "badsig" /\ i < smlen
  /\ mem' = [mem EXCEPT ![M][i] = Zero]
  /\ i' = i + 1
  /\ UNCHANGED <<pc, alias, mlen, smlen, ret, history>>

\* Mutation: the wipe runs to *mlen, which has just been set to 0.
Bug_WipesMlen ==
  /\ pc = "badsig" /\ i = mlen
  /\ ret' = -1 /\ i' = 0 /\ pc' = "opened"
  /\ UNCHANGED <<mem, alias, mlen, smlen, history>>

OpenFail ==
  /\ pc = "badsig" /\ i = smlen
  /\ ret' = -1 /\ i' = 0 /\ pc' = "opened"
  /\ UNCHANGED <<mem, alias, mlen, smlen, history>>

-------------------------------------------------------------------------------
Next == CryptoSign \/ SignCopy \/ SignDone \/ Tamper
        \/ CryptoSignOpen \/ OpenCopy \/ OpenDone \/ OpenWipe \/ OpenFail

Spec == Init /\ [][Next]_vars

-------------------------------------------------------------------------------
(***************************************************************************)
(* Properties.                                                             *)
(***************************************************************************)
ControlType ==
  /\ pc \in {"idle", "signed", "opened", "sign_copy", "open_copy", "badsig"}
  /\ alias \in BOOLEAN /\ intact \in BOOLEAN /\ honest \in BOOLEAN
  /\ mlen \in 0 .. MaxLen /\ smlen \in 0 .. CRYPTO_BYTES + MaxLen
  /\ i \in 0 .. CRYPTO_BYTES + MaxLen
  /\ pc \in {"sign_copy", "open_copy"} => i <= mlen
  /\ pc = "badsig" => i <= smlen
  /\ ret \in {0, -1}
MemType ==
  /\ mem \in [{"m", "sm"} -> [Index -> MsgBytes \cup {SigByte(signed, k) : k \in Index}]]
  /\ \A k \in Index : mem["m"][k] \in MsgBytes
  /\ \A k \in Index : k >= CRYPTO_BYTES => mem["sm"][k] \in MsgBytes
HistoryType == message \in Messages /\ signed \in Messages

\* Every variable has the type of its declaration; a counter never passes the
\* length it runs to, so no access is out of bounds; and bytes of a signature
\* are found at the head of sm only, so no copy ever moves them.
TypeOK == ControlType /\ MemType /\ HistoryType

\* crypto_sign leaves in sm, after the signature, the message that the caller
\* had in m, whether or not it could sign it, and what it signs is that
\* message: also when m and sm are the same array and source and destination
\* of the copy overlap.
SignsTheMessage ==
  pc = "signed" =>
    /\ Slice("sm", CRYPTO_BYTES, mlen) = message
    /\ ret = 0 => \A k \in 0 .. CRYPTO_BYTES - 1 : mem["sm"][k] = SigByte(message, k)

\* A successful crypto_sign_open delivers in m, byte for byte, a message that
\* crypto_sign signed, of the length it had, also when m and sm are the same
\* array: nothing that was tampered with, cut off or left over from a signing
\* call that failed.
OpenDelivers ==
  pc = "opened" /\ ret = 0 => Slice(M, 0, mlen) = signed

\* A failed crypto_sign_open leaves none of the unverified message behind: the
\* first smlen bytes of m are zero and *mlen is 0.
FailedOpenReleasesNothing ==
  pc = "opened" /\ ret = -1 => mlen = 0 /\ \A k \in 0 .. smlen - 1 : mem[M][k] = Zero

\* What crypto_sign signed can be opened with the same key and context, as long
\* as nobody wrote to sm since.
RoundTrip == pc = "opened" /\ honest => ret = 0 /\ Slice(M, 0, mlen) = signed
===============================================================================
