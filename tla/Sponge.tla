--------------------------------- MODULE Sponge ---------------------------------
(***************************************************************************)
(* mldsa/fips202/fips202.c and fips202x4.c: SHAKE as its callers use it,   *)
(* absorbing a message in pieces or at once, one state or one of the four  *)
(* of a batch, then squeezing bytes or blocks; and SHA-3.  A step is an    *)
(* iteration of one of the loops.                                          *)
(*                                                                         *)
(* The permutation is symbolic: what matters is which bytes were XORed     *)
(* into the state before each permutation.  The bytes of the message are   *)
(* known by their offset in it; a byte of the state is the set of what was *)
(* XORed into it since the last permutation, and XOR is the symmetric      *)
(* difference, so that adding a byte twice removes it.                     *)
(***************************************************************************)
EXTENDS Integers, Sequences

CONSTANTS
  Rate,             \* SHAKE128_RATE or SHAKE256_RATE, in bytes
  HashBytes,        \* SHA3_256_HASHBYTES or SHA3_512_HASHBYTES
  MaxIn, MaxOut     \* bounds on the message absorbed and on the bytes squeezed

ASSUME SpongeAssumption ==
  Rate \in Nat \ {0, 1} /\ HashBytes \in 0 .. Rate /\ MaxIn \in Nat /\ MaxOut \in Nat

SUFFIX == -1        \* the domain separation byte p
FINAL  == -2        \* the last bit of the padding, 0x80

Xor(A, B) == (A \ B) \cup (B \ A)

Bytes == 0 .. Rate - 1
Clear == [b \in Bytes |-> {}]

VARIABLES
  pc,               \* the loop that is running; "idle" between calls
  phase,            \* "absorb" until the padding is in, then "squeeze" or, for one
                    \* of the four states of a batch, "batch", or for SHA-3 "hash"
  s,                \* the first Rate bytes of the state since the last permutation
  past,             \* history: what the state had absorbed before each permutation
  pos,              \* state->pos
  in,               \* history: bytes of the message read so far; the next one is byte in
  len,              \* inlen, bytes_to_go or nblocks of the running call
  out               \* history: every byte squeezed, as <<permutation, byte, residue>>

vars == <<pc, phase, s, past, pos, in, len, out>>

-------------------------------------------------------------------------------
(***************************************************************************)
(* XOR the next n bytes of the message into state t from byte `from` on.   *)
(***************************************************************************)
XorIn(t, from, n) ==
  [b \in Bytes |-> IF from <= b /\ b < from + n THEN Xor(t[b], {in + b - from}) ELSE t[b]]

XorByte(t, b, x) == [t EXCEPT ![b] = Xor(@, {x})]

\* The bytes [from, from + n) of the state, as they are after the permutations p.
Extract(p, t, from, n) == [j \in 1 .. n |-> <<Len(p), from + j - 1, t[from + j - 1]>>]

\* Mutation: the closing bit is lost when both land on the last byte.
Bug_PadNoOverlap(t, at) ==
  IF at = Rate - 1 THEN XorByte(t, at, SUFFIX) ELSE XorByte(XorByte(t, at, SUFFIX), Rate - 1, FINAL)

Pad(t, at) == XorByte(XorByte(t, at, SUFFIX), Rate - 1, FINAL)

Init ==
  /\ pc = "idle" /\ phase = "absorb"
  /\ s = Clear /\ past = <<>> /\ pos = 0
  /\ in = 0 /\ len = 0 /\ out = <<>>

-------------------------------------------------------------------------------
(***************************************************************************)
(* Absorbing: shake_init, then shake_absorb any number of times.  The      *)
(* zeros that shake_release writes are the state that shake_init makes.    *)
(***************************************************************************)
\* Mutation: state->pos is not reset.
Bug_InitKeepsPos ==
  /\ pc = "idle"
  /\ s' = Clear /\ past' = <<>>
  /\ phase' = "absorb" /\ in' = 0 /\ out' = <<>>
  /\ UNCHANGED <<pc, len, pos>>

ShakeInit ==
  /\ pc = "idle"
  /\ s' = Clear /\ past' = <<>> /\ pos' = 0
  /\ phase' = "absorb" /\ in' = 0 /\ out' = <<>>
  /\ UNCHANGED <<pc, len>>

ShakeAbsorb ==
  /\ pc = "idle" /\ phase = "absorb"
  /\ len' \in 0 .. MaxIn - in
  /\ pc' = "absorb"
  /\ UNCHANGED <<phase, s, past, pos, in, out>>

AbsorbBlock ==        \* keccak_absorb: fill the block and permute
  /\ pc = "absorb" /\ pos + len >= Rate
  /\ past' = Append(past, XorIn(s, pos, Rate - pos)) /\ s' = Clear
  /\ in' = in + (Rate - pos) /\ len' = len - (Rate - pos)
  /\ pos' = 0
  /\ UNCHANGED <<pc, phase, out>>

AbsorbTail ==         \* keccak_absorb: less than a block is left
  /\ pc = "absorb" /\ pos + len < Rate
  /\ s' = XorIn(s, pos, len)
  /\ in' = in + len /\ len' = 0
  /\ pos' = pos + len
  /\ pc' = "idle"
  /\ UNCHANGED <<phase, past, out>>

ShakeFinalize ==      \* keccak_finalize, then state->pos = RATE
  /\ pc = "idle" /\ phase = "absorb"
  /\ s' = Pad(s, pos)
  /\ pos' = Rate /\ phase' = "squeeze"
  /\ UNCHANGED <<pc, past, in, len, out>>

(***************************************************************************)
(* Absorbing at once, into one state, into the four of a batch, or into    *)
(* the local one of SHA-3.  The batched function has a case of its own for *)
(* a tail of Rate - 1 bytes: there it adds one byte, p | 128.              *)
(***************************************************************************)
AbsorbOnce ==
  /\ pc = "idle"
  /\ s' = Clear /\ past' = <<>> /\ in' = 0 /\ out' = <<>>
  /\ len' \in 0 .. MaxIn /\ phase' = "absorb"
  /\ pc' \in {"once", "once_x4", "sha3"}
  /\ UNCHANGED pos

OnceBlock ==
  /\ pc \in {"once", "once_x4", "sha3"} /\ len >= Rate
  /\ past' = Append(past, XorIn(s, 0, Rate)) /\ s' = Clear
  /\ in' = in + Rate /\ len' = len - Rate
  /\ UNCHANGED <<pc, phase, pos, out>>

OnceTail ==
  /\ pc \in {"once", "sha3"} /\ len < Rate
  /\ s' = Pad(XorIn(s, 0, len), len)
  /\ in' = in + len /\ len' = 0 /\ pos' = Rate
  /\ \/ pc = "once" /\ phase' = "squeeze" /\ pc' = "idle"
     \/ pc = "sha3" /\ phase' = "hash" /\ pc' = "digest"
  /\ UNCHANGED <<past, out>>

OnceX4Tail ==         \* no pos is kept: a batch is squeezed by whole blocks only
  /\ pc = "once_x4" /\ len < Rate
  /\ LET t == XorIn(s, 0, len) IN
       s' = IF len = Rate - 1 THEN [t EXCEPT ![len] = Xor(@, {SUFFIX, FINAL})]
            ELSE XorByte(XorByte(t, len, SUFFIX), Rate - 1, FINAL)
  /\ in' = in + len /\ len' = 0
  /\ pos' = Rate /\ phase' = "batch" /\ pc' = "idle"
  /\ UNCHANGED <<past, out>>

-------------------------------------------------------------------------------
(***************************************************************************)
(* Squeezing: any number of bytes at a time, or whole blocks as long as    *)
(* no block has been started (the precondition of the squeezeblocks        *)
(* functions, which neither read nor write state->pos).                    *)
(***************************************************************************)
ShakeSqueeze ==
  /\ pc = "idle" /\ phase = "squeeze"
  /\ len' \in 0 .. MaxOut - Len(out)
  /\ pc' = "squeeze"
  /\ UNCHANGED <<phase, s, past, pos, in, out>>

\* Mutation: the next block is permuted one byte early.
Bug_SqueezeSkipsLastByte ==
  /\ pc = "squeeze" /\ len > 0
  /\ LET full == pos >= Rate - 1
         from == IF full THEN 0 ELSE pos
         n    == IF Rate - from < len THEN Rate - from ELSE len
     IN  /\ past' = (IF full THEN Append(past, s) ELSE past)
         /\ s' = (IF full THEN Clear ELSE s)
         /\ out' = out \o Extract(past', s', from, n)
         /\ len' = len - n /\ pos' = from + n
  /\ UNCHANGED <<pc, phase, in>>

SqueezeStep ==        \* keccak_squeeze: permute if the block is used up, then copy
  /\ pc = "squeeze" /\ len > 0
  /\ LET full == pos = Rate
         from == IF full THEN 0 ELSE pos
         n    == IF Rate - from < len THEN Rate - from ELSE len
     IN  /\ past' = (IF full THEN Append(past, s) ELSE past)
         /\ s' = (IF full THEN Clear ELSE s)
         /\ out' = out \o Extract(past', s', from, n)
         /\ len' = len - n /\ pos' = from + n
  /\ UNCHANGED <<pc, phase, in>>

ShakeSqueezeBlocks ==
  /\ pc = "idle" /\ phase \in {"squeeze", "batch"} /\ pos = Rate
  /\ \E n \in 0 .. MaxOut : Len(out) + n * Rate <= MaxOut /\ len' = n
  /\ pc' = "blocks"
  /\ UNCHANGED <<phase, s, past, pos, in, out>>

SqueezeBlock ==       \* keccak_squeezeblocks
  /\ pc = "blocks" /\ len > 0
  /\ past' = Append(past, s) /\ s' = Clear
  /\ out' = out \o Extract(past', s', 0, Rate)
  /\ len' = len - 1
  /\ UNCHANGED <<pc, phase, pos, in>>

Digest ==             \* sha3_256, sha3_512: the hash is the start of one block
  /\ pc = "digest"
  /\ past' = Append(past, s) /\ s' = Clear
  /\ out' = Extract(past', s', 0, HashBytes)
  /\ pos' = HashBytes /\ pc' = "idle"
  /\ UNCHANGED <<phase, in, len>>

SqueezeReturn ==
  /\ pc \in {"squeeze", "blocks"} /\ len = 0
  /\ pc' = "idle"
  /\ UNCHANGED <<phase, s, past, pos, in, len, out>>

-------------------------------------------------------------------------------
Next == ShakeInit \/ ShakeAbsorb \/ AbsorbBlock \/ AbsorbTail \/ ShakeFinalize
        \/ AbsorbOnce \/ OnceBlock \/ OnceTail \/ OnceX4Tail
        \/ ShakeSqueeze \/ SqueezeStep \/ ShakeSqueezeBlocks \/ SqueezeBlock \/ SqueezeReturn
        \/ Digest

Spec == Init /\ [][Next]_vars

-------------------------------------------------------------------------------
(***************************************************************************)
(* Properties.                                                             *)
(***************************************************************************)
Terms == 0 .. MaxIn - 1 \cup {SUFFIX, FINAL}
State == [Bytes -> SUBSET Terms]

\* Every variable has its type, and between the calls of the absorbing phase
\* state->pos is an index into the block: keccak_absorb never leaves a full one.
TypeOK ==
  /\ pc \in {"idle", "absorb", "once", "once_x4", "sha3", "squeeze", "blocks", "digest"}
  /\ phase \in {"absorb", "squeeze", "batch", "hash"}
  /\ s \in State /\ past \in Seq(State)
  /\ pos \in 0 .. Rate
  /\ phase = "absorb" /\ pc \in {"idle", "absorb"} => pos < Rate
  /\ in \in 0 .. MaxIn /\ len \in 0 .. MaxIn + MaxOut
  /\ out \in Seq(Nat \X Bytes \X SUBSET Terms)

(***************************************************************************)
(* FIPS 202: the bytes of block number k, from 0 on, of a message of n     *)
(* bytes, once it is padded; and the blocks of zeros that squeezing adds.  *)
(***************************************************************************)
PaddedBlock(n, k) ==
  [b \in Bytes |->
     IF n < k * Rate THEN {}
     ELSE (IF k * Rate + b < n THEN {k * Rate + b} ELSE {})
            \cup (IF k * Rate + b = n THEN {SUFFIX} ELSE {})
            \cup (IF b = Rate - 1 /\ n < (k + 1) * Rate THEN {FINAL} ELSE {})]

\* However the message was cut into calls, and whichever of the three ways of
\* absorbing was taken, the state has absorbed the padding of the message that
\* FIPS 202 prescribes: a message that ends at a block boundary, or one byte
\* before one, included.
PaddedMessage ==
  phase # "absorb" =>
    \A k \in 0 .. Len(past) :
      (IF k < Len(past) THEN past[k + 1] ELSE s) = PaddedBlock(in, k)

\* However the squeezing was cut into calls, and whether by bytes or by blocks,
\* the caller got the output stream: no byte of a block is skipped, repeated or
\* read before the permutation that produces it.
OutputStream ==
  \A j \in 1 .. Len(out) :
    out[j] = <<in \div Rate + 1 + (j - 1) \div Rate, (j - 1) % Rate, {}>>
===============================================================================
