-------------------------------- MODULE HintCodec --------------------------------
(***************************************************************************)
(* The hint section of a signature: its encoding in mld_pack_sig and its   *)
(* decoding in mld_unpack_hints (mldsa/packing.c).  The section has OMEGA  *)
(* bytes with the positions of the ones of the K polynomials of h, then K  *)
(* bytes with the running count of ones.                                   *)
(*                                                                         *)
(* A step is one iteration of an inner loop.  The decoder is given either  *)
(* what the encoder wrote or any bytes at all.                             *)
(***************************************************************************)
EXTENDS Integers, FiniteSets

CONSTANTS
  K,                \* MLDSA_K
  N,                \* MLDSA_N: a position is a byte, so bytes are 0 .. N - 1
  OMEGA             \* MLDSA_OMEGA

ASSUME HintAssumption ==
  /\ K \in Nat \ {0} /\ OMEGA \in Nat
  /\ N \in Nat /\ OMEGA < N

Bytes    == 0 .. N - 1
Polys    == 0 .. K - 1
Sections == [0 .. OMEGA + K - 1 -> Bytes]
ZeroHint == [p \in Polys |-> [c \in Bytes |-> 0]]

(***************************************************************************)
(* The ones of a hint vector, in the order of the loops.                   *)
(***************************************************************************)
Ones(v) == {o \in Polys \X Bytes : v[o[1]][o[2]] = 1}
Before(a, b) == a[1] < b[1] \/ (a[1] = b[1] /\ a[2] < b[2])
Rank(v, o) == Cardinality({a \in Ones(v) : Before(a, o)})

Hints == {v \in [Polys -> [Bytes -> {0, 1}]] : Cardinality(Ones(v)) <= OMEGA}

VARIABLES
  pc,               \* the loop that is running
  h,                \* the hint vector: input of the encoder, output of the decoder
  sig,              \* the hint section
  i, j,             \* the loop counters
  k,                \* ones encoded so far, or old_hint_count
  ret               \* what mld_unpack_hints returned

vars == <<pc, h, sig, i, j, k, ret>>

Init ==
  /\ pc = "idle" /\ h = ZeroHint
  /\ sig \in Sections
  /\ i = 0 /\ j = 0 /\ k = 0 /\ ret = 0

-------------------------------------------------------------------------------
(***************************************************************************)
(* mld_pack_sig, over whatever the buffer holds.  number_of_hints is the   *)
(* weight of h, which signing has checked against OMEGA.                   *)
(***************************************************************************)
\* Mutation: the section is not cleared first.
Bug_PackDoesNotClear ==
  /\ pc = "idle"
  /\ h' \in Hints
  /\ i' = 0 /\ j' = 0 /\ k' = 0 /\ pc' = "pack"
  /\ UNCHANGED <<sig, ret>>

PackHints ==
  /\ pc = "idle"
  /\ h' \in Hints
  /\ sig' = [b \in 0 .. OMEGA + K - 1 |-> 0]
  /\ i' = 0 /\ j' = 0 /\ k' = 0 /\ pc' = "pack"
  /\ UNCHANGED ret

PackCoefficient ==
  /\ pc = "pack" /\ j < N
  /\ IF h[i][j] # 0 /\ k < Cardinality(Ones(h))
     THEN sig' = [sig EXCEPT ![k] = j] /\ k' = k + 1
     ELSE UNCHANGED <<sig, k>>
  /\ j' = j + 1
  /\ UNCHANGED <<pc, h, i, ret>>

PackCount ==
  /\ pc = "pack" /\ j = N
  /\ sig' = [sig EXCEPT ![OMEGA + i] = k]
  /\ i' = i + 1 /\ j' = 0
  /\ pc' = IF i + 1 < K THEN "pack" ELSE "packed"
  /\ UNCHANGED <<h, k, ret>>

-------------------------------------------------------------------------------
(***************************************************************************)
(* mld_unpack_hints.                                                       *)
(***************************************************************************)
Return(r) == ret' = r /\ pc' = "unpacked"

UnpackHints ==
  /\ pc \in {"idle", "packed"}
  /\ h' = ZeroHint
  /\ i' = 0 /\ j' = 0 /\ k' = 0 /\ pc' = "count"
  /\ UNCHANGED <<sig, ret>>

\* Mutation: the count is not compared with OMEGA.
Bug_CountNotBounded ==
  /\ pc = "count" /\ i < K
  /\ IF sig[OMEGA + i] < k
     THEN Return(1) /\ UNCHANGED j
     ELSE pc' = "indices" /\ j' = k /\ UNCHANGED ret
  /\ UNCHANGED <<h, sig, i, k>>

UnpackCount ==        \* the count of polynomial i must not fall, nor exceed OMEGA
  /\ pc = "count" /\ i < K
  /\ IF sig[OMEGA + i] < k \/ sig[OMEGA + i] > OMEGA
     THEN Return(1) /\ UNCHANGED j
     ELSE pc' = "indices" /\ j' = k /\ UNCHANGED ret
  /\ UNCHANGED <<h, sig, i, k>>

\* Mutation: a position may be repeated.
Bug_RepeatedIndex ==
  /\ pc = "indices" /\ j < sig[OMEGA + i]
  /\ IF j > k /\ sig[j] < sig[j - 1]
     THEN Return(1) /\ UNCHANGED <<h, j>>
     ELSE h' = [h EXCEPT ![i][sig[j]] = 1] /\ j' = j + 1 /\ UNCHANGED <<pc, ret>>
  /\ UNCHANGED <<sig, i, k>>

UnpackIndex ==        \* the positions within a polynomial must rise
  /\ pc = "indices" /\ j < sig[OMEGA + i]
  /\ IF j > k /\ sig[j] <= sig[j - 1]
     THEN Return(1) /\ UNCHANGED <<h, j>>
     ELSE h' = [h EXCEPT ![i][sig[j]] = 1] /\ j' = j + 1 /\ UNCHANGED <<pc, ret>>
  /\ UNCHANGED <<sig, i, k>>

NextPoly ==
  /\ pc = "indices" /\ j = sig[OMEGA + i]
  /\ k' = sig[OMEGA + i] /\ i' = i + 1 /\ pc' = "count"
  /\ UNCHANGED <<h, sig, j, ret>>

UnpackRest ==         \* the unused positions must be zero
  /\ pc = "count" /\ i = K
  /\ Return(IF \E l \in k .. OMEGA - 1 : sig[l] # 0 THEN 1 ELSE 0)
  /\ UNCHANGED <<h, sig, i, j, k>>

-------------------------------------------------------------------------------
Next == PackHints \/ PackCoefficient \/ PackCount
        \/ UnpackHints \/ UnpackCount \/ UnpackIndex \/ NextPoly \/ UnpackRest

Spec == Init /\ [][Next]_vars

-------------------------------------------------------------------------------
(***************************************************************************)
(* Properties.                                                             *)
(*                                                                         *)
(* The encoding of a hint vector: position number p is that of the one     *)
(* with p ones before it, and unused positions are zero.                   *)
(***************************************************************************)
Encode(v) ==
  [b \in 0 .. OMEGA + K - 1 |->
     IF b >= OMEGA THEN Cardinality({o \in Ones(v) : o[1] <= b - OMEGA})
     ELSE IF b < Cardinality(Ones(v)) THEN (CHOOSE o \in Ones(v) : Rank(v, o) = b)[2]
     ELSE 0]

Encodings == {Encode(v) : v \in Hints}

\* Every variable has its type, and no index leaves its array: neither function
\* touches a position beyond OMEGA, whatever the bytes.
TypeOK ==
  /\ pc \in {"idle", "pack", "packed", "count", "indices", "unpacked"}
  /\ h \in [Polys -> [Bytes -> {0, 1}]] /\ sig \in Sections
  /\ i \in 0 .. K /\ j \in 0 .. N /\ k \in 0 .. OMEGA
  /\ pc \in {"count", "indices"} => j <= OMEGA
  /\ ret \in {0, 1}

\* mld_pack_sig writes the encoding of h, over a buffer of any content.
PackEncodes == pc = "packed" => sig = Encode(h)

\* mld_unpack_hints accepts the encodings of the hint vectors of weight at most
\* OMEGA and nothing else, and returns the vector that was encoded: each vector
\* has one encoding that is accepted, which strong unforgeability rests on.
UnpackExact ==
  pc = "unpacked" =>
    /\ ret = 0 <=> sig \in Encodings
    /\ ret = 0 => h \in Hints /\ sig = Encode(h)
===============================================================================
