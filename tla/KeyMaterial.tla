------------------------------ MODULE KeyMaterial ------------------------------
(***************************************************************************)
(* What the vectors of a key are made from and where they are stored:      *)
(* mld_polyvec_matrix_expand (mldsa/polyvec.c), mld_sample_s1_s2 (sign.c), *)
(* and the layout of keys in mld_pack_pk, mld_pack_sk, mld_unpack_pk and   *)
(* mld_unpack_sk (packing.c), for the parameter sets of params.h.          *)
(*                                                                         *)
(* crypto_sign_keypair_internal makes a key; then a signer or a verifier   *)
(* unpacks its half and expands the matrix again.  A polynomial stands for *)
(* what it was expanded from: an entry of the matrix for the two bytes     *)
(* that extend rho, a short polynomial for the nonce that extends rhoprime.*)
(***************************************************************************)
EXTENDS Integers, Sequences

CONSTANT Modes          \* the values of MLDSA_MODE

ASSUME ModeAssumption == Modes \subseteq {2, 3, 5}

VARIABLES
  mode,             \* MLDSA_MODE
  kpc,              \* what runs next: "expand", "short", "pack", "keys" or "done"
  entry, lane,      \* i and j, the loop counters of mld_polyvec_matrix_expand
  seed_ext,         \* its four extended seeds
  mat,
  short,            \* the vectors s1 and s2
  call,             \* calls of mld_poly_uniform_eta_4x made so far
  pk, sk,           \* key buffers: sets of pieces
  key               \* what was unpacked, as pairs: where it went, what it was

kvars == <<mode, kpc, entry, lane, seed_ext, mat, short, call, pk, sk, key>>

MLDSA_K == CASE mode = 2 -> 4 [] mode = 3 -> 6 [] mode = 5 -> 8
MLDSA_L == CASE mode = 2 -> 4 [] mode = 3 -> 5 [] mode = 5 -> 7

SEEDBYTES == 32
TRBYTES == 64
POLYT1_PACKEDBYTES == 320
POLYT0_PACKEDBYTES == 416
POLYETA_PACKEDBYTES == IF mode = 3 THEN 128 ELSE 96

CRYPTO_PUBLICKEYBYTES == SEEDBYTES + MLDSA_K * POLYT1_PACKEDBYTES
CRYPTO_SECRETKEYBYTES ==
  2 * SEEDBYTES + TRBYTES + MLDSA_L * POLYETA_PACKEDBYTES
    + MLDSA_K * POLYETA_PACKEDBYTES + MLDSA_K * POLYT0_PACKEDBYTES

NoSeed == <<>>
Junk == -1              \* an uninitialised polynomial
IRRELEVANT == 255       \* the nonce of an irrelevant lane
V1(l) == <<"s1", l>>
V2(k) == <<"s2", k>>
ShortPolys == {V1(l) : l \in 0 .. MLDSA_L - 1} \cup {V2(k) : k \in 0 .. MLDSA_K - 1}
NoMatrix == [x \in 0 .. MLDSA_K - 1 |-> [y \in 0 .. MLDSA_L - 1 |-> NoSeed]]

KeyInit ==
  /\ mode \in Modes /\ kpc = "expand"
  /\ entry = 0 /\ lane = 0
  /\ seed_ext = [l \in 0 .. 3 |-> NoSeed] /\ mat = NoMatrix
  /\ short = [v \in ShortPolys |-> Junk] /\ call = 0
  /\ pk = {} /\ sk = {} /\ key = {}

-------------------------------------------------------------------------------
(***************************************************************************)
(* mld_polyvec_matrix_expand: four entries at a time as long as there are  *)
(* four, the rest one by one.                                              *)
(***************************************************************************)
Batched == ((MLDSA_K * MLDSA_L) \div 4) * 4

Number(x, y) == x * MLDSA_L + y       \* of the entry in row x and column y

SeedOf(e) == <<e % MLDSA_L, e \div MLDSA_L>>      \* the two bytes that extend rho: y, x

ExtendSeed ==
  /\ kpc = "expand" /\ entry < Batched /\ lane < 4
  /\ seed_ext' = [seed_ext EXCEPT ![lane] = SeedOf(entry + lane)]
  /\ lane' = lane + 1
  /\ UNCHANGED <<mode, kpc, entry, mat, short, call, pk, sk, key>>

Sample4 ==            \* mld_poly_uniform_4x
  /\ kpc = "expand" /\ entry < Batched /\ lane = 4
  /\ mat' = [x \in DOMAIN mat |-> [y \in DOMAIN mat[x] |->
               IF Number(x, y) \in entry .. entry + 3 THEN seed_ext[Number(x, y) - entry]
               ELSE mat[x][y]]]
  /\ entry' = entry + 4 /\ lane' = 0
  /\ UNCHANGED <<mode, kpc, seed_ext, short, call, pk, sk, key>>

\* Mutation: the rest is expanded from the seed of the last batch.
Bug_SeedNotRenewed ==
  /\ kpc = "expand" /\ entry >= Batched /\ entry < MLDSA_K * MLDSA_L
  /\ mat' = [mat EXCEPT ![entry \div MLDSA_L][entry % MLDSA_L] = seed_ext[0]]
  /\ entry' = entry + 1
  /\ UNCHANGED <<mode, kpc, lane, seed_ext, short, call, pk, sk, key>>

Sample1 ==            \* mld_poly_uniform
  /\ kpc = "expand" /\ entry >= Batched /\ entry < MLDSA_K * MLDSA_L
  /\ seed_ext' = [seed_ext EXCEPT ![0] = SeedOf(entry)]
  /\ mat' = [mat EXCEPT ![entry \div MLDSA_L][entry % MLDSA_L] = seed_ext'[0]]
  /\ entry' = entry + 1
  /\ UNCHANGED <<mode, kpc, lane, short, call, pk, sk, key>>

ExpandDone ==
  /\ kpc = "expand" /\ entry = MLDSA_K * MLDSA_L
  /\ kpc' = IF key = {} THEN "short" ELSE "done"
  /\ seed_ext' = [l \in 0 .. 3 |-> NoSeed]
  /\ UNCHANGED <<mode, entry, lane, mat, short, call, pk, sk, key>>

(***************************************************************************)
(* mld_sample_s1_s2.  A call of mld_poly_uniform_eta_4x gives each of its  *)
(* four lanes, a vector and an index, the polynomial of a nonce.           *)
(***************************************************************************)
EtaCall(v, n) ==
  [p \in {v[1], v[2], v[3], v[4]} |->
     CASE p = v[1] -> n[1] [] p = v[2] -> n[2] [] p = v[3] -> n[3] [] p = v[4] -> n[4]]

Filled(c) ==          \* the vectors with what a call writes
  [p \in DOMAIN short \cup DOMAIN c |-> IF p \in DOMAIN c THEN c[p] ELSE short[p]]

EtaCalls ==
  CASE mode = 2 -> << EtaCall(<<V1(0), V1(1), V1(2), V1(3)>>, <<0, 1, 2, 3>>),
                      EtaCall(<<V2(0), V2(1), V2(2), V2(3)>>, <<4, 5, 6, 7>>) >>
    [] mode = 3 -> << EtaCall(<<V1(0), V1(1), V1(2), V1(3)>>, <<0, 1, 2, 3>>),
                      EtaCall(<<V1(4), V2(0), V2(1), V2(2)>>, <<4, 5, 6, IRRELEVANT>>),
                      EtaCall(<<V2(2), V2(3), V2(4), V2(5)>>, <<7, 8, 9, 10>>) >>
    [] mode = 5 -> << EtaCall(<<V1(0), V1(1), V1(2), V1(3)>>, <<0, 1, 2, 3>>),
                      EtaCall(<<V1(4), V1(5), V1(6), V2(0)>>, <<4, 5, 6, IRRELEVANT>>),
                      EtaCall(<<V2(0), V2(1), V2(2), V2(3)>>, <<7, 8, 9, 10>>),
                      EtaCall(<<V2(4), V2(5), V2(6), V2(7)>>, <<11, 12, 13, 14>>) >>

\* Mutation: an irrelevant lane is filled after the polynomial it stands in for.
Bug_CallsReversed ==
  /\ kpc = "short" /\ call < Len(EtaCalls)
  /\ short' = Filled(EtaCalls[Len(EtaCalls) - call])
  /\ call' = call + 1
  /\ UNCHANGED <<mode, kpc, entry, lane, seed_ext, mat, pk, sk, key>>

SampleShort ==
  /\ kpc = "short" /\ call < Len(EtaCalls)
  /\ short' = Filled(EtaCalls[call + 1])
  /\ call' = call + 1
  /\ UNCHANGED <<mode, kpc, entry, lane, seed_ext, mat, pk, sk, key>>

-------------------------------------------------------------------------------
(***************************************************************************)
(* The layout of keys, as the fields in the order they are packed: the     *)
(* number of items of a field, the length of an item, and how far the      *)
(* buffer pointer moves on after the field.                                *)
(***************************************************************************)
Field(name, n, len, advance) == [name |-> name, n |-> n, len |-> len, advance |-> advance]
ByteField(name, n) == Field(name, 1, n, n)

PkFields ==
  << ByteField("rho", SEEDBYTES),
     Field("t1", MLDSA_K, POLYT1_PACKEDBYTES, MLDSA_K * POLYT1_PACKEDBYTES) >>

\* Mutation: s2 moves the pointer on by the length of s1.
Bug_AdvancesByL ==
  << ByteField("rho", SEEDBYTES), ByteField("key", SEEDBYTES), ByteField("tr", TRBYTES),
     Field("s1", MLDSA_L, POLYETA_PACKEDBYTES, MLDSA_L * POLYETA_PACKEDBYTES),
     Field("s2", MLDSA_K, POLYETA_PACKEDBYTES, MLDSA_L * POLYETA_PACKEDBYTES),
     Field("t0", MLDSA_K, POLYT0_PACKEDBYTES, MLDSA_K * POLYT0_PACKEDBYTES) >>

SkFields ==
  << ByteField("rho", SEEDBYTES), ByteField("key", SEEDBYTES), ByteField("tr", TRBYTES),
     Field("s1", MLDSA_L, POLYETA_PACKEDBYTES, MLDSA_L * POLYETA_PACKEDBYTES),
     Field("s2", MLDSA_K, POLYETA_PACKEDBYTES, MLDSA_K * POLYETA_PACKEDBYTES),
     Field("t0", MLDSA_K, POLYT0_PACKEDBYTES, MLDSA_K * POLYT0_PACKEDBYTES) >>

UnpackPkFields ==
  << ByteField("rho", SEEDBYTES),
     Field("t1", MLDSA_K, POLYT1_PACKEDBYTES, MLDSA_K * POLYT1_PACKEDBYTES) >>

\* Mutation: key and tr are read in the order of the parameters.
Bug_TrBeforeKey ==
  << ByteField("rho", SEEDBYTES), ByteField("tr", TRBYTES), ByteField("key", SEEDBYTES),
     Field("s1", MLDSA_L, POLYETA_PACKEDBYTES, MLDSA_L * POLYETA_PACKEDBYTES),
     Field("s2", MLDSA_K, POLYETA_PACKEDBYTES, MLDSA_K * POLYETA_PACKEDBYTES),
     Field("t0", MLDSA_K, POLYT0_PACKEDBYTES, MLDSA_K * POLYT0_PACKEDBYTES) >>

UnpackSkFields ==
  << ByteField("rho", SEEDBYTES), ByteField("key", SEEDBYTES), ByteField("tr", TRBYTES),
     Field("s1", MLDSA_L, POLYETA_PACKEDBYTES, MLDSA_L * POLYETA_PACKEDBYTES),
     Field("s2", MLDSA_K, POLYETA_PACKEDBYTES, MLDSA_K * POLYETA_PACKEDBYTES),
     Field("t0", MLDSA_K, POLYT0_PACKEDBYTES, MLDSA_K * POLYT0_PACKEDBYTES) >>

Offsets(fields) ==     \* where the fields begin
  LET at[f \in 1 .. Len(fields)] ==
        IF f = 1 THEN 0 ELSE at[f - 1] + fields[f - 1].advance
  IN  at

Items(fields, f) ==
  {[at   |-> Offsets(fields)[f] + e * fields[f].len,
    len  |-> fields[f].len,
    item |-> <<fields[f].name, e>>] : e \in 0 .. fields[f].n - 1}

\* The items of the fields, with the bytes that each takes.
Pieces(fields) == UNION {Items(fields, f) : f \in 1 .. Len(fields)}

-------------------------------------------------------------------------------
PackPk ==             \* mld_pack_pk
  /\ kpc = "short" /\ call = Len(EtaCalls)
  /\ pk' = Pieces(PkFields) /\ kpc' = "pack"
  /\ UNCHANGED <<mode, entry, lane, seed_ext, mat, short, call, sk, key>>

PackSk ==             \* mld_pack_sk; the locals of the key generation are gone after it
  /\ kpc = "pack"
  /\ sk' = Pieces(SkFields) /\ kpc' = "keys"
  /\ mat' = NoMatrix
  /\ UNCHANGED <<mode, entry, lane, seed_ext, short, call, pk, key>>

Read(buf, fields) ==  \* what each item of fields finds in its place
  {<<rp[1].item, rp[2].item>> : rp \in
     {rp \in Pieces(fields) \X buf : rp[1].at = rp[2].at /\ rp[1].len = rp[2].len}}

UnpackKey(buf, fields) ==
  /\ kpc = "keys"
  /\ key' = Read(buf, fields)
  /\ kpc' = "expand" /\ entry' = 0 /\ lane' = 0
  /\ UNCHANGED <<mode, seed_ext, mat, short, call, pk, sk>>

UnpackSk == UnpackKey(sk, UnpackSkFields)     \* the signer
UnpackPk == UnpackKey(pk, UnpackPkFields)     \* the verifier

KeyNext == \/ ExtendSeed \/ Sample4 \/ Sample1 \/ ExpandDone
           \/ SampleShort \/ PackPk \/ PackSk \/ UnpackSk \/ UnpackPk

KeySpec == KeyInit /\ [][KeyNext]_kvars

-------------------------------------------------------------------------------
(***************************************************************************)
(* Properties.                                                             *)
(***************************************************************************)
\* The pieces of a buffer lie side by side and fill it.
Fill(buf, size) ==
  /\ \A p \in buf : p.at \in 0 .. size - 1
  /\ \A p \in buf : p.at + p.len = size \/ \E q \in buf : q.at = p.at + p.len
  /\ \A p, q \in buf : p # q => p.at + p.len <= q.at \/ q.at + q.len <= p.at
  /\ \E p \in buf : p.at = 0

\* Every variable has its type: no entry outside the matrix or the vectors is
\* written, and the pieces of a key fill its buffer, with no gap or overlap.
KeyTypeOK ==
  /\ mode \in Modes /\ kpc \in {"expand", "short", "pack", "keys", "done"}
  /\ entry \in 0 .. MLDSA_K * MLDSA_L /\ lane \in 0 .. 4 /\ call \in 0 .. Len(EtaCalls)
  /\ DOMAIN short = ShortPolys
  /\ pk = {} \/ Fill(pk, CRYPTO_PUBLICKEYBYTES)
  /\ sk = {} \/ Fill(sk, CRYPTO_SECRETKEYBYTES)

\* The matrix is ExpandA of FIPS 204, entry (x, y) from rho, y and x: for the
\* key generation and for the signer and the verifier that expand it again,
\* whatever the parameter set leaves over from the batches of four.
MatrixIsExpandA ==
  /\ \A x \in 0 .. MLDSA_K - 1 : \A y \in 0 .. MLDSA_L - 1 : mat[x][y] \in {NoSeed, <<y, x>>}
  /\ kpc \in {"short", "pack", "done"} =>
       \A x \in 0 .. MLDSA_K - 1 : \A y \in 0 .. MLDSA_L - 1 : mat[x][y] # NoSeed

\* The short vectors are ExpandS of FIPS 204: once a key is packed, s1[l] is from
\* nonce l and s2[k] from nonce L + k, so that no two share a nonce and none has
\* what an irrelevant lane left there.
ShortIsExpandS ==
  sk # {} => /\ \A l \in 0 .. MLDSA_L - 1 : short[V1(l)] = l
             /\ \A k \in 0 .. MLDSA_K - 1 : short[V2(k)] = MLDSA_L + k

\* What is unpacked from a key is what was packed, each item at its own place:
\* the signer has all of the secret key, the verifier all of the public key.
UnpackedAsPacked ==
  key # {} =>
    /\ \A e \in key : e[1] = e[2]
    /\ {e[1] : e \in key} \in {{p.item : p \in sk}, {p.item : p \in pk}}
===============================================================================
