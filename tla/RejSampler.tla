------------------------------- MODULE RejSampler -------------------------------
(***************************************************************************)
(* The rejection samplers of mldsa/poly.c, mld_poly_uniform(_4x) and       *)
(* mld_poly_uniform_eta(_4x), with mld_rej_uniform and mld_rej_eta that    *)
(* they call, in C and in the backends for AVX2 (native/x86_64) and for    *)
(* AArch64 (native/aarch64).                                               *)
(*                                                                         *)
(* A sampler draws blocks from an XOF and takes the acceptable candidates  *)
(* (three bytes, or half a byte) of each stream, one stream per polynomial *)
(* of a batch, until every polynomial is full.  A candidate is known by    *)
(* its number in its stream; whether it is acceptable is decided when it   *)
(* is first read.  A step is one iteration of a loop, and within it the    *)
(* work on one vector.                                                     *)
(***************************************************************************)
EXTENDS Integers, FiniteSets

CONSTANT Samplers   \* the samplers as they are built, records of the following fields

VARIABLES
  sampler,          \* the one that runs
  pc,               \* the loop that is running
  base, buflen,     \* the buffers hold candidates base .. base + buflen - 1
  way,              \* the stream being sampled
  pos,              \* its next candidate, as an index into the buffer
  group,            \* vectors still to be taken in this iteration of a vector loop
  ctr,              \* coefficients sampled so far, per stream
  a,                \* the polynomials, with the memory behind them
  tmp, stored,      \* the stack buffer of the AArch64 code, and the number of
                    \* coefficients that are in it
  seen, good        \* history: the candidates read, and those that were acceptable

vars == <<sampler, pc, base, buflen, way, pos, group, ctr, a, tmp, stored, seen, good>>

backend == sampler.backend        \* "c", "x86_64" or "aarch64"
N == sampler.N                    \* MLDSA_N
Ways == sampler.Ways              \* polynomials of a batch: 4, or 1
Block == sampler.Block            \* candidates in a block of XOF output
NBlocks == sampler.NBlocks        \* blocks that are squeezed at first
Unit == sampler.Unit              \* candidates per iteration of a C loop: 1, or 2 in a byte
Lanes == sampler.Lanes            \* candidates of a vector: 8, or 4 in rej_uniform_asm
Groups == sampler.Groups          \* vectors per iteration of a vector loop: 1, 2 or 4
Tail == sampler.Tail              \* rej_uniform_asm: 2 vectors are taken if 4 do not remain
Ahead == sampler.Ahead            \* candidates in the bytes that an iteration loads
Width == sampler.Width            \* AArch64: bytes of a lane, 4 or 2
MaxRejects == sampler.MaxRejects  \* bound on the rejections in a stream

ASSUME SamplerAssumption ==
  \A s \in Samplers :
    /\ s.backend \in {"c", "x86_64", "aarch64"}
    /\ {s.N, s.Ways, s.Block, s.NBlocks, s.Unit, s.Lanes, s.Groups, s.Width} \subseteq Nat \ {0}
    /\ s.Block % s.Unit = 0 /\ s.Lanes % s.Unit = 0 /\ s.Lanes <= s.N
    /\ s.Ahead \in Nat /\ s.Ahead >= s.Groups * s.Lanes
    /\ s.Tail \in 0 .. s.Groups - 1 /\ s.MaxRejects \in Nat
    /\ s.backend = "aarch64" =>     \* the lengths that are used leave no remainder
         /\ (s.NBlocks * s.Block) % (s.Lanes * (IF s.Tail = 0 THEN s.Groups ELSE s.Tail)) = 0
         /\ 2 * s.Tail \in {0, s.Groups}
         /\ s.Width * s.Lanes <= 255    \* 16, a register

Streams == 0 .. Ways - 1
Junk == -1          \* what memory holds that nothing was written to
Zero == -2          \* what was filled with zeros

\* Mutation: the stack buffer has no room for the last vector of an iteration.
Bug_Slack == (Groups - 1) * Lanes

Slack == Groups * Lanes           \* STACK_SIZE has at least this many more than N

Init ==
  /\ sampler \in Samplers
  /\ pc = "call"
  /\ base = 0 /\ buflen = NBlocks * Block
  /\ way = 0 /\ pos = 0 /\ group = 0
  /\ ctr = [w \in Streams |-> 0]
  /\ a = [w \in Streams |-> [i \in 0 .. N + Lanes - 1 |-> Junk]]
  /\ tmp = <<>> /\ stored = 0
  /\ seen = [w \in Streams |-> {}] /\ good = [w \in Streams |-> {}]

-------------------------------------------------------------------------------
(***************************************************************************)
(* Read n candidates of the stream; those in S are acceptable.             *)
(***************************************************************************)
Read(n, S) ==
  LET here == base + pos .. base + pos + n - 1 IN
    /\ S \subseteq here
    /\ S \cap seen[way] = good[way] \cap here
    /\ seen' = [seen EXCEPT ![way] = @ \cup here]
    /\ good' = [good EXCEPT ![way] = @ \cup S]
    /\ Cardinality(seen'[way] \ good'[way]) <= MaxRejects
    /\ pos' = pos + n

Here(n) == SUBSET (base + pos .. base + pos + n - 1)

\* The i-th smallest number of S.
Ith(S, i) == CHOOSE x \in S : Cardinality({y \in S : y < x}) = i

(***************************************************************************)
(* The tables that bring the acceptable lanes of a vector to its front: a  *)
(* row for each set of lanes.  AVX2 permutes lanes (bytes, for half        *)
(* bytes), and unused entries name lane 0; the tables of AArch64 are in    *)
(* bytes, and an index of 255 makes a byte 0.                              *)
(***************************************************************************)
LaneTable(S) == [p \in 0 .. Lanes - 1 |-> IF p < Cardinality(S) THEN Ith(S, p) ELSE 0]

ByteTable(S) ==
  [b \in 0 .. Width * Lanes - 1 |->
     IF b < Width * Cardinality(S) THEN Width * Ith(S, b \div Width) + (b % Width) ELSE 255]

Permute(v, row) == [p \in 0 .. Lanes - 1 |-> v[row[p]]]

Tbl(v, row) ==                    \* the bytes of a lane of the result stay together
  [p \in 0 .. Lanes - 1 |-> IF row[Width * p] = 255 THEN Zero ELSE v[row[Width * p] \div Width]]

Vector == [p \in 0 .. Lanes - 1 |-> base + pos + p]

LanesOf(S) == {x - (base + pos) : x \in S}

Store(m, at, v) ==                \* a vector written to memory m from index at on
  [i \in DOMAIN m |-> IF i \in at .. at + Lanes - 1 THEN v[i - at] ELSE m[i]]

(***************************************************************************)
(* mld_rej_uniform and mld_rej_eta on the buffer of stream way, with the   *)
(* coefficients that the stream already has as offset.  The native code    *)
(* starts from scratch and takes only buffers of its length, or of whole   *)
(* iterations.                                                             *)
(***************************************************************************)
NativeTakes(len) ==
  CASE backend = "c"       -> FALSE
    [] backend = "x86_64"  -> len = NBlocks * Block
    [] backend = "aarch64" -> IF Tail = 0 THEN len = NBlocks * Block ELSE len % (Tail * Lanes) = 0

RejCall ==
  /\ pc = "call"
  /\ IF ctr[way] = 0 /\ NativeTakes(buflen)
     THEN IF backend = "aarch64"
          THEN pc' = "neon" /\ stored' = 0
               /\ tmp' = [i \in 0 .. N + Slack + Lanes - 1 |-> IF i < N THEN Zero ELSE Junk]
          ELSE pc' = "vector" /\ UNCHANGED <<tmp, stored>>
     ELSE pc' = "scalar" /\ UNCHANGED <<tmp, stored>>
  /\ UNCHANGED <<sampler, base, buflen, way, pos, group, ctr, a, seen, good>>

ToNextStream ==                   \* the call has returned
  /\ IF way + 1 < Ways THEN way' = way + 1 /\ pc' = "call" ELSE way' = 0 /\ pc' = "batch"
  /\ pos' = 0

(***************************************************************************)
(* The AVX2 loops.                                                         *)
(***************************************************************************)
Full == ctr[way] > N - Lanes          \* no room for another vector

\* Mutation: room for a vector is checked once per iteration only.
Bug_RoomCheckedOnce ==
  /\ pc = "vector" /\ (group = 0 => ~Full /\ pos + Ahead <= buflen)
  /\ \E S \in Here(Lanes) :
       /\ Read(Lanes, S)
       /\ a' = [a EXCEPT ![way] = Store(@, ctr[way], Permute(Vector, LaneTable(LanesOf(S))))]
       /\ ctr' = [ctr EXCEPT ![way] = @ + Cardinality(S)]
  /\ group' = (IF group = 0 THEN Groups ELSE group) - 1
  /\ UNCHANGED <<sampler, pc, base, buflen, way, tmp, stored>>

VectorStep ==         \* store a whole vector, the acceptable candidates first
  /\ pc = "vector" /\ ~Full /\ (group = 0 => pos + Ahead <= buflen)
  /\ \E S \in Here(Lanes) :
       /\ Read(Lanes, S)
       /\ a' = [a EXCEPT ![way] = Store(@, ctr[way], Permute(Vector, LaneTable(LanesOf(S))))]
       /\ ctr' = [ctr EXCEPT ![way] = @ + Cardinality(S)]
  /\ group' = (IF group = 0 THEN Groups ELSE group) - 1
  /\ UNCHANGED <<sampler, pc, base, buflen, way, tmp, stored>>

\* Mutation: the scalar loop takes up where the AVX2 iteration would have ended.
Bug_IterationCompleted ==
  /\ pc = "vector" /\ (Full \/ (group = 0 /\ pos + Ahead > buflen))
  /\ pc' = "scalar" /\ group' = 0
  /\ pos' = pos + group * Lanes
  /\ UNCHANGED <<sampler, base, buflen, way, ctr, a, tmp, stored, seen, good>>

VectorEnd ==          \* the rest of the buffer is left to a scalar loop
  /\ pc = "vector" /\ (Full \/ (group = 0 /\ pos + Ahead > buflen))
  /\ pc' = "scalar" /\ group' = 0
  /\ UNCHANGED <<sampler, base, buflen, way, pos, ctr, a, tmp, stored, seen, good>>

(***************************************************************************)
(* The AArch64 loops.  The coefficients are compared with N between        *)
(* iterations only, and what the last iteration stored too much is dropped *)
(* when the stack buffer is copied.                                        *)
(***************************************************************************)
Remaining == (buflen - pos) \div Lanes

\* Mutation: what is less than a whole iteration is left.
Bug_Iteration == IF Remaining >= Groups THEN Groups ELSE 0

Iteration == IF Remaining >= Groups THEN Groups ELSE IF Remaining >= Tail THEN Tail ELSE 0

NeonStep ==
  /\ pc = "neon" /\ (group = 0 => stored < N /\ Iteration > 0)
  /\ \E S \in Here(Lanes) :
       /\ Read(Lanes, S)
       /\ tmp' = Store(tmp, stored, Tbl(Vector, ByteTable(LanesOf(S))))
       /\ stored' = stored + Cardinality(S)
  /\ group' = (IF group = 0 THEN Iteration ELSE group) - 1
  /\ UNCHANGED <<sampler, pc, base, buflen, way, ctr, a>>

NeonEnd ==            \* all N coefficients are copied; no scalar loop follows
  /\ pc = "neon" /\ group = 0 /\ (stored >= N \/ Iteration = 0)
  /\ a' = [a EXCEPT ![way] = [i \in DOMAIN @ |-> IF i < N THEN tmp[i] ELSE @[i]]]
  /\ ctr' = [ctr EXCEPT ![way] = IF stored < N THEN stored ELSE N]
  /\ tmp' = <<>> /\ stored' = 0
  /\ ToNextStream
  /\ UNCHANGED <<sampler, base, buflen, group, seen, good>>

(***************************************************************************)
(* The C loops, and those that follow the AVX2 loops.                      *)
(***************************************************************************)
ScalarStep ==         \* the second half of a byte is dropped if the first one filled a
  /\ pc = "scalar" /\ ctr[way] < N /\ pos + Unit <= buflen
  /\ \E S \in Here(Unit) :
       LET room == N - ctr[way]
           n == IF Cardinality(S) < room THEN Cardinality(S) ELSE room
       IN  /\ Read(Unit, S)
           /\ a' = [a EXCEPT ![way] = [i \in DOMAIN @ |->
                      IF ctr[way] <= i /\ i < ctr[way] + n THEN Ith(S, i - ctr[way]) ELSE @[i]]]
           /\ ctr' = [ctr EXCEPT ![way] = @ + n]
  /\ UNCHANGED <<sampler, pc, base, buflen, way, group, tmp, stored>>

ScalarEnd ==
  /\ pc = "scalar" /\ (ctr[way] >= N \/ pos + Unit > buflen)
  /\ ToNextStream
  /\ UNCHANGED <<sampler, base, buflen, group, ctr, a, tmp, stored, seen, good>>

(***************************************************************************)
(* The loop of the samplers: one more block for all streams as long as one *)
(* of the polynomials is not full.                                         *)
(***************************************************************************)
Refill ==
  /\ pc = "batch" /\ \E w \in Streams : ctr[w] < N
  /\ base' = base + buflen /\ buflen' = Block /\ pc' = "call"
  /\ UNCHANGED <<sampler, way, pos, group, ctr, a, tmp, stored, seen, good>>

\* Mutation: the loop ends with the first polynomial that is full.
Bug_OneIsEnough ==
  /\ pc = "batch" /\ \E w \in Streams : ctr[w] = N
  /\ pc' = "done"
  /\ UNCHANGED <<sampler, base, buflen, way, pos, group, ctr, a, tmp, stored, seen, good>>

Done ==
  /\ pc = "batch" /\ \A w \in Streams : ctr[w] = N
  /\ pc' = "done"
  /\ UNCHANGED <<sampler, base, buflen, way, pos, group, ctr, a, tmp, stored, seen, good>>

Next ==
  \/ RejCall \/ VectorStep \/ VectorEnd \/ NeonStep \/ NeonEnd
  \/ ScalarStep \/ ScalarEnd \/ Refill \/ Done

Spec == Init /\ [][Next]_vars

-------------------------------------------------------------------------------
(***************************************************************************)
(* Properties.                                                             *)
(***************************************************************************)
\* Every variable has its type; a vector is only stored where it fits: never in
\* the memory behind a polynomial, and never behind the stack buffer, although
\* the AArch64 loops do not compare before every store; and no loop reads beyond
\* the buffer.
TypeOK ==
  /\ sampler \in Samplers
  /\ pc \in {"call", "vector", "neon", "scalar", "batch", "done"}
  /\ way \in Streams /\ group \in 0 .. Groups - 1
  /\ buflen \in {Block, NBlocks * Block}
  /\ pos \in 0 .. buflen
  /\ ctr \in [Streams -> 0 .. N]
  /\ \A w \in Streams : \A i \in N .. N + Lanes - 1 : a[w][i] = Junk
  /\ pc = "neon" => \A i \in N + Slack .. N + Slack + Lanes - 1 : tmp[i] = Junk

InOrder(m, n, w) == \A i \in 0 .. n - 1 :
                      m[i] \in good[w] /\ Cardinality({x \in good[w] : x < m[i]}) = i

\* Each polynomial is filled with the acceptable candidates of its stream in
\* their order, with none left out and none taken twice: whichever of the loops
\* in C, for AVX2 and for AArch64 read them, wherever the loops and the blocks
\* end, whatever the vectors stored behind the coefficients that count, and
\* however many blocks the other streams of the batch needed.
SampledInOrder ==
  \A w \in Streams :
    /\ seen[w] = 0 .. Cardinality(seen[w]) - 1
    /\ IF pc = "neon" /\ w = way
       THEN stored = Cardinality(good[w]) /\ InOrder(tmp, stored, w)
       ELSE ctr[w] < N => ctr[w] = Cardinality(good[w])
    /\ InOrder(a[w], ctr[w], w)
    /\ pc = "done" => ctr[w] = N
===============================================================================
