--------------------------------- MODULE Keccak ---------------------------------
(***************************************************************************)
(* Keccak-f[1600] on the four states of a batch, in C                      *)
(* (fips202/keccakf1600.c, one state after the other) and with AVX2        *)
(* (native/x86_64/src/KeccakP_1600_times4_SIMD256.c, the four states in    *)
(* the four lanes of every vector).  Both compute five lanes of the next   *)
(* state at a time, out of two copies A and E of the state that take       *)
(* turns; they differ in the column parities that theta needs: C computes  *)
(* them afresh in every round, AVX2 accumulates them while it produces the *)
(* rows of the round before.                                               *)
(*                                                                         *)
(* A lane is the set of its bits that are 1.  A vector is a function from  *)
(* the states that are permuted together to lanes.                         *)
(***************************************************************************)
EXTENDS Integers, Sequences

CONSTANTS
  Memories,         \* what the memory of the states may hold at the start
  Blocks            \* [offset, data] records: bytes to absorb, per state

Bits == 0 .. 63
Ways == 0 .. 3
Lanes == 0 .. 24                  \* 5 * row + column; rows b g k m s, columns a e i o u

\* The bytes lie within the state: offset and length by the contract of keccakf1600.h.
ASSUME KeccakAssumption ==
  /\ Memories \subseteq [0 .. 99 -> SUBSET Bits]
  /\ \A b \in Blocks :
       /\ b.offset \in Nat
       /\ b.data \in [Ways -> Seq(SUBSET (0 .. 7))]
       /\ \A w \in Ways : Len(b.data[w]) = Len(b.data[0])
       /\ b.offset + Len(b.data[0]) <= 200

VARIABLES
  kpc,              \* what comes next
  simd,             \* is the AVX2 backend compiled in?
  little,           \* is the machine little-endian?
  block,            \* the bytes to absorb, and where
  way,              \* C: the state that is permuted
  mem,              \* the four states in memory, 25 lanes each
  AE,               \* the two copies A and E of a state
  C, D,             \* column parities, and what theta adds to a column
  round, row,
  read,             \* the bytes read back
  ref               \* history: what FIPS 202 makes of each state, round by round

kvars == <<kpc, simd, little, block, way, mem, AE, C, D, round, row, read, ref>>

-------------------------------------------------------------------------------
(***************************************************************************)
(* Operations on lanes and vectors.                                        *)
(***************************************************************************)
a (+) b == (a \ b) \cup (b \ a)

Rol(a, n) ==                      \* MLD_KECCAK_ROL: (a << n) ^ (a >> (64 - n))
  {i + n : i \in {j \in a : j + n \in Bits}} (+) {i - (64 - n) : i \in {j \in a : j >= 64 - n}}

\* rho8 and rho56: for each byte of a vector, the byte that moves there.
Rho8 == << << 7, 0, 1, 2, 3, 4, 5, 6>>, <<15, 8, 9, 10, 11, 12, 13, 14>>,
           <<23, 16, 17, 18, 19, 20, 21, 22>>, <<31, 24, 25, 26, 27, 28, 29, 30>> >>
Rho56 == << << 1, 2, 3, 4, 5, 6, 7, 0>>, <<9, 10, 11, 12, 13, 14, 15, 8>>,
            <<17, 18, 19, 20, 21, 22, 23, 16>>, <<25, 26, 27, 28, 29, 30, 31, 24>> >>

(***************************************************************************)
(* vpshufb: a byte is taken from the same half of the vector, whatever the *)
(* high bits of the index.                                                 *)
(***************************************************************************)
ShuffleBytes(v, table) ==
  [w \in Ways |-> {z \in Bits :
     LET byte == table[w + 1][(z \div 8) + 1] % 16
     IN  8 * (byte % 8) + (z % 8) \in v[2 * (w \div 2) + (byte \div 8)]}]

RolVector(v, n) ==
  CASE n = 0             -> v
    [] simd /\ n = 8     -> ShuffleBytes(v, Rho8)
    [] simd /\ n = 56    -> ShuffleBytes(v, Rho56)
    [] OTHER             -> [w \in DOMAIN v |-> Rol(v[w], n)]

XorEach(u, v) == [w \in DOMAIN u |-> u[w] (+) v[w]]

Chi(b0, b1, b2) == [w \in DOMAIN b0 |-> b0[w] (+) (b2[w] \ b1[w])]     \* b0 ^ (~b1 & b2)

(***************************************************************************)
(* One row of a round: the lane that becomes each of its five lanes, and   *)
(* how far it is rotated.                                                  *)
(***************************************************************************)
Rows == <<
  << << 0,  0>>, << 6, 44>>, <<12, 43>>, <<18, 21>>, <<24, 14>> >>,    \* ba ge ki mo su
  << << 3, 28>>, << 9, 20>>, <<10,  3>>, <<16, 45>>, <<22, 61>> >>,    \* bo gu ka me si
  << << 1,  1>>, << 7,  6>>, <<13, 25>>, <<19,  8>>, <<20, 18>> >>,    \* be gi ko mu sa
  << << 4, 27>>, << 5, 36>>, <<11, 10>>, <<17, 15>>, <<23, 56>> >>,    \* bu ga ke mi so
  << << 2, 62>>, << 8, 55>>, <<14, 39>>, <<15, 41>>, <<21,  2>> >> >>  \* bi go ku ma se

RoundConstants == <<
  {0}, {1, 7, 15}, {1, 3, 7, 15, 63}, {15, 31, 63}, {0, 1, 3, 7, 15}, {0, 31},
  {0, 7, 15, 31, 63}, {0, 3, 15, 63}, {1, 3, 7}, {3, 7}, {0, 3, 15, 31}, {1, 3, 31},
  {0, 1, 3, 7, 15, 31}, {0, 1, 3, 7, 63}, {0, 3, 7, 15, 63}, {0, 1, 15, 63},
  {1, 15, 63}, {7, 63}, {1, 3, 15}, {1, 3, 31, 63}, {0, 7, 15, 31, 63}, {7, 15, 63},
  {0, 31}, {3, 15, 31, 63} >>

-------------------------------------------------------------------------------
(***************************************************************************)
(* Keccak-f[1600] of FIPS 202, sections 3.1 to 3.3.  A state array is a    *)
(* function from x + 5 * y to lanes; the state string is the set of the    *)
(* numbers of its 1 bits.                                                  *)
(***************************************************************************)
At(x, y) == (x % 5) + 5 * (y % 5)

RefTheta(s) ==
  LET P == [x \in 0 .. 4 |->
              ((((s[At(x, 0)] (+) s[At(x, 1)]) (+) s[At(x, 2)]) (+) s[At(x, 3)]) (+) s[At(x, 4)])]
      T == [x \in 0 .. 4 |-> P[(x + 4) % 5] (+) {(z + 1) % 64 : z \in P[(x + 1) % 5]}]
  IN  [i \in Lanes |-> s[i] (+) T[i % 5]]

Walk[t \in 0 .. 23] ==            \* the lanes in the order of rho
  IF t = 0 THEN [x |-> 1, y |-> 0]
  ELSE LET p == Walk[t - 1] IN [x |-> p.y, y |-> (2 * p.x + 3 * p.y) % 5]

RhoOffsets == [i \in Lanes |->
  IF i = 0 THEN 0
  ELSE LET t == CHOOSE t \in 0 .. 23 : At(Walk[t].x, Walk[t].y) = i
       IN  (((t + 1) * (t + 2)) \div 2) % 64]

RefRhoPi(s) ==
  LET rotated == [i \in Lanes |-> {(z + RhoOffsets[i]) % 64 : z \in s[i]}]
  IN  [i \in Lanes |-> LET x == i % 5  y == i \div 5 IN rotated[At(x + 3 * y, x)]]

RefChi(s) ==
  [i \in Lanes |-> LET x == i % 5  y == i \div 5
                   IN s[i] (+) (s[At(x + 2, y)] \ s[At(x + 1, y)])]

LfsrStep(R) ==                    \* the register of algorithm 5
  LET shifted == {i + 1 : i \in R}
  IN  (IF 8 \in shifted THEN shifted (+) {0, 4, 5, 6} ELSE shifted) \ {8}

Register(R, n) == LET f[k \in 0 .. n] == IF k = 0 THEN R ELSE LfsrStep(f[k - 1]) IN f[n]

RefIota(R) == {2 ^ j - 1 : j \in {k \in 0 .. 6 : 0 \in Register(R, k)}}

\* The state s itself; TLC evaluates it here, once, and not wherever it is used.
Evaluated(s) == CHOOSE t \in {s} : t \in [Lanes -> SUBSET Bits]

RefRound(r) ==                    \* lfsr is the register that the constants come from
  LET t == RefChi(Evaluated(RefRhoPi(Evaluated(RefTheta(r.s))))) IN
    [rounds |-> r.rounds + 1, lfsr |-> Register(r.lfsr, 7),
     s |-> [t EXCEPT ![0] = @ (+) RefIota(r.lfsr)]]

Window == block.offset .. block.offset + Len(block.data[0]) - 1

DataByte(w, p) == block.data[w][p - block.offset + 1]

RefAbsorb(r, w) ==                \* the bytes of the block added to the state string
  LET string == (UNION {{64 * i + z : z \in r.s[i]} : i \in Lanes})
                  (+) (UNION {{8 * p + b : b \in DataByte(w, p)} : p \in Window})
  IN  [r EXCEPT !.s = [i \in Lanes |-> {z \in Bits : 64 * i + z \in string}]]

-------------------------------------------------------------------------------
Cur == round % 2                  \* 0: from A to E, 1: from E to A

Parity(s, x) ==                   \* prepareTheta
  XorEach(s[x], XorEach(s[x + 5], XorEach(s[x + 10], XorEach(s[x + 15], s[x + 20]))))

KeccakInit ==
  /\ kpc = "xor" /\ simd \in BOOLEAN /\ little \in BOOLEAN /\ (simd => little)
  /\ block \in Blocks
  /\ mem \in Memories
  /\ ref = [w \in Ways |-> [rounds |-> 0, lfsr |-> {0}, s |-> [i \in Lanes |-> mem[25 * w + i]]]]
  /\ way = 0 /\ round = 0 /\ row = 0
  /\ AE = [c \in 0 .. 1 |-> <<>>] /\ C = <<>> /\ D = <<>>
  /\ read = [w \in Ways |-> <<>>]

(***************************************************************************)
(* mld_keccakf1600x4_xor_bytes on block.offset and the bytes that follow:  *)
(* through a pointer to the bytes of the lanes, or with shifts.            *)
(***************************************************************************)
LaneBytes(m, l) ==                \* the lane in the memory of a little-endian machine
  [i \in 0 .. 7 |-> {b \in 0 .. 7 : 8 * i + b \in m[l]}]

XorByPointer(w, l) ==
  UNION {LET p == 8 * l + i
             old == LaneBytes(mem, 25 * w + l)[i]
             new == IF p \in Window THEN old (+) DataByte(w, p) ELSE old
         IN  {8 * i + b : b \in new} : i \in 0 .. 7}

XorByShift(w, l) ==
  mem[25 * w + l] (+) UNION {{b + 8 * (p % 8) : b \in DataByte(w, p)} :
                               p \in {q \in Window : q \div 8 = l}}

XorBytes ==
  /\ kpc = "xor"
  /\ mem' = [i \in DOMAIN mem |-> IF little THEN XorByPointer(i \div 25, i % 25)
                                            ELSE XorByShift(i \div 25, i % 25)]
  /\ kpc' = "load"
  /\ ref' = [w \in Ways |-> RefAbsorb(ref[w], w)]
  /\ UNCHANGED <<simd, little, block, way, AE, C, D, round, row, read>>

(***************************************************************************)
(* mld_keccakf1600x4_permute: mld_keccakf1600x4_permute24, or              *)
(* mld_keccakf1600_permute on each of the states.                          *)
(***************************************************************************)
LoadTogether ==                   \* copyFromState gathers from four addresses; prepareTheta
  LET s == [i \in Lanes |-> [w \in Ways |-> mem[25 * w + i]]] IN
    /\ kpc = "load" /\ simd
    /\ AE' = [AE EXCEPT ![0] = s]
    /\ C' = [x \in 0 .. 4 |-> Parity(s, x)]
    /\ kpc' = "theta" /\ round' = 0
    /\ UNCHANGED <<simd, little, block, way, mem, D, row, read, ref>>

LoadOne ==
  /\ kpc = "load" /\ ~simd
  /\ AE' = [AE EXCEPT ![0] = [i \in Lanes |-> [w \in {way} |-> mem[25 * way + i]]]]
  /\ kpc' = "theta" /\ round' = 0
  /\ UNCHANGED <<simd, little, block, way, mem, C, D, row, read, ref>>

Theta ==
  LET P == IF simd THEN C ELSE [x \in 0 .. 4 |-> Parity(AE[Cur], x)] IN
    /\ kpc = "theta"
    /\ C' = P
    /\ D' = [x \in 0 .. 4 |-> XorEach(P[(x + 4) % 5], RolVector(P[(x + 1) % 5], 1))]
    /\ kpc' = "row"
    /\ UNCHANGED <<simd, little, block, way, mem, AE, round, row, read, ref>>

\* Mutation: the parities of the last row are not accumulated.
Bug_Accumulate(x, lane) ==
  IF ~simd \/ round = 23 \/ row = 4 THEN C[x] ELSE IF row = 0 THEN lane ELSE XorEach(C[x], lane)

Accumulate(x, lane) ==            \* not in thetaRhoPiChiIota, the last round
  IF ~simd \/ round = 23 THEN C[x] ELSE IF row = 0 THEN lane ELSE XorEach(C[x], lane)

Iota(x, lane) ==
  IF row = 0 /\ x = 0 THEN [w \in DOMAIN lane |-> lane[w] (+) RoundConstants[round + 1]]
                      ELSE lane

Row ==                            \* the row of E from five lanes of A, or the reverse
  LET src(j) == Rows[row + 1][j + 1][1]
      added == [j \in 0 .. 4 |-> XorEach(AE[Cur][src(j)], D[src(j) % 5])]
      B == [j \in 0 .. 4 |-> RolVector(added[j], Rows[row + 1][j + 1][2])]
      E == [x \in 0 .. 4 |-> Iota(x, Chi(B[x], B[(x + 1) % 5], B[(x + 2) % 5]))]
      from == [i \in Lanes |-> IF \E j \in 0 .. 4 : src(j) = i
                               THEN added[CHOOSE j \in 0 .. 4 : src(j) = i] ELSE AE[Cur][i]]
      to == [i \in Lanes |-> IF i \div 5 = row THEN E[i % 5]
                             ELSE IF AE[1 - Cur] = <<>> THEN <<>> ELSE AE[1 - Cur][i]]
  IN /\ kpc = "row"
     /\ AE' = [c \in 0 .. 1 |-> IF c = Cur THEN from ELSE to]
     /\ C' = [x \in 0 .. 4 |-> Accumulate(x, E[x])]
     /\ row' = (row + 1) % 5
     /\ round' = (IF row = 4 THEN round + 1 ELSE round)
     /\ kpc' = (IF row < 4 THEN "row" ELSE IF round < 23 THEN "theta" ELSE "store")
     /\ ref' = [w \in Ways |-> IF row = 4 /\ w \in DOMAIN D[0] THEN RefRound(ref[w]) ELSE ref[w]]
     /\ UNCHANGED <<simd, little, block, way, mem, D, read>>

\* Mutation: the two halves of a vector are stored the other way round.
Bug_StoreTogether ==
  /\ kpc = "store" /\ simd
  /\ mem' = [i \in DOMAIN mem |-> AE[0][i % 25][(i \div 25 + 2) % 4]]
  /\ kpc' = "extract"
  /\ UNCHANGED <<simd, little, block, way, AE, C, D, round, row, read, ref>>

StoreTogether ==                  \* copyToState with SCATTER_STORE256
  /\ kpc = "store" /\ simd
  /\ mem' = [i \in DOMAIN mem |-> AE[0][i % 25][i \div 25]]
  /\ kpc' = "extract"
  /\ UNCHANGED <<simd, little, block, way, AE, C, D, round, row, read, ref>>

StoreOne ==                       \* and on to the next state
  /\ kpc = "store" /\ ~simd
  /\ mem' = [i \in DOMAIN mem |-> IF i \div 25 = way THEN AE[0][i % 25][way] ELSE mem[i]]
  /\ IF way < 3 THEN way' = way + 1 /\ kpc' = "load" ELSE way' = way /\ kpc' = "extract"
  /\ UNCHANGED <<simd, little, block, AE, C, D, round, row, read, ref>>

ExtractBytes ==                   \* mld_keccakf1600x4_extract_bytes, as many as were absorbed
  /\ kpc = "extract"
  /\ read' = [w \in Ways |-> [i \in 1 .. Len(block.data[0]) |->
       LET p == block.offset + i - 1
           lane == 25 * w + (p \div 8)
       IN  IF little THEN LaneBytes(mem, lane)[p % 8]
           ELSE {b - 8 * (p % 8) : b \in {c \in mem[lane] : c >= 8 * (p % 8)}} \cap 0 .. 7]]
  /\ kpc' = "end"
  /\ UNCHANGED <<simd, little, block, way, mem, AE, C, D, round, row, ref>>

KeccakNext ==
  \/ XorBytes \/ LoadTogether \/ LoadOne \/ Theta \/ Row
  \/ StoreTogether \/ StoreOne \/ ExtractBytes

KeccakSpec == KeccakInit /\ [][KeccakNext]_kvars

-------------------------------------------------------------------------------
(***************************************************************************)
(* Properties.                                                             *)
(***************************************************************************)
\* After any number of rounds the copy that the next round reads holds the
\* state after as many rounds of FIPS 202, for each of the states that are
\* permuted together; and the parities that AVX2 carried over from the rows of
\* the last round are those of the columns of this copy, although it was never
\* read as a whole.
RoundsFollowKeccak ==
  kpc = "theta" =>
    /\ \A w \in DOMAIN AE[Cur][0] :
         /\ ref[w].rounds = round
         /\ [i \in Lanes |-> AE[Cur][i][w]] = ref[w].s
    /\ simd => \A x \in 0 .. 4 : C[x] = Parity(AE[Cur], x)

\* In memory a state has had its 24 rounds, with none of the four exchanged for
\* another, or has not been touched before its turn; and the bytes that are read
\* back are those of the state string of FIPS 202, on a machine of either byte
\* order.
PermutesEach ==
  kpc \in {"load", "extract", "end"} =>
    \A w \in Ways :
      /\ ref[w].rounds = IF kpc # "load" \/ w < way THEN 24 ELSE 0
      /\ [i \in Lanes |-> mem[25 * w + i]] = ref[w].s
      /\ kpc = "end" => \A i \in DOMAIN read[w] :
           read[w][i] = {b \in 0 .. 7 : LET k == 8 * (block.offset + i - 1) + b
                                       IN  k % 64 \in ref[w].s[k \div 64]}
===============================================================================
