-------------------------------- MODULE Challenge --------------------------------
(***************************************************************************)
(* mld_poly_challenge of mldsa/poly.c: a polynomial with TAU coefficients  *)
(* of 1 or -1, placed by the bytes of a SHAKE256 stream.  The first bytes  *)
(* of the stream are the signs; each later byte is a place for the next    *)
(* coefficient, and is skipped if it is too large.                         *)
(*                                                                         *)
(* A step is an iteration of the inner loop.  The stream is any stream: a  *)
(* byte is chosen when it is read.                                         *)
(***************************************************************************)
EXTENDS Integers

CONSTANTS
  MLDSA_N,          \* and how many values a byte has
  TAU,              \* MLDSA_TAU
  Rate,             \* SHAKE256_RATE
  Head,             \* bytes of the stream that are signs: 8
  MaxBytes          \* bound on the bytes read from the stream

ASSUME ChallengeAssumption ==
  /\ MLDSA_N \in Nat /\ TAU \in 1 .. MLDSA_N
  /\ Head \in Nat /\ Rate \in Nat /\ Head < Rate
  /\ MaxBytes \in Nat

Coefficients == 0 .. MLDSA_N - 1
Steps == 0 .. TAU - 1               \* the iterations of the outer loop

VARIABLES
  stage,
  signs,            \* the bits of the 64-bit word that the TAU iterations shift out
  cp,               \* the polynomial, c in the code
  next,             \* the counter of the outer loop, i in the code
  offset,           \* next byte of the buffer, pos in the code
  blocks,           \* history: blocks squeezed so far
  read,             \* history: places read so far
  token             \* history: where the coefficient set in each iteration is now

cvars == <<stage, signs, cp, next, offset, blocks, read, token>>

ChallengeInit ==      \* the first block, its signs, and an empty polynomial
  /\ stage = "place"
  /\ signs \in [Steps -> {0, 1}]
  /\ cp = [x \in Coefficients |-> 0]
  /\ next = MLDSA_N - TAU /\ offset = Head /\ blocks = 1
  /\ read = 0 /\ token = [k \in Steps |-> -1]

-------------------------------------------------------------------------------
\* Mutation: a new block has signs of its own.
Bug_SkipsHead ==
  /\ stage = "place" /\ offset >= Rate
  /\ offset' = Head /\ blocks' = blocks + 1
  /\ UNCHANGED <<stage, signs, cp, next, read, token>>

NextBlock ==          \* shake256_squeezeblocks
  /\ stage = "place" /\ offset >= Rate
  /\ offset' = 0 /\ blocks' = blocks + 1
  /\ UNCHANGED <<stage, signs, cp, next, read, token>>

\* Mutation: the end of the block is noticed one byte late.
Bug_ReadsPastBlock ==
  /\ stage = "place" /\ offset <= Rate /\ read < MaxBytes
  /\ read' = read + 1 /\ offset' = offset + 1

ReadByte ==
  /\ stage = "place" /\ offset < Rate /\ read < MaxBytes
  /\ read' = read + 1 /\ offset' = offset + 1

TooLarge ==           \* j > i
  /\ ReadByte
  /\ \E j \in Coefficients : j > next
  /\ UNCHANGED <<stage, signs, cp, next, blocks, token>>

Sign == 1 - 2 * signs[next - (MLDSA_N - TAU)]

Moved(j) == [k \in Steps |-> IF k = next - (MLDSA_N - TAU) THEN j
                             ELSE IF token[k] = j THEN next ELSE token[k]]

\* Mutation: the coefficient that was at j is not moved to i.
Bug_Overwrites ==
  /\ ReadByte
  /\ \E j \in Coefficients :
       /\ j <= next
       /\ cp' = [cp EXCEPT ![j] = Sign]
       /\ token' = Moved(j)
  /\ next' = next + 1
  /\ stage' = (IF next' < MLDSA_N THEN "place" ELSE "done")
  /\ UNCHANGED <<signs, blocks>>

Place ==              \* c[i] = c[j], c[j] = the next sign
  /\ ReadByte
  /\ \E j \in Coefficients :
       /\ j <= next
       /\ cp' = [cp EXCEPT ![next] = cp[j], ![j] = Sign]
       /\ token' = Moved(j)
  /\ next' = next + 1
  /\ stage' = (IF next' < MLDSA_N THEN "place" ELSE "done")
  /\ UNCHANGED <<signs, blocks>>

ChallengeNext == NextBlock \/ TooLarge \/ Place

ChallengeSpec == ChallengeInit /\ [][ChallengeNext]_cvars

-------------------------------------------------------------------------------
(***************************************************************************)
(* Properties.                                                             *)
(***************************************************************************)
\* Every variable has its type, and no read is outside the buffer.
ChallengeTypeOK ==
  /\ stage \in {"place", "done"}
  /\ signs \in [Steps -> {0, 1}]
  /\ cp \in [Coefficients -> {-1, 0, 1}]
  /\ next \in MLDSA_N - TAU .. MLDSA_N /\ (stage = "done" <=> next = MLDSA_N)
  /\ offset \in 0 .. Rate
  /\ blocks \in Nat /\ read \in Nat
  /\ token \in [Steps -> -1 .. MLDSA_N - 1]

Placed == 0 .. next - (MLDSA_N - TAU) - 1     \* the iterations that are over

\* Every iteration adds one coefficient to the ball and none is ever lost: the
\* coefficients set so far are at different places, none of them from next on, each
\* has the sign of its own bit, and all others are 0.  At the end there are TAU.
InBall ==
  /\ \A k \in Placed : token[k] \in 0 .. next - 1 /\ cp[token[k]] = 1 - 2 * signs[k]
  /\ \A k \in Placed : \A l \in Placed : k # l => token[k] # token[l]
  /\ \A x \in Coefficients : cp[x] # 0 => \E k \in Placed : token[k] = x

\* The places are the bytes of the stream after the signs, none skipped and none
\* used twice, across the ends of blocks.
StreamInOrder == (blocks - 1) * Rate + offset = Head + read
===============================================================================
