----------------------------------- MODULE Ntt -----------------------------------
(***************************************************************************)
(* Multiplication in the ring Z_Q[X] / (X^N + 1) as signing and            *)
(* verification do it: the forward NTT of the operands (ntt.c), their      *)
(* products coefficient by coefficient (poly.c) or accumulated over a row  *)
(* of the matrix (polyvec.c), and the inverse NTT with its final scaling.  *)
(* Additions are never reduced, and a product is reduced by Montgomery's   *)
(* method (reduce.c).  A step is one iteration of an innermost loop.       *)
(*                                                                         *)
(* Coefficients are integers.  That they fit the 32 bits of an int32_t is  *)
(* a property; R stands for 2^32.                                          *)
(***************************************************************************)
EXTENDS Integers

CONSTANTS
  LAYERS,           \* 8
  Pow,              \* the powers of two up to N
  Q, R, QINV,       \* MLDSA_Q, 2^32, and the inverse of Q modulo R
  F,                \* mont^2 / N, the factor of mld_fqscale
  MLD_INTT_BOUND,   \* a bound of what mld_fqscale returns
  L,                \* MLDSA_L
  Zetas,            \* mld_zetas
  ROOT,             \* a primitive 2N-th root of unity modulo Q
  Polynomials,      \* operands that are transformed
  Entries           \* entries of the matrix, which is sampled as its transform

N == Pow[LAYERS]                  \* MLDSA_N

Coefficients == 0 .. N - 1
Polynomial == [Coefficients -> Int]

NttBound == (LAYERS + 1) * Q      \* MLD_NTT_BOUND

\* array_abs_bound and array_bound of cbmc.h
AbsBound(p, from, to, b) == \A x \in Coefficients : from <= x /\ x < to => -b < p[x] /\ p[x] < b
Canonical(p) == \A x \in Coefficients : 0 <= p[x] /\ p[x] < Q

ASSUME NttAssumption ==
  /\ LAYERS \in Nat /\ LAYERS >= 1
  /\ Pow \in [0 .. LAYERS -> Nat] /\ Pow[0] = 1
  /\ \A i \in 0 .. LAYERS - 1 : Pow[i + 1] = 2 * Pow[i]
  /\ \A i \in 0 .. LAYERS : Pow[i] >= 1 /\ Pow[i] * Pow[LAYERS - i] = Pow[LAYERS]
  /\ Q \in Nat /\ Q >= 2 /\ R \in Nat /\ R >= 2 /\ R % 2 = 0
  /\ QINV \in Nat /\ (Q * QINV) % R = 1
  /\ L \in Nat /\ L >= 1
  /\ N * Q <= R \div 2 /\ NttBound <= R \div 2
  /\ L * NttBound <= R \div 2 /\ NttBound * (LAYERS + 1) <= R \div 2
  /\ F \in Nat /\ MLD_INTT_BOUND \in Nat
  /\ Zetas \in [Coefficients -> Int]
  /\ \A x \in Coefficients : -Q < 2 * Zetas[x] /\ 2 * Zetas[x] < Q
  /\ Polynomials \subseteq Polynomial /\ \A p \in Polynomials : AbsBound(p, 0, N, Q)
  /\ Entries \subseteq Polynomial /\ \A p \in Entries : Canonical(p)

\* The multiples of R that are left when a * F is reduced, with any multiple m of
\* Q that an int32_t can name, are below b * R.
ScaledBelow(b) ==
  \A a \in 1 - N * Q .. N * Q - 1, m \in -(R \div 2) .. R \div 2 - 1 :
    LET x == a * F - m * Q
    IN  x % R = 0 => -(b * R) < x /\ x < b * R

ASSUME ScaleAssumption == ScaledBelow(MLD_INTT_BOUND)

VARIABLES
  npc,              \* the loop that runs next
  kind,             \* "acc": a row of the matrix times a vector; "point": two polynomials
  f,                \* the operands: the left factors, then the right factors
  op,               \* the operand that is being transformed
  layer, start, j, k, zeta,
  i, l, sum,        \* the loops over coefficients and over products, and t of the inner one
  h,                \* the product
  given             \* history: the operands at the start

nvars == <<npc, kind, f, op, layer, start, j, k, zeta, i, l, sum, h, given>>

Pairs == IF kind = "acc" THEN L ELSE 1
Operands == 0 .. 2 * Pairs - 1

NttInit ==
  /\ \/ /\ kind = "acc" /\ op = L
        /\ f \in {e \in [0 .. 2 * L - 1 -> Entries \cup Polynomials] :
                    \A o \in 0 .. 2 * L - 1 : e[o] \in IF o < L THEN Entries ELSE Polynomials}
     \/ /\ kind = "point" /\ op = 0
        /\ f \in [0 .. 1 -> Polynomials]
  /\ given = f
  /\ npc = "layer" /\ layer = 1 /\ start = 0 /\ j = 0 /\ k = 1 /\ zeta = 0
  /\ i = 0 /\ l = 0 /\ sum = 0
  /\ h = [x \in Coefficients |-> 0]

-------------------------------------------------------------------------------
(***************************************************************************)
(* reduce.c.                                                               *)
(***************************************************************************)
Signed(u) == IF u >= R \div 2 THEN u - R ELSE u       \* mld_cast_uint32_to_int32

\* Mutation: the multiple of Q is not lifted to a signed number.
Bug_MontgomeryReduce(a) == (a - (((a % R) * QINV) % R) * Q) \div R

MontgomeryReduce(a) ==            \* >> is the floor of a quotient
  (a - Signed(((a % R) * QINV) % R) * Q) \div R

Distance(ly) == Pow[LAYERS - ly]      \* MLDSA_N >> layer, the distance of the butterflies

(***************************************************************************)
(* mld_ntt, mld_ntt_layer and mld_ntt_butterfly_block.                     *)
(***************************************************************************)
NttLayer ==
  /\ npc = "layer" /\ layer <= LAYERS
  /\ k' = Pow[layer - 1] /\ start' = 0 /\ npc' = "block"
  /\ UNCHANGED <<kind, f, op, layer, j, zeta, i, l, sum, h, given>>

NttBlock ==
  /\ npc = "block" /\ start < N
  /\ zeta' = Zetas[k] /\ k' = k + 1 /\ j' = start /\ npc' = "butterfly"
  /\ UNCHANGED <<kind, f, op, layer, start, i, l, sum, h, given>>

NttButterfly ==
  LET p == f[op]
      t == MontgomeryReduce(p[j + Distance(layer)] * zeta)
  IN  /\ npc = "butterfly" /\ j < start + Distance(layer)
      /\ f' = [f EXCEPT ![op] = [p EXCEPT ![j] = p[j] + t, ![j + Distance(layer)] = p[j] - t]]
      /\ j' = j + 1
      /\ UNCHANGED <<npc, kind, op, layer, start, k, zeta, i, l, sum, h, given>>

NttBlockEnd ==
  /\ npc = "butterfly" /\ j >= start + Distance(layer)
  /\ start' = start + 2 * Distance(layer) /\ npc' = "block"
  /\ UNCHANGED <<kind, f, op, layer, j, k, zeta, i, l, sum, h, given>>

NttLayerEnd ==
  /\ npc = "block" /\ start >= N
  /\ layer' = layer + 1 /\ npc' = "layer"
  /\ UNCHANGED <<kind, f, op, start, j, k, zeta, i, l, sum, h, given>>

NttEnd ==                         \* on to the next operand, or to the products
  /\ npc = "layer" /\ layer > LAYERS
  /\ IF op + 1 < 2 * Pairs THEN op' = op + 1 /\ npc' = "layer"
                           ELSE op' = op /\ npc' = "product"
  /\ layer' = 1 /\ i' = 0 /\ l' = 0 /\ sum' = 0
  /\ UNCHANGED <<kind, f, start, j, k, zeta, h, given>>

(***************************************************************************)
(* mld_polyvecl_pointwise_acc_montgomery and, with one pair of factors,    *)
(* mld_poly_pointwise_montgomery.                                          *)
(***************************************************************************)
Accumulate64 ==
  /\ npc = "product" /\ i < N /\ l < Pairs
  /\ sum' = sum + f[l][i] * f[Pairs + l][i]
  /\ l' = l + 1
  /\ UNCHANGED <<npc, kind, f, op, layer, start, j, k, zeta, i, h, given>>

ReduceSum ==
  /\ npc = "product" /\ i < N /\ l = Pairs
  /\ h' = [h EXCEPT ![i] = MontgomeryReduce(sum)]
  /\ i' = i + 1 /\ l' = 0 /\ sum' = 0
  /\ UNCHANGED <<npc, kind, f, op, layer, start, j, k, zeta, given>>

ProductEnd ==
  /\ npc = "product" /\ i >= N
  /\ npc' = "invlayer" /\ layer' = LAYERS
  /\ UNCHANGED <<kind, f, op, start, j, k, zeta, i, l, sum, h, given>>

(***************************************************************************)
(* mld_invntt_tomont, mld_invntt_layer and mld_fqscale.                    *)
(***************************************************************************)
InvLayer ==
  /\ npc = "invlayer" /\ layer >= 1
  /\ k' = Pow[layer] - 1 /\ start' = 0 /\ npc' = "invblock"
  /\ UNCHANGED <<kind, f, op, layer, j, zeta, i, l, sum, h, given>>

\* Mutation: the twiddle factors are used in the order of the forward NTT.
Bug_InvBlock ==
  /\ npc = "invblock" /\ start < N
  /\ zeta' = -Zetas[(Pow[layer] - 1) - k + Pow[layer - 1]] /\ k' = k - 1 /\ j' = start
  /\ npc' = "invbutterfly"
  /\ UNCHANGED <<kind, f, op, layer, start, i, l, sum, h, given>>

InvBlock ==
  /\ npc = "invblock" /\ start < N
  /\ zeta' = -Zetas[k] /\ k' = k - 1 /\ j' = start /\ npc' = "invbutterfly"
  /\ UNCHANGED <<kind, f, op, layer, start, i, l, sum, h, given>>

InvButterfly ==
  LET t == h[j]
      u == h[j + Distance(layer)]
  IN  /\ npc = "invbutterfly" /\ j < start + Distance(layer)
      /\ h' = [h EXCEPT ![j] = t + u, ![j + Distance(layer)] = MontgomeryReduce((t - u) * zeta)]
      /\ j' = j + 1
      /\ UNCHANGED <<npc, kind, f, op, layer, start, k, zeta, i, l, sum, given>>

InvBlockEnd ==
  /\ npc = "invbutterfly" /\ j >= start + Distance(layer)
  /\ start' = start + 2 * Distance(layer) /\ npc' = "invblock"
  /\ UNCHANGED <<kind, f, op, layer, j, k, zeta, i, l, sum, h, given>>

InvLayerEnd ==
  /\ npc = "invblock" /\ start >= N
  /\ layer' = layer - 1 /\ npc' = "invlayer"
  /\ UNCHANGED <<kind, f, op, start, j, k, zeta, i, l, sum, h, given>>

InvEnd ==
  /\ npc = "invlayer" /\ layer < 1
  /\ j' = 0 /\ npc' = "scale"
  /\ UNCHANGED <<kind, f, op, layer, start, k, zeta, i, l, sum, h, given>>

Scale ==
  /\ npc = "scale" /\ j < N
  /\ h' = [h EXCEPT ![j] = MontgomeryReduce(h[j] * F)]
  /\ j' = j + 1
  /\ UNCHANGED <<npc, kind, f, op, layer, start, k, zeta, i, l, sum, given>>

ScaleEnd ==
  /\ npc = "scale" /\ j >= N
  /\ npc' = "end"
  /\ UNCHANGED <<kind, f, op, layer, start, j, k, zeta, i, l, sum, h, given>>

NttNext ==
  \/ NttLayer \/ NttBlock \/ NttButterfly \/ NttBlockEnd \/ NttLayerEnd \/ NttEnd
  \/ Accumulate64 \/ ReduceSum \/ ProductEnd
  \/ InvLayer \/ InvBlock \/ InvButterfly \/ InvBlockEnd \/ InvLayerEnd \/ InvEnd
  \/ Scale \/ ScaleEnd

NttSpec == NttInit /\ [][NttNext]_nvars

-------------------------------------------------------------------------------
(***************************************************************************)
(* The transform of FIPS 204, section 7.5: the values at the N primitive   *)
(* 2N-th roots of unity, in bit-reversed order.                            *)
(***************************************************************************)
Total(n, g) ==                    \* g[0] + ... + g[n - 1]
  LET to[m \in Nat] == IF m = 0 THEN 0 ELSE to[m - 1] + g[m - 1]
  IN  to[n]

BitRev(x) == Total(LAYERS, [b \in 0 .. LAYERS - 1 |-> ((x \div Pow[b]) % 2) * Pow[LAYERS - 1 - b]])

RootPower[e \in 0 .. 2 * N - 1] == IF e = 0 THEN 1 ELSE (RootPower[e - 1] * ROOT) % Q

Weight(x, n) == RootPower[(n * (2 * BitRev(x) + 1)) % (2 * N)]

Transform(p) ==
  [x \in Coefficients |->
     Total(N, [n \in Coefficients |-> p[n] * Weight(x, n)]) % Q]

(***************************************************************************)
(* What the tables hold: mld_zetas the powers of the root in bit-reversed  *)
(* order, in Montgomery form, and mld_fqscale's factor mont^2 / N.         *)
(***************************************************************************)
ASSUME RootAssumption ==
  /\ ROOT \in Nat /\ RootPower[N] = Q - 1
  /\ \A x \in Coefficients \ {0} : (Zetas[x] - R * RootPower[BitRev(x)]) % Q = 0
  /\ (F * N - R * R) % Q = 0

Negacyclic(p, q) ==               \* the product of polynomials with X^N = -1
  [x \in Coefficients |->
     Total(N, [n \in Coefficients |-> IF n <= x THEN p[n] * q[x - n] ELSE -p[n] * q[N + x - n]]) % Q]

Modulo(p) == [x \in Coefficients |-> p[x] % Q]

-------------------------------------------------------------------------------
(***************************************************************************)
(* Properties.                                                             *)
(***************************************************************************)
\* The indices stay in range and the coefficients within the loop invariants of
\* ntt.c and polyvec.c, in whatever order a layer has reached them.
NttIndices ==
  /\ kind \in {"acc", "point"} /\ op \in Operands
  /\ layer \in 0 .. LAYERS + 1 /\ start \in Nat /\ j \in Nat /\ k \in Int
  /\ i \in Nat /\ l \in 0 .. Pairs /\ zeta \in Int /\ sum \in Int
  /\ f \in [Operands -> Polynomial] /\ h \in Polynomial

Forward == npc \in {"layer", "block", "butterfly"}

Ready(o) ==                       \* a factor that waits, or that is ready
  IF kind = "acc" /\ o < L THEN Canonical(f[o])
  ELSE AbsBound(f[o], 0, N, IF o < op \/ ~Forward THEN NttBound ELSE Q)

ForwardBounds ==
  LET p == f[op]
      len == Distance(layer)
      old == layer * Q
      new == (layer + 1) * Q
  IN  /\ npc = "layer" => layer >= 1 /\ AbsBound(p, 0, N, old)
      /\ npc \in {"block", "butterfly"} => layer \in 1 .. LAYERS
      /\ npc = "block" =>
           /\ 2 * len * k = start + N /\ start <= N
           /\ AbsBound(p, 0, start, new) /\ AbsBound(p, start, N, old)
      /\ npc = "butterfly" =>
           /\ 2 * len * k = start + N + 2 * len /\ start + 2 * len <= N
           /\ start <= j /\ j <= start + len
           /\ -Q < 2 * zeta /\ 2 * zeta < Q
           /\ AbsBound(p, 0, j, new) /\ AbsBound(p, j, start + len, old)
           /\ AbsBound(p, start + len, j + len, new) /\ AbsBound(p, j + len, N, old)

ProductBounds ==
  npc = "product" =>
    /\ i <= N /\ AbsBound(h, 0, i, Q)
    /\ kind = "acc" => /\ sum <= l * ((Q - 1) * (NttBound - 1))
                       /\ -sum <= l * ((Q - 1) * (NttBound - 1))
    /\ kind = "point" => /\ sum <= l * ((NttBound - 1) * (NttBound - 1))
                         /\ -sum <= l * ((NttBound - 1) * (NttBound - 1))

InverseBounds ==
  LET len == Distance(layer)
      old == len * Q
      new == 2 * len * Q
  IN  /\ npc \in {"invlayer", "invblock", "invbutterfly"} => layer <= LAYERS
      /\ npc = "invlayer" => AbsBound(h, 0, N, old)
      /\ npc \in {"invblock", "invbutterfly"} => layer >= 1
      /\ npc = "invblock" =>
           /\ 2 * len * k + start = 2 * N - 2 * len /\ start <= N
           /\ AbsBound(h, 0, start, new) /\ AbsBound(h, start, N, old)
      /\ npc = "invbutterfly" =>
           /\ 2 * len * k + start = 2 * N - 4 * len /\ start + 2 * len <= N
           /\ start <= j /\ j <= start + len
           /\ -Q < 2 * zeta /\ 2 * zeta < Q
           /\ AbsBound(h, 0, j, new) /\ AbsBound(h, j, start + len, old)
           /\ AbsBound(h, start + len, j + len, new) /\ AbsBound(h, j + len, N, old)

ScaleBounds ==
  /\ npc = "scale" => /\ j <= N /\ AbsBound(h, j, N, N * Q)
                      /\ AbsBound(h, 0, j, MLD_INTT_BOUND)
  /\ npc = "end" => AbsBound(h, 0, N, MLD_INTT_BOUND)

\* No addition of the transforms, none of them followed by a reduction, leaves
\* the range of its loop invariant, and hence of an int32_t; the accumulated
\* products stay in the domain in which Montgomery's reduction is below Q; and
\* no twiddle factor is read outside of the table.
NttInBounds ==
  /\ NttIndices
  /\ \A o \in Operands : (Forward /\ o = op) \/ Ready(o)
  /\ ForwardBounds /\ ProductBounds /\ InverseBounds /\ ScaleBounds
  /\ npc = "block" /\ start < N => k \in Coefficients
  /\ npc = "invblock" /\ start < N => k \in Coefficients

\* A transformed operand has the values of the polynomial at the roots of unity,
\* in the order of FIPS 204; and what the inverse leaves, without the factors
\* that Montgomery's reductions bring in, is the product in the ring: of the two
\* polynomials, or of a row of the matrix, given as transforms, and the vector.
ProductIsNegacyclic ==
  /\ npc = "layer" /\ layer > LAYERS => Modulo(f[op]) = Transform(given[op])
  /\ npc = "end" =>
       /\ kind = "point" => Modulo(h) = Negacyclic(given[0], given[1])
       /\ kind = "acc" =>
            Transform(h) = [x \in Coefficients |->
              Total(L, [o \in 0 .. L - 1 |-> given[o][x] * Transform(given[L + o])[x]]) % Q]
===============================================================================
