-------------------------------- MODULE Contracts --------------------------------
(***************************************************************************)
(* The __contract__ clauses of poly.h, polyvec.h and packing.h that bound  *)
(* coefficients: what a function may be called with, and what it promises  *)
(* its caller.  A name here is that of the function, without mld_, and _h. *)
(*                                                                         *)
(* A polynomial is a pair: the name of the vector, and the index in it.  A *)
(* vector is a sequence of polynomials, the matrix a sequence of vectors.  *)
(***************************************************************************)
EXTENDS Intervals

VARIABLE par        \* the build, which never changes: K, L, ETA, GAMMA1, GAMMA2, BETA, the
                    \* backend, and the bound intt of its inverse NTT

K == par.K
L == par.L
ETA == par.ETA
GAMMA1 == par.GAMMA1
GAMMA2 == par.GAMMA2
BETA == par.BETA

\* cbmc.h: array_bound excludes the upper end, array_abs_bound both.
array_bound(lo, hi) == Interval(lo, hi - 1)
array_abs_bound(b) == Interval(-b + 1, b - 1)

Lies(p, bound) == [polys |-> {p}, bound |-> bound]             \* one polynomial
All(v, bound) == [polys |-> {v[i] : i \in DOMAIN v}, bound |-> bound]
Rows(A, bound) ==
  [polys |-> UNION {{A[i][j] : j \in DOMAIN A[i]} : i \in DOMAIN A}, bound |-> bound]
SumOf(u, v, bound) == [left |-> u, right |-> v, bound |-> bound] \* u[i] + v[i], as an integer

Contract(requires, ensures) ==
  [given |-> TRUE, requires |-> requires, sums |-> {}, ensures |-> ensures]
WithSum(c, s) == [c EXCEPT !.sums = {s}]
Given(c, condition) == [c EXCEPT !.given = condition]          \* on the other arguments

-------------------------------------------------------------------------------
(***************************************************************************)
(* poly.h.                                                                 *)
(***************************************************************************)
Reduced == array_bound(-REDUCE32_RANGE_MAX, REDUCE32_RANGE_MAX)
Reducible == array_bound(INT32_MIN, REDUCE32_DOMAIN_MAX)
Canonical == array_bound(0, Q)
BelowQ == array_abs_bound(Q)
NttOutput == array_abs_bound(MLD_NTT_BOUND)
InttOutput == array_abs_bound(MLD_INTT_BOUND)
HighBits == array_bound(0, (Q - 1) \div (2 * GAMMA2))
LowBits == array_abs_bound(GAMMA2 + 1)
T0Bound == array_bound(-(2 ^ (D - 1)) + 1, 2 ^ (D - 1) + 1)
T1Bound == array_bound(0, 2 ^ 10)
ZBound == array_bound(-(GAMMA1 - 1), GAMMA1 + 1)
EtaBound == array_abs_bound(ETA + 1)
Bit == array_bound(0, 2)

MLD_POLYETA_UNPACK_LOWER_BOUND == IF ETA = 2 THEN -5 ELSE -11
UnpackedEta == array_bound(MLD_POLYETA_UNPACK_LOWER_BOUND, ETA + 1)

NormBound(B) == 0 <= B /\ B <= (Q - 1) \div 8

poly_reduce_h(a) == Contract({Lies(a, Reducible)}, {Lies(a, Reduced)})

poly_caddq_h(a) == Contract({Lies(a, BelowQ)}, {Lies(a, Canonical)})

poly_add_h(r, b) == WithSum(Contract({}, {Lies(r, Reducible)}), SumOf(<<r>>, <<b>>, Reducible))

poly_sub_h(r, b) == Contract({Lies(r, BelowQ), Lies(b, BelowQ)}, {Lies(r, Reducible)})

poly_shiftl_h(a) == Contract({Lies(a, T1Bound)}, {Lies(a, Canonical)})

poly_ntt_h(a) == Contract({Lies(a, BelowQ)}, {Lies(a, NttOutput)})

poly_invntt_tomont_h(a) == Contract({Lies(a, BelowQ)}, {Lies(a, InttOutput)})

poly_pointwise_montgomery_h(c, a, b) ==
  Contract({Lies(a, NttOutput), Lies(b, NttOutput)}, {Lies(c, BelowQ)})

poly_power2round_h(a1, a0, a) ==
  Contract({Lies(a, Canonical)},
           {Lies(a0, T0Bound), Lies(a1, array_bound(0, ((Q - 1) \div 2 ^ D) + 1))})

poly_decompose_h(a1, a0, a) ==
  Contract({Lies(a, Canonical)}, {Lies(a1, HighBits), Lies(a0, LowBits)})

poly_make_hint_h(h) == Contract({}, {Lies(h, Bit)})

poly_use_hint_h(b, a, h) == Contract({Lies(a, Canonical), Lies(h, Bit)}, {Lies(b, HighBits)})

poly_chknorm_h(a, B) == Given(Contract({Lies(a, Reduced)}, {}), NormBound(B))

poly_uniform_h(a) == Contract({}, {Lies(a, Canonical)})
poly_uniform_4x_h(v) == Contract({}, {All(v, Canonical)})
poly_uniform_eta_4x_h(v) == Contract({}, {All(v, EtaBound)})
poly_uniform_gamma1_h(a) == Contract({}, {Lies(a, ZBound)})
poly_uniform_gamma1_4x_h(v) == Contract({}, {All(v, ZBound)})
poly_challenge_h(c) == Contract({}, {Lies(c, array_bound(-1, 2))})

polyeta_pack_h(a) == Contract({Lies(a, EtaBound)}, {})
polyeta_unpack_h(r) == Contract({}, {Lies(r, UnpackedEta)})
polyt1_pack_h(a) == Contract({Lies(a, T1Bound)}, {})
polyt1_unpack_h(r) == Contract({}, {Lies(r, T1Bound)})
polyt0_pack_h(a) == Contract({Lies(a, T0Bound)}, {})
polyt0_unpack_h(r) == Contract({}, {Lies(r, T0Bound)})
polyz_pack_h(a) == Contract({Lies(a, ZBound)}, {})
polyz_unpack_h(r) == Contract({}, {Lies(r, ZBound)})
polyw1_pack_h(a) == Contract({Lies(a, HighBits)}, {})

-------------------------------------------------------------------------------
(***************************************************************************)
(* polyvec.h.                                                              *)
(***************************************************************************)
polyvecl_uniform_gamma1_h(v) == Contract({}, {All(v, ZBound)})
polyvecl_reduce_h(v) == Contract({All(v, Reducible)}, {All(v, Reduced)})
polyvecl_add_h(u, v) == WithSum(Contract({}, {All(u, Reducible)}), SumOf(u, v, Reducible))
polyvecl_ntt_h(v) == Contract({All(v, BelowQ)}, {All(v, NttOutput)})
polyvecl_invntt_tomont_h(v) == Contract({All(v, BelowQ)}, {All(v, InttOutput)})
polyvecl_chknorm_h(v, B) == Given(Contract({All(v, Reduced)}, {}), NormBound(B))

polyvecl_pointwise_poly_montgomery_h(r, a, v) ==
  Contract({Lies(a, NttOutput), All(v, NttOutput)}, {All(r, BelowQ)})

polyvecl_pointwise_acc_montgomery_h(w, u, v) ==
  Contract({All(u, Canonical), All(v, NttOutput)}, {Lies(w, BelowQ)})

polyveck_reduce_h(v) == Contract({All(v, Reducible)}, {All(v, Reduced)})
polyveck_caddq_h(v) == Contract({All(v, BelowQ)}, {All(v, Canonical)})
polyveck_add_h(u, v) == WithSum(Contract({}, {}), SumOf(u, v, Reducible))
polyveck_sub_h(u, v) == Contract({All(u, BelowQ), All(v, BelowQ)}, {All(u, Reducible)})
polyveck_shiftl_h(v) == Contract({All(v, T1Bound)}, {All(v, Canonical)})
polyveck_ntt_h(v) == Contract({All(v, BelowQ)}, {All(v, NttOutput)})
polyveck_invntt_tomont_h(v) == Contract({All(v, BelowQ)}, {All(v, InttOutput)})
polyveck_chknorm_h(v, B) == Given(Contract({All(v, Reduced)}, {}), NormBound(B))

polyveck_pointwise_poly_montgomery_h(r, a, v) ==
  Contract({Lies(a, NttOutput), All(v, NttOutput)}, {All(r, BelowQ)})

polyveck_power2round_h(v1, v0, v) ==
  Contract({All(v, Canonical)},
           {All(v0, T0Bound), All(v1, array_bound(0, ((Q - 1) \div 2 ^ D) + 1))})

polyveck_decompose_h(v1, v0, v) ==
  Contract({All(v, Canonical)}, {All(v1, HighBits), All(v0, LowBits)})

polyveck_make_hint_h(h) == Contract({}, {All(h, Bit)})

polyveck_use_hint_h(w, v, h) ==
  Contract({All(v, Canonical), All(h, Bit)}, {All(w, HighBits)})

polyveck_pack_w1_h(w1) == Contract({All(w1, HighBits)}, {})
polyveck_pack_eta_h(p) == Contract({All(p, EtaBound)}, {})
polyvecl_pack_eta_h(p) == Contract({All(p, EtaBound)}, {})
polyvecl_pack_z_h(p) == Contract({All(p, ZBound)}, {})
polyveck_pack_t0_h(p) == Contract({All(p, T0Bound)}, {})
polyvecl_unpack_eta_h(p) == Contract({}, {All(p, UnpackedEta)})
polyvecl_unpack_z_h(z) == Contract({}, {All(z, ZBound)})
polyveck_unpack_eta_h(p) == Contract({}, {All(p, UnpackedEta)})
polyveck_unpack_t0_h(p) == Contract({}, {All(p, T0Bound)})
polyvec_matrix_expand_h(mat) == Contract({}, {Rows(mat, Canonical)})

polyvec_matrix_pointwise_montgomery_h(t, mat, v) ==
  Contract({Rows(mat, Canonical), All(v, NttOutput)}, {All(t, BelowQ)})

-------------------------------------------------------------------------------
(***************************************************************************)
(* packing.h.                                                              *)
(***************************************************************************)
pack_pk_h(t1) == Contract({All(t1, T1Bound)}, {})

pack_sk_h(t0, s1, s2) ==
  Contract({All(t0, T0Bound), All(s1, EtaBound), All(s2, EtaBound)}, {})

pack_sig_h(z, h) == Contract({All(z, ZBound), All(h, Bit)}, {})

unpack_pk_h(t1) == Contract({}, {All(t1, T1Bound)})

unpack_sk_h(t0, s1, s2) ==
  Contract({}, {All(t0, T0Bound), All(s1, UnpackedEta), All(s2, UnpackedEta)})

unpack_sig_h(z, h) == Contract({}, {All(z, ZBound), All(h, Bit)})
===============================================================================
