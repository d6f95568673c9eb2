------------------------------- MODULE SignProgram -------------------------------
(***************************************************************************)
(* Key generation, signing and verification as the sequences of calls that *)
(* sign.c makes to polyvec.c and packing.c, and these to poly.c.  A        *)
(* program is a sequence of steps:                                         *)
(*                                                                         *)
(*   call, return   the requires and the ensures clauses of a function     *)
(*   work           what a function of poly.c does to polynomials          *)
(*   decide         a rejection, on to another step, or past it            *)
(*   head           where the rejection loop of signing starts again       *)
(***************************************************************************)
EXTENDS Contracts, Sequences, SequencesExt

Vector(name, len) == [i \in 1 .. len |-> <<name, i - 1>>]
Veck(name) == Vector(name, K)
Vecl(name) == Vector(name, L)
Poly(name) == <<name, 0>>
Matrix == [i \in 1 .. K |-> [j \in 1 .. L |-> <<"mat", (i - 1) * L + (j - 1)>>]]

Call(fn, c) == [kind |-> "call", fn |-> fn, given |-> c.given, clauses |-> c.requires,
                sums |-> c.sums]
Return(fn, clauses) == [kind |-> "return", fn |-> fn, clauses |-> clauses]
Work(op, out, in, arg) == [kind |-> "work", op |-> op, out |-> out, in |-> in, arg |-> arg]
Produce(out, interval) == Work("produce", out, <<>>, interval)
Decide(clauses, to) == [kind |-> "decide", clauses |-> clauses, to |-> to]

Function(fn, c, body) == <<Call(fn, c)>> \o body \o <<Return(fn, c.ensures)>>

Each(v, F(_)) == FlattenSeq([i \in DOMAIN v |-> F(v[i])])       \* a loop over a vector
Each2(u, v, F(_, _)) == FlattenSeq([i \in DOMAIN v |-> F(u[i], v[i])])
Each3(u, v, w, F(_, _, _)) == FlattenSeq([i \in DOMAIN v |-> F(u[i], v[i], w[i])])

-------------------------------------------------------------------------------
(***************************************************************************)
(* poly.c.                                                                 *)
(***************************************************************************)
poly_reduce(a) == Function("poly_reduce", poly_reduce_h(a), <<Work("reduce", a, <<a>>, 0)>>)

poly_caddq(a) == Function("poly_caddq", poly_caddq_h(a), <<Work("caddq", a, <<a>>, 0)>>)

poly_add(r, b) == Function("poly_add", poly_add_h(r, b), <<Work("add", r, <<r, b>>, 0)>>)

poly_sub(r, b) == Function("poly_sub", poly_sub_h(r, b), <<Work("sub", r, <<r, b>>, 0)>>)

poly_shiftl(a) == Function("poly_shiftl", poly_shiftl_h(a), <<Work("shiftl", a, <<a>>, 0)>>)

\* The native transforms are assembly.  Of the forward one only the bound that
\* poly.c asserts behind it is used; the inverse one leaves up to par.intt.
poly_ntt(a) ==
  Function("poly_ntt", poly_ntt_h(a),
           IF par.backend = "c" THEN <<Work("ntt", a, <<a>>, 0)>> ELSE <<Produce(a, NttOutput)>>)

poly_invntt_tomont(a) ==
  Function("poly_invntt_tomont", poly_invntt_tomont_h(a),
           <<Produce(a, Interval(-par.intt, par.intt))>>)

poly_pointwise_montgomery(c, a, b) ==
  Function("poly_pointwise_montgomery", poly_pointwise_montgomery_h(c, a, b),
           <<Work("montgomery", c, <<a, b>>, 1)>>)

poly_power2round(a1, a0, a) ==
  Function("poly_power2round", poly_power2round_h(a1, a0, a),
           <<Work("power2round", a1, <<a>>, 0), Produce(a0, Power2RoundLow)>>)

poly_decompose(a1, a0, a) ==
  Function("poly_decompose", poly_decompose_h(a1, a0, a),
           <<Produce(a1, Interval(0, (Q - 1) \div (2 * GAMMA2) - 1)),
             Produce(a0, Interval(-GAMMA2, GAMMA2))>>)

poly_make_hint(h) == Function("poly_make_hint", poly_make_hint_h(h), <<Produce(h, Interval(0, 1))>>)

poly_use_hint(b, a, h) ==
  Function("poly_use_hint", poly_use_hint_h(b, a, h),
           <<Produce(b, Interval(0, (Q - 1) \div (2 * GAMMA2) - 1))>>)

poly_chknorm(a, B) == Function("poly_chknorm", poly_chknorm_h(a, B), <<>>)

poly_uniform(a) == Function("poly_uniform", poly_uniform_h(a), <<Produce(a, Interval(0, Q - 1))>>)

poly_uniform_4x(v) ==
  Function("poly_uniform_4x", poly_uniform_4x_h(v),
           Each(v, LAMBDA a : <<Produce(a, Interval(0, Q - 1))>>))

poly_uniform_eta_4x(v) ==
  Function("poly_uniform_eta_4x", poly_uniform_eta_4x_h(v),
           Each(v, LAMBDA a : <<Produce(a, Interval(-ETA, ETA))>>))

poly_challenge(c) ==
  Function("poly_challenge", poly_challenge_h(c), <<Produce(c, Interval(-1, 1))>>)

\* A coefficient, subtracted from base, goes into a field of some bits.
Packed == <<"field", 0>>

Pack(fn, c, a, base, bits) ==
  Function(fn, c, <<Work("mirror", Packed, <<a>>, base), Return(fn, {Lies(Packed, Field(bits))})>>)

PackPlain(fn, c, a, bits) == Function(fn, c, <<Return(fn, {Lies(a, Field(bits))})>>)

Unpack(fn, c, r, base, bits) == Function(fn, c, <<Produce(r, Mirror(base, Field(bits)))>>)

EtaBits == IF ETA = 2 THEN 3 ELSE 4
ZBits == IF GAMMA1 = 2 ^ 17 THEN 18 ELSE 20
W1Bits == IF GAMMA2 = (Q - 1) \div 88 THEN 6 ELSE 4

polyeta_pack(a) == Pack("polyeta_pack", polyeta_pack_h(a), a, ETA, EtaBits)
polyeta_unpack(r) == Unpack("polyeta_unpack", polyeta_unpack_h(r), r, ETA, EtaBits)
polyt1_pack(a) == PackPlain("polyt1_pack", polyt1_pack_h(a), a, 10)
polyt1_unpack(r) == Function("polyt1_unpack", polyt1_unpack_h(r), <<Produce(r, Field(10))>>)
polyt0_pack(a) == Pack("polyt0_pack", polyt0_pack_h(a), a, 2 ^ (D - 1), 13)
polyt0_unpack(r) == Unpack("polyt0_unpack", polyt0_unpack_h(r), r, 2 ^ (D - 1), 13)
polyz_pack(a) == Pack("polyz_pack", polyz_pack_h(a), a, GAMMA1, ZBits)
polyz_unpack(r) == Unpack("polyz_unpack", polyz_unpack_h(r), r, GAMMA1, ZBits)
polyw1_pack(a) == PackPlain("polyw1_pack", polyw1_pack_h(a), a, W1Bits)

poly_uniform_gamma1(a) ==
  Function("poly_uniform_gamma1", poly_uniform_gamma1_h(a), polyz_unpack(a))

poly_uniform_gamma1_4x(v) ==
  Function("poly_uniform_gamma1_4x", poly_uniform_gamma1_4x_h(v), Each(v, polyz_unpack))

-------------------------------------------------------------------------------
(***************************************************************************)
(* polyvec.c.                                                              *)
(***************************************************************************)
Entry(i) == Matrix[(i \div L) + 1][(i % L) + 1]

\* Mutation: the entries that the batches do not reach are not sampled.
Bug_polyvec_matrix_expand ==
  LET groups == (K * L) \div 4
  IN  Function("polyvec_matrix_expand", polyvec_matrix_expand_h(Matrix),
        FlattenSeq([g \in 1 .. groups |->
                      poly_uniform_4x([j \in 1 .. 4 |-> Entry(4 * (g - 1) + j - 1)])]))

polyvec_matrix_expand ==
  LET groups == (K * L) \div 4
  IN  Function("polyvec_matrix_expand", polyvec_matrix_expand_h(Matrix),
        FlattenSeq([g \in 1 .. groups |->
                      poly_uniform_4x([j \in 1 .. 4 |-> Entry(4 * (g - 1) + j - 1)])])
          \o FlattenSeq([i \in 1 .. (K * L) % 4 |-> poly_uniform(Entry(4 * groups + i - 1))]))

polyvecl_pointwise_acc_montgomery(w, u, v) ==
  Function("polyvecl_pointwise_acc_montgomery", polyvecl_pointwise_acc_montgomery_h(w, u, v),
           <<Work("acc", w, u \o v, L)>>)

polyvec_matrix_pointwise_montgomery(t, v) ==
  Function("polyvec_matrix_pointwise_montgomery",
           polyvec_matrix_pointwise_montgomery_h(t, Matrix, v),
           Each2(t, Matrix, LAMBDA w, row : polyvecl_pointwise_acc_montgomery(w, row, v)))

polyvecl_uniform_gamma1(v) ==
  Function("polyvecl_uniform_gamma1", polyvecl_uniform_gamma1_h(v),
    CASE L = 4 -> poly_uniform_gamma1_4x(v)
      [] L = 5 -> poly_uniform_gamma1_4x(SubSeq(v, 1, 4)) \o poly_uniform_gamma1(v[5])
      [] L = 7 -> poly_uniform_gamma1_4x(SubSeq(v, 1, 4))
                    \o poly_uniform_gamma1_4x(SubSeq(v, 4, 7)))

polyvecl_reduce(v) == Function("polyvecl_reduce", polyvecl_reduce_h(v), Each(v, poly_reduce))

polyvecl_add(u, v) == Function("polyvecl_add", polyvecl_add_h(u, v), Each2(u, v, poly_add))

polyvecl_ntt(v) == Function("polyvecl_ntt", polyvecl_ntt_h(v), Each(v, poly_ntt))

polyvecl_invntt_tomont(v) ==
  Function("polyvecl_invntt_tomont", polyvecl_invntt_tomont_h(v), Each(v, poly_invntt_tomont))

polyvecl_pointwise_poly_montgomery(r, a, v) ==
  Function("polyvecl_pointwise_poly_montgomery", polyvecl_pointwise_poly_montgomery_h(r, a, v),
           Each2(r, v, LAMBDA c, b : poly_pointwise_montgomery(c, a, b)))

polyvecl_chknorm(v, B) ==
  Function("polyvecl_chknorm", polyvecl_chknorm_h(v, B), Each(v, LAMBDA a : poly_chknorm(a, B)))

polyveck_reduce(v) == Function("polyveck_reduce", polyveck_reduce_h(v), Each(v, poly_reduce))

polyveck_caddq(v) == Function("polyveck_caddq", polyveck_caddq_h(v), Each(v, poly_caddq))

polyveck_add(u, v) == Function("polyveck_add", polyveck_add_h(u, v), Each2(u, v, poly_add))

polyveck_sub(u, v) == Function("polyveck_sub", polyveck_sub_h(u, v), Each2(u, v, poly_sub))

polyveck_shiftl(v) == Function("polyveck_shiftl", polyveck_shiftl_h(v), Each(v, poly_shiftl))

polyveck_ntt(v) == Function("polyveck_ntt", polyveck_ntt_h(v), Each(v, poly_ntt))

polyveck_invntt_tomont(v) ==
  Function("polyveck_invntt_tomont", polyveck_invntt_tomont_h(v), Each(v, poly_invntt_tomont))

polyveck_pointwise_poly_montgomery(r, a, v) ==
  Function("polyveck_pointwise_poly_montgomery", polyveck_pointwise_poly_montgomery_h(r, a, v),
           Each2(r, v, LAMBDA c, b : poly_pointwise_montgomery(c, a, b)))

polyveck_chknorm(v, B) ==
  Function("polyveck_chknorm", polyveck_chknorm_h(v, B), Each(v, LAMBDA a : poly_chknorm(a, B)))

polyveck_power2round(v1, v0, v) ==
  Function("polyveck_power2round", polyveck_power2round_h(v1, v0, v),
           Each3(v1, v0, v, poly_power2round))

polyveck_decompose(v1, v0, v) ==
  Function("polyveck_decompose", polyveck_decompose_h(v1, v0, v),
           Each3(v1, v0, v, poly_decompose))

polyveck_make_hint(h) ==
  Function("polyveck_make_hint", polyveck_make_hint_h(h), Each(h, poly_make_hint))

polyveck_use_hint(w, v, h) ==
  Function("polyveck_use_hint", polyveck_use_hint_h(w, v, h), Each3(w, v, h, poly_use_hint))

polyveck_pack_w1(w1) ==
  Function("polyveck_pack_w1", polyveck_pack_w1_h(w1), Each(w1, polyw1_pack))

polyveck_pack_eta(p) ==
  Function("polyveck_pack_eta", polyveck_pack_eta_h(p), Each(p, polyeta_pack))

polyvecl_pack_eta(p) ==
  Function("polyvecl_pack_eta", polyvecl_pack_eta_h(p), Each(p, polyeta_pack))

polyvecl_pack_z(p) == Function("polyvecl_pack_z", polyvecl_pack_z_h(p), Each(p, polyz_pack))

polyveck_pack_t0(p) == Function("polyveck_pack_t0", polyveck_pack_t0_h(p), Each(p, polyt0_pack))

polyvecl_unpack_eta(p) ==
  Function("polyvecl_unpack_eta", polyvecl_unpack_eta_h(p), Each(p, polyeta_unpack))

polyvecl_unpack_z(z) == Function("polyvecl_unpack_z", polyvecl_unpack_z_h(z), Each(z, polyz_unpack))

polyveck_unpack_eta(p) ==
  Function("polyveck_unpack_eta", polyveck_unpack_eta_h(p), Each(p, polyeta_unpack))

polyveck_unpack_t0(p) ==
  Function("polyveck_unpack_t0", polyveck_unpack_t0_h(p), Each(p, polyt0_unpack))

-------------------------------------------------------------------------------
(***************************************************************************)
(* packing.c.  The hints of a signature are 0 or 1 whatever is unpacked.   *)
(***************************************************************************)
pack_pk(t1) == Function("pack_pk", pack_pk_h(t1), Each(t1, polyt1_pack))

unpack_pk(t1) == Function("unpack_pk", unpack_pk_h(t1), Each(t1, polyt1_unpack))

pack_sk(t0, s1, s2) ==
  Function("pack_sk", pack_sk_h(t0, s1, s2),
           polyvecl_pack_eta(s1) \o polyveck_pack_eta(s2) \o polyveck_pack_t0(t0))

unpack_sk(t0, s1, s2) ==
  Function("unpack_sk", unpack_sk_h(t0, s1, s2),
           polyvecl_unpack_eta(s1) \o polyveck_unpack_eta(s2) \o polyveck_unpack_t0(t0))

pack_sig(z, h) == Function("pack_sig", pack_sig_h(z, h), polyvecl_pack_z(z))

unpack_sig(z, h) ==
  Function("unpack_sig", unpack_sig_h(z, h),
           polyvecl_unpack_z(z) \o Each(h, LAMBDA a : <<Produce(a, Interval(0, 1))>>))

-------------------------------------------------------------------------------
(***************************************************************************)
(* sign.c.                                                                 *)
(***************************************************************************)
\* Batches of four, s1 before s2.  In modes 3 and 5 the last polynomial of the
\* second batch is irrelevant: the third batch starts with it again.
sample_s1_s2(s1, s2) ==
  LET first == CASE K = 4 -> <<1, 5>> [] K = 6 -> <<1, 5, 8>> [] K = 8 -> <<1, 5, 8, 12>>
  IN  Function("sample_s1_s2", Contract({}, {All(s1, EtaBound), All(s2, EtaBound)}),
        Each(first, LAMBDA b : poly_uniform_eta_4x(SubSeq(s1 \o s2, b, b + 3))))

Assign(u, v) == Each2(u, v, LAMBDA a, b : <<Work("copy", a, <<b>>, 0)>>)    \* u = v

crypto_sign_keypair_internal ==
  LET s1 == Vecl("s1")  s1hat == Vecl("s1hat")
      s2 == Veck("s2")  t2 == Veck("t2")  t1 == Veck("t1")  t0 == Veck("t0")
  IN  polyvec_matrix_expand \o sample_s1_s2(s1, s2)
        \o Assign(s1hat, s1) \o polyvecl_ntt(s1hat)
        \o polyvec_matrix_pointwise_montgomery(t1, s1hat)
        \o polyveck_reduce(t1) \o polyveck_invntt_tomont(t1)
        \o polyveck_add(t1, s2)
        \o polyveck_caddq(t1) \o polyveck_power2round(t2, t0, t1)
        \o pack_pk(t2) \o pack_sk(t0, s1, s2)

\* Mutation: the loop of the norm check ends before the last polynomial.
Bug_Norm(v, B) == Decide({All(SubSeq(v, 1, Len(v) - 1), array_abs_bound(B))}, "head")

\* Rejected unless every coefficient is below B in absolute value.
Norm(v, B) == Decide({All(v, array_abs_bound(B))}, "head")

attempt_signature_generation(s1, s2, t0) ==
  LET y == Vecl("y")  z == Vecl("z")  cp == Poly("cp")
      w2 == Veck("w2")  w1 == Veck("w1")  w0 == Veck("w0")  h == Veck("h")
  IN  Function("attempt_signature_generation",
        Contract({Rows(Matrix, Canonical), All(t0, NttOutput), All(s1, NttOutput),
                  All(s2, NttOutput)}, {}),
        polyvecl_uniform_gamma1(y)
          \o Assign(z, y) \o polyvecl_ntt(z)
          \o polyvec_matrix_pointwise_montgomery(w1, z)
          \o polyveck_reduce(w1) \o polyveck_invntt_tomont(w1)
          \o polyveck_caddq(w1) \o polyveck_decompose(w2, w0, w1) \o polyveck_pack_w1(w2)
          \o poly_challenge(cp) \o poly_ntt(cp)
          \o polyvecl_pointwise_poly_montgomery(z, cp, s1) \o polyvecl_invntt_tomont(z)
          \o polyvecl_add(z, y) \o polyvecl_reduce(z)
          \o polyvecl_chknorm(z, GAMMA1 - BETA) \o <<Norm(z, GAMMA1 - BETA)>>
          \o polyveck_pointwise_poly_montgomery(h, cp, s2) \o polyveck_invntt_tomont(h)
          \o polyveck_sub(w0, h) \o polyveck_reduce(w0)
          \o polyveck_chknorm(w0, GAMMA2 - BETA) \o <<Norm(w0, GAMMA2 - BETA)>>
          \o polyveck_pointwise_poly_montgomery(h, cp, t0) \o polyveck_invntt_tomont(h)
          \o polyveck_reduce(h)
          \o polyveck_chknorm(h, GAMMA2) \o <<Norm(h, GAMMA2)>>
          \o polyveck_add(w0, h)
          \o polyveck_make_hint(h) \o <<Decide({}, "head")>>
          \o pack_sig(z, h))

crypto_sign_signature_internal ==
  LET s1 == Vecl("s1")  s2 == Veck("s2")  t0 == Veck("t0")
  IN  unpack_sk(t0, s1, s2) \o polyvec_matrix_expand
        \o polyvecl_ntt(s1) \o polyveck_ntt(s2) \o polyveck_ntt(t0)
        \o <<[kind |-> "head"]>> \o attempt_signature_generation(s1, s2, t0)

crypto_sign_verify_internal ==
  LET z == Vecl("z")  cp == Poly("cp")
      t1 == Veck("t1")  w1 == Veck("w1")  tmp == Veck("tmp")  h == Veck("h")
  IN  unpack_pk(t1) \o unpack_sig(z, h) \o <<Decide({}, "end")>>
        \o polyvecl_chknorm(z, GAMMA1 - BETA)
        \o <<Decide({All(z, array_abs_bound(GAMMA1 - BETA))}, "end")>>
        \o poly_challenge(cp) \o polyvec_matrix_expand
        \o polyvecl_ntt(z) \o polyvec_matrix_pointwise_montgomery(w1, z)
        \o poly_ntt(cp) \o polyveck_shiftl(t1) \o polyveck_ntt(t1)
        \o polyveck_pointwise_poly_montgomery(tmp, cp, t1)
        \o polyveck_sub(w1, tmp) \o polyveck_reduce(w1) \o polyveck_invntt_tomont(w1)
        \o polyveck_caddq(w1) \o polyveck_use_hint(tmp, w1, h) \o polyveck_pack_w1(tmp)
===============================================================================
