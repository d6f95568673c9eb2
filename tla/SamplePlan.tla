------------------------------ MODULE SamplePlan ------------------------------
(***************************************************************************)
(* Which 16-bit nonce each polynomial of a sampled vector is expanded      *)
(* from.  The 4-way samplers always fill four polynomials, so a vector     *)
(* whose length is not a multiple of four needs a call with a lane that is *)
(* "irrelevant": it gets the nonce 0xFF, and its polynomial has to be      *)
(* overwritten by a later call.                                            *)
(*                                                                         *)
(* A vector is a function from indices to the nonce its polynomial came    *)
(* from; a call of a sampler overwrites some of its entries.               *)
(***************************************************************************)
EXTENDS Integers

CONSTANT UINT16_MAX     \* the largest uint16_t: 65535, smaller in TLC runs

ASSUME Uint16Assumption == UINT16_MAX \in Nat

U16(x) == x % (UINT16_MAX + 1)

IRRELEVANT == 255       \* the 0xFF of an irrelevant lane

(***************************************************************************)
(* The vector v after a call that wrote the polynomials in DOMAIN lanes.   *)
(***************************************************************************)
Overwrite(v, lanes) == [i \in DOMAIN v |-> IF i \in DOMAIN lanes THEN lanes[i] ELSE v[i]]

(***************************************************************************)
(* poly_uniform_gamma1_4x into the four polynomials from `at` on.  Each    *)
(* nonce parameter is a uint16_t.                                          *)
(***************************************************************************)
FourLanes(at, n0, n1, n2, n3) ==
  [i \in at .. at + 3 |-> U16(CASE i = at     -> n0
                                [] i = at + 1 -> n1
                                [] i = at + 2 -> n2
                                [] OTHER      -> n3)]

OneLane(at, n) == [i \in {at} |-> U16(n)]

(***************************************************************************)
(* polyvecl_uniform_gamma1 on the uninitialised vector v.                  *)
(***************************************************************************)
\* Mutation: the last four polynomials of L = 7 are not sampled.
Bug_SecondCallOmitted(L, v, nonce) ==
  LET n == U16(L * nonce)
  IN  Overwrite(v, FourLanes(0, n, n + 1, n + 2, IRRELEVANT))

UniformGamma1(L, v, nonce) ==
  LET n == U16(L * nonce)
      firstFour == Overwrite(v, FourLanes(0, n, n + 1, n + 2, n + 3))
  IN  CASE L = 4 -> firstFour
        [] L = 5 -> Overwrite(firstFour, OneLane(4, n + 4))
        [] L = 7 -> Overwrite(Overwrite(v, FourLanes(0, n, n + 1, n + 2, IRRELEVANT)),
                              FourLanes(3, n + 3, n + 4, n + 5, n + 6))
===============================================================================
