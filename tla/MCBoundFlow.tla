------------------------------ MODULE MCBoundFlow ------------------------------
(***************************************************************************)
(* The three parameter sets of params.h at their own size, with each of    *)
(* the inverse NTTs.  mld_fqscale leaves less than MLD_INTT_BOUND; the     *)
(* native ones scale in their last layer, and leave up to the bounds given *)
(* here (README, section 5).                                               *)
(***************************************************************************)
EXTENDS BoundFlow

Mode(k, l, eta, gamma1, gamma2, beta) ==
  [K |-> k, L |-> l, ETA |-> eta, GAMMA1 |-> gamma1, GAMMA2 |-> gamma2, BETA |-> beta]

Modes == { Mode(4, 4, 2, 2 ^ 17, (Q - 1) \div 88, 78),
           Mode(6, 5, 4, 2 ^ 19, (Q - 1) \div 32, 196),
           Mode(8, 7, 2, 2 ^ 19, (Q - 1) \div 32, 120) }

Intt == [c |-> 4211138, x86_64 |-> 6175969, aarch64 |-> 6390331]

MCParams ==
  {[K |-> m.K, L |-> m.L, ETA |-> m.ETA, GAMMA1 |-> m.GAMMA1, GAMMA2 |-> m.GAMMA2,
    BETA |-> m.BETA, backend |-> b, intt |-> Intt[b]] : m \in Modes, b \in DOMAIN Intt}
===============================================================================
