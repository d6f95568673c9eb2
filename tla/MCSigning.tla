------------------------------- MODULE MCSigning -------------------------------
(***************************************************************************)
(* A small instance of Signing: two key pairs, two messages, one context.  *)
(* L = 7, the parameter set with an irrelevant lane in the mask, and a     *)
(* uint16_t of 0 .. 25 give a rejection loop of two attempts and make the  *)
(* nonces of a fourth attempt wrap.                                        *)
(***************************************************************************)
EXTENDS Signing

CONSTANTS s1, s2, m0, m1, c0

MCSeeds == {s1, s2}
MCMsgs == {m0, m1}
MCShortCtxs == {c0}
===============================================================================
