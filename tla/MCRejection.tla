------------------------------ MODULE MCRejection ------------------------------
(***************************************************************************)
(* The samplers in the small, each of three coefficients for two streams   *)
(* and for every backend.  uniform: two blocks of four candidates at       *)
(* first; AVX2 vectors of two whose loads need three, and AArch64          *)
(* iterations of two vectors with a tail of one.  eta: half bytes, one     *)
(* block of three bytes at first; iterations of two vectors.  For AArch64  *)
(* a block is two bytes, and a sampler of one polynomial has a buffer for  *)
(* two iterations and a tail.  Refills follow; the rejections allowed are  *)
(* enough for the first buffer of a stream to be rejected altogether.      *)
(***************************************************************************)
EXTENDS RejSampler

uniform(b) == [backend |-> b, N |-> 3, Ways |-> 2, Block |-> 4, NBlocks |-> 2, Unit |-> 1,
               Lanes |-> 2, Groups |-> 1, Tail |-> 0, Ahead |-> 3, Width |-> 4,
               MaxRejects |-> 9]

eta(b) == [backend |-> b, N |-> 3, Ways |-> 2, Block |-> 6, NBlocks |-> 1, Unit |-> 2,
           Lanes |-> 2, Groups |-> 2, Tail |-> 0, Ahead |-> 4, Width |-> 2, MaxRejects |-> 7]

MCSamplers ==
  { uniform("c"), uniform("x86_64"), eta("c"), eta("x86_64"),
    [uniform("aarch64") EXCEPT !.Block = 6, !.NBlocks = 1, !.Groups = 2, !.Tail = 1,
                               !.Ahead = 4, !.MaxRejects = 7],
    [uniform("aarch64") EXCEPT !.Ways = 1, !.Block = 10, !.NBlocks = 1, !.Groups = 2, !.Tail = 1,
                               !.Ahead = 4, !.MaxRejects = 10],
    [eta("aarch64") EXCEPT !.Block = 4, !.MaxRejects = 5] }
===============================================================================
