------------------------------ MODULE MCHintCodec ------------------------------
(***************************************************************************)
(* An instance of HintCodec: two polynomials of five coefficients, at most *)
(* three ones, and every section of five bytes.                            *)
(***************************************************************************)
EXTENDS HintCodec
===============================================================================
