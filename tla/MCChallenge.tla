------------------------------ MODULE MCChallenge ------------------------------
(***************************************************************************)
(* An instance of Challenge: four coefficients of six, a byte of signs and *)
(* blocks of three bytes, so that four blocks are read.                    *)
(***************************************************************************)
EXTENDS Challenge
===============================================================================
