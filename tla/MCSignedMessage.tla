---------------------------- MODULE MCSignedMessage ----------------------------
(***************************************************************************)
(* A small instance of SignedMessage.  A message of three bytes is longer  *)
(* than the signature of two, so that source and destination of an         *)
(* in-place copy overlap; two texts let the bytes of one be grafted onto   *)
(* the signature of the other.                                             *)
(***************************************************************************)
EXTENDS SignedMessage

CONSTANTS t1, t2

MCTexts == {t1, t2}
===============================================================================
