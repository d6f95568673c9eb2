----------------------------- MODULE MCKeyMaterial -----------------------------
(***************************************************************************)
(* KeyMaterial for ML-DSA-44, ML-DSA-65 and ML-DSA-87.                     *)
(***************************************************************************)
EXTENDS KeyMaterial
===============================================================================
