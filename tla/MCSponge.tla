-------------------------------- MODULE MCSponge --------------------------------
(***************************************************************************)
(* An instance of Sponge with a rate of four bytes, messages of up to      *)
(* three blocks and a byte, and two and a half blocks of output.           *)
(***************************************************************************)
EXTENDS Sponge
===============================================================================
