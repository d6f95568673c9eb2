------------------------------ MODULE CoeffPacking ------------------------------
(***************************************************************************)
(* Where the bits of packed coefficients lie among the bytes: the loop     *)
(* bodies of mld_polyeta_pack, mld_polyt1_pack, mld_polyt0_pack,           *)
(* mld_polyz_pack, mld_polyw1_pack and their unpack functions (poly.c),    *)
(* in each mode.  t are the fields of one iteration, that is the           *)
(* coefficients after the subtraction from ETA, 2^(D-1) or GAMMA1, which   *)
(* is in Coefficient; a are its bytes.                                     *)
(*                                                                         *)
(* A number is the set of its bits that are 1.                             *)
(***************************************************************************)
EXTENDS Integers, Sequences

x \gg n == {b - n : b \in {c \in x : c >= n}}
x \ll n == {b + n : b \in x}
x | y == x \cup y
x & y == x \cap y
Mask(n) == 0 .. n - 1             \* 2^n - 1

FF == Mask(8)

CONSTANT Inputs                   \* [format, fields] records: what may be packed

VARIABLES
  ppc,              \* "pack", "packed" or "unpacked"
  format,           \* what is packed
  t,                \* the fields
  r,                \* the bytes that were packed
  u                 \* the fields that were unpacked

pvars == <<ppc, format, t, r, u>>

Format(group, width) == [group |-> group, width |-> width]

Formats ==          \* coefficients in an iteration, and bits of a coefficient
  [eta2 |-> Format(8, 3), eta4 |-> Format(2, 4), t1 |-> Format(4, 10), t0 |-> Format(8, 13),
   z18 |-> Format(4, 18), z20 |-> Format(2, 20), w6 |-> Format(4, 6), w4 |-> Format(2, 4)]

Group(f) == 0 .. Formats[f].group - 1

Fields(f) == [Group(f) -> SUBSET Mask(Formats[f].width)]

ASSUME PackingAssumption ==
  \A given \in Inputs : given.format \in DOMAIN Formats /\ given.fields \in Fields(given.format)

PackingInit ==
  /\ ppc = "pack"
  /\ \E given \in Inputs : format = given.format /\ t = given.fields
  /\ r = <<>> /\ u = <<>>

FromZero(s) == [x \in 0 .. Len(s) - 1 |-> s[x + 1]]

-------------------------------------------------------------------------------
(***************************************************************************)
(* Packing.                                                                *)
(***************************************************************************)
polyeta_pack_2 ==
  << ((t[0] \gg 0) | (t[1] \ll 3) | (t[2] \ll 6)) & FF,
     ((t[2] \gg 2) | (t[3] \ll 1) | (t[4] \ll 4) | (t[5] \ll 7)) & FF,
     ((t[5] \gg 1) | (t[6] \ll 2) | (t[7] \ll 5)) & FF >>

Nibbles == << (t[0] | (t[1] \ll 4)) & FF >>          \* polyeta_pack, ETA 4; polyw1_pack, 4 bits

polyt1_pack ==
  << t[0] & FF,
     ((t[0] \gg 8) | (t[1] \ll 2)) & FF,
     ((t[1] \gg 6) | (t[2] \ll 4)) & FF,
     ((t[2] \gg 4) | (t[3] \ll 6)) & FF,
     (t[3] \gg 2) & FF >>

polyt0_pack ==
  << t[0] & FF,
     ((t[0] \gg 8) | (t[1] \ll 5)) & FF,
     (t[1] \gg 3) & FF,
     ((t[1] \gg 11) | (t[2] \ll 2)) & FF,
     ((t[2] \gg 6) | (t[3] \ll 7)) & FF,
     (t[3] \gg 1) & FF,
     ((t[3] \gg 9) | (t[4] \ll 4)) & FF,
     (t[4] \gg 4) & FF,
     ((t[4] \gg 12) | (t[5] \ll 1)) & FF,
     ((t[5] \gg 7) | (t[6] \ll 6)) & FF,
     (t[6] \gg 2) & FF,
     ((t[6] \gg 10) | (t[7] \ll 3)) & FF,
     (t[7] \gg 5) & FF >>

polyz_pack_18 ==
  << t[0] & FF,
     (t[0] \gg 8) & FF,
     ((t[0] \gg 16) | (t[1] \ll 2)) & FF,
     (t[1] \gg 6) & FF,
     ((t[1] \gg 14) | (t[2] \ll 4)) & FF,
     (t[2] \gg 4) & FF,
     ((t[2] \gg 12) | (t[3] \ll 6)) & FF,
     (t[3] \gg 2) & FF,
     (t[3] \gg 10) & FF >>

polyz_pack_20 ==
  << t[0] & FF,
     (t[0] \gg 8) & FF,
     ((t[0] \gg 16) | (t[1] \ll 4)) & FF,
     (t[1] \gg 4) & FF,
     (t[1] \gg 12) & FF >>

polyw1_pack_6 ==
  << (t[0] | (t[1] \ll 6)) & FF,
     ((t[1] \gg 2) | (t[2] \ll 4)) & FF,
     ((t[2] \gg 4) | (t[3] \ll 2)) & FF >>

Pack ==
  /\ ppc = "pack"
  /\ r' = FromZero(CASE format = "eta2" -> polyeta_pack_2
                     [] format \in {"eta4", "w4"} -> Nibbles
                     [] format = "t1" -> polyt1_pack
                     [] format = "t0" -> polyt0_pack
                     [] format = "z18" -> polyz_pack_18
                     [] format = "z20" -> polyz_pack_20
                     [] format = "w6" -> polyw1_pack_6)
  /\ ppc' = "packed"
  /\ UNCHANGED <<format, t, u>>

-------------------------------------------------------------------------------
(***************************************************************************)
(* Unpacking.                                                              *)
(***************************************************************************)
polyeta_unpack_2(a) ==
  << (a[0] \gg 0) & Mask(3),
     (a[0] \gg 3) & Mask(3),
     ((a[0] \gg 6) | (a[1] \ll 2)) & Mask(3),
     (a[1] \gg 1) & Mask(3),
     (a[1] \gg 4) & Mask(3),
     ((a[1] \gg 7) | (a[2] \ll 1)) & Mask(3),
     (a[2] \gg 2) & Mask(3),
     (a[2] \gg 5) & Mask(3) >>

polyeta_unpack_4(a) == << a[0] & Mask(4), a[0] \gg 4 >>

polyt1_unpack(a) ==
  << ((a[0] \gg 0) | (a[1] \ll 8)) & Mask(10),
     ((a[1] \gg 2) | (a[2] \ll 6)) & Mask(10),
     ((a[2] \gg 4) | (a[3] \ll 4)) & Mask(10),
     ((a[3] \gg 6) | (a[4] \ll 2)) & Mask(10) >>

polyt0_unpack(a) ==
  << (a[0] | (a[1] \ll 8)) & Mask(13),
     ((a[1] \gg 5) | (a[2] \ll 3) | (a[3] \ll 11)) & Mask(13),
     ((a[3] \gg 2) | (a[4] \ll 6)) & Mask(13),
     ((a[4] \gg 7) | (a[5] \ll 1) | (a[6] \ll 9)) & Mask(13),
     ((a[6] \gg 4) | (a[7] \ll 4) | (a[8] \ll 12)) & Mask(13),
     ((a[8] \gg 1) | (a[9] \ll 7)) & Mask(13),
     ((a[9] \gg 6) | (a[10] \ll 2) | (a[11] \ll 10)) & Mask(13),
     ((a[11] \gg 3) | (a[12] \ll 5)) & Mask(13) >>

polyz_unpack_18(a) ==
  << (a[0] | (a[1] \ll 8) | (a[2] \ll 16)) & Mask(18),
     ((a[2] \gg 2) | (a[3] \ll 6) | (a[4] \ll 14)) & Mask(18),
     ((a[4] \gg 4) | (a[5] \ll 4) | (a[6] \ll 12)) & Mask(18),
     ((a[6] \gg 6) | (a[7] \ll 2) | (a[8] \ll 10)) & Mask(18) >>

\* Mutation: the mask of the first of two coefficients is left out as well, as that of the
\* second may be.
Bug_polyz_unpack_20(a) ==
  << a[0] | (a[1] \ll 8) | (a[2] \ll 16),
     (a[2] \gg 4) | (a[3] \ll 4) | (a[4] \ll 12) >>

polyz_unpack_20(a) ==
  << (a[0] | (a[1] \ll 8) | (a[2] \ll 16)) & Mask(20),
     (a[2] \gg 4) | (a[3] \ll 4) | (a[4] \ll 12) >>

Unpack ==                         \* w1 is only hashed
  /\ ppc = "packed" /\ format \notin {"w4", "w6"}
  /\ u' = FromZero(CASE format = "eta2" -> polyeta_unpack_2(r)
                     [] format = "eta4" -> polyeta_unpack_4(r)
                     [] format = "t1" -> polyt1_unpack(r)
                     [] format = "t0" -> polyt0_unpack(r)
                     [] format = "z18" -> polyz_unpack_18(r)
                     [] format = "z20" -> polyz_unpack_20(r))
  /\ ppc' = "unpacked"
  /\ UNCHANGED <<format, t, r>>

PackingNext == Pack \/ Unpack

PackingSpec == PackingInit /\ [][PackingNext]_pvars

-------------------------------------------------------------------------------
(***************************************************************************)
(* The string of bits of FIPS 204: field after field, low bits first.      *)
(***************************************************************************)
BitPack(f, fields) ==
  LET width == Formats[f].width
      ones == UNION {{c * width + b : b \in fields[c]} : c \in Group(f)}
  IN  [x \in 0 .. (Formats[f].group * width) \div 8 - 1 |->
         {b \in FF : 8 * x + b \in ones}]

\* A packed group of coefficients is the string of bits of FIPS 204, with no bit
\* lost at a byte's end or in two places; and unpacking finds every coefficient
\* in it, with no bit of its neighbours.
FieldsInPlace ==
  /\ ppc \in {"packed", "unpacked"} => r = BitPack(format, t)
  /\ ppc = "unpacked" => u = t
===============================================================================
