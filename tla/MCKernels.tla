------------------------------- MODULE MCKernels -------------------------------
(***************************************************************************)
(* The kernels, one of which runs in a behaviour.  Keccak and the packing  *)
(* of coefficients at their own size; the ring multiplication with eight   *)
(* coefficients modulo 17 and 2^10 in place of 2^32, on vectors of two     *)
(* polynomials.                                                            *)
(***************************************************************************)
EXTENDS Keccak, Ntt, CoeffPacking

Lane(s, n) ==
  {z \in Bits : ((s * 37 + n * 101 + z * z * 13 + z * 7 + n * z * 5) % 29) * s % 29 > 14}

MCMemories == { [n \in 0 .. 99 |-> Lane(n \div 25, n)] }      \* the first state is zero

\* A block that crosses from a lane to the next, and one that ends with the state.
MCBlocks == { [offset |-> 5,   data |-> [w \in Ways |-> << {w, 7}, {0}, {}, {1, 2, 3} >>]],
              [offset |-> 195, data |-> [w \in Ways |-> << {w}, {}, {5}, {0, 7}, {w + 1} >>]] }

MCPow == [e \in 0 .. 3 |-> 2 ^ e]

Centred(z) == IF z > 8 THEN z - 17 ELSE z

\* As in zetas.inc: the powers in bit-reversed order times R; entry 0 is not used.
MCZetas == [e \in 0 .. 7 |->
              IF e = 0 THEN 0 ELSE Centred((1024 * RootPower[BitRev(e)]) % 17)]

MCPolynomials == {
  [n \in 0 .. 7 |-> IF n = 1 THEN 1 ELSE 0],
  [n \in 0 .. 7 |-> 16],
  [n \in 0 .. 7 |-> IF n % 2 = 0 THEN 16 ELSE -16],
  [n \in 0 .. 7 |-> ((n * n * 5 + 3 * n + 2) % 33) - 16] }

MCEntries == { [n \in 0 .. 7 |-> 16], [n \in 0 .. 7 |-> (n * n * 7 + 4) % 17] }

\* Every packed and every unpacked bit is one bit of one field, so what packing and
\* unpacking do to single bits determines what they do.
Single(fmt, c, b) == [x \in Group(fmt) |-> IF x = c THEN {b} ELSE {}]

MCInputs ==
  UNION {{[format |-> fmt, fields |-> Single(fmt, c, b)] :
            c \in Group(fmt), b \in Mask(Formats[fmt].width)} : fmt \in DOMAIN Formats}

KeccakIdle ==
  /\ kpc = "end" /\ simd = FALSE /\ little = TRUE /\ way = 0 /\ round = 24 /\ row = 0
  /\ block = [offset |-> 0, data |-> [w \in Ways |-> <<>>]]
  /\ mem = [n \in 0 .. 99 |-> {}] /\ AE = <<>> /\ C = <<>> /\ D = <<>>
  /\ read = [w \in Ways |-> <<>>]
  /\ ref = [w \in Ways |-> [rounds |-> 24, lfsr |-> {}, s |-> [n \in Lanes |-> {}]]]

NttIdle ==
  /\ npc = "idle" /\ kind = "point" /\ op = 0 /\ layer = 0 /\ start = 0 /\ j = 0 /\ k = 0
  /\ zeta = 0 /\ i = 0 /\ l = 0 /\ sum = 0
  /\ h = [n \in Coefficients |-> 0]
  /\ f = [o \in Operands |-> h] /\ given = f

PackingIdle == ppc = "idle" /\ format = "w4" /\ t = <<>> /\ r = <<>> /\ u = <<>>

Init ==
  \/ KeccakInit /\ NttIdle /\ PackingIdle
  \/ NttInit /\ KeccakIdle /\ PackingIdle
  \/ PackingInit /\ KeccakIdle /\ NttIdle

Next ==
  \/ KeccakNext /\ UNCHANGED <<nvars, pvars>>
  \/ NttNext /\ UNCHANGED <<kvars, pvars>>
  \/ PackingNext /\ UNCHANGED <<kvars, nvars>>

Spec == Init /\ [][Next]_<<kvars, nvars, pvars>>
===============================================================================
