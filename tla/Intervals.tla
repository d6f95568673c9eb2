-------------------------------- MODULE Intervals --------------------------------
(***************************************************************************)
(* Intervals of 32-bit integers, and what the operations on coefficients   *)
(* (reduce.c, rounding.c and the loops of poly.c) make of the intervals    *)
(* that their arguments lie in.  The results are what the code computes;   *)
(* what it promises is in SignProgram.                                     *)
(***************************************************************************)
EXTENDS Integers

Q == 8380417                              \* MLDSA_Q
D == 13                                   \* MLDSA_D
INT32_MAX == 2147483647
INT32_MIN == -2147483647 - 1
REDUCE32_DOMAIN_MAX == INT32_MAX - 4194304
REDUCE32_RANGE_MAX == 6283009
MLD_NTT_BOUND == 9 * Q
MLD_INTT_BOUND == 4211139

Int32 == INT32_MIN .. INT32_MAX

Interval(lo, hi) == [lo |-> lo, hi |-> hi]        \* both ends belong to it

Intervals == {r \in [lo : Int, hi : Int] : r.lo <= r.hi}

AnyInt32 == Interval(INT32_MIN, INT32_MAX)        \* memory nobody has written to

Within(r, s) == s.lo <= r.lo /\ r.hi <= s.hi

In(a, r) == r.lo <= a /\ a <= r.hi

Least(x, y) == IF x <= y THEN x ELSE y
Greatest(x, y) == IF x >= y THEN x ELSE y

-------------------------------------------------------------------------------
(***************************************************************************)
(* reduce.c.                                                               *)
(***************************************************************************)
Quotient(a) == (a + 4194304) \div 8388608         \* (a + (1 << 22)) >> 23

Reduce32(a) == a - Quotient(a) * Q

(***************************************************************************)
(* Between two values of the quotient mld_reduce32 ascends in steps of 1,  *)
(* and it falls where the quotient changes: the extremes are at the ends   *)
(* of the interval and at the lowest and highest change inside of it.      *)
(***************************************************************************)
ReduceInterval(r) ==
  LET first == Quotient(r.lo)
      last == Quotient(r.hi)
      fall(t) == t * 8388608 - 4194304            \* where the quotient becomes t
  IN  IF first = last THEN Interval(Reduce32(r.lo), Reduce32(r.hi))
      ELSE Interval(Least(Reduce32(r.lo), Reduce32(fall(first + 1))),
                    Greatest(Reduce32(r.hi), Reduce32(fall(last) - 1)))

Caddq(a) == IF a < 0 THEN a + Q ELSE a

CaddqInterval(r) ==
  IF r.lo >= 0 THEN r
  ELSE IF r.hi < 0 THEN Interval(r.lo + Q, r.hi + Q)
  ELSE Interval(Least(0, r.lo + Q), Greatest(r.hi, Q - 1))

(***************************************************************************)
(* A sum of n products is in the domain in which mld_montgomery_reduce     *)
(* returns less than Q in absolute value (MONTGOMERY_REDUCE_STRONG_DOMAIN_ *)
(* MAX, 2^31 * Q).  The condition is put so that 32 bits are enough for    *)
(* it: the left factors are below a multiple of Q.                         *)
(***************************************************************************)
Magnitude(r) == Greatest(-r.lo, r.hi)

StrongDomain(n, u, v) ==
  /\ u.lo > INT32_MIN /\ v.lo > INT32_MIN
  /\ LET multiple == (Magnitude(u) + Q - 1) \div Q
     IN  Magnitude(v) <= INT32_MAX \div (n * Greatest(multiple, 1))

MontgomeryInterval(n, u, v) ==
  IF StrongDomain(n, u, v) THEN Interval(-(Q - 1), Q - 1) ELSE AnyInt32

-------------------------------------------------------------------------------
(***************************************************************************)
(* The loops of poly.c and ntt.c.                                          *)
(***************************************************************************)
AddInterval(r, s) == Interval(r.lo + s.lo, r.hi + s.hi)

SubInterval(r, s) == Interval(r.lo - s.hi, r.hi - s.lo)

ShiftlInterval(r) == Interval(r.lo * 2 ^ D, r.hi * 2 ^ D)

NttInterval(r) ==                                 \* a product below Q in every layer
  Interval(r.lo - 8 * (Q - 1), r.hi + 8 * (Q - 1))

Power2RoundHigh(r) ==
  Interval((r.lo + 2 ^ (D - 1) - 1) \div 2 ^ D, (r.hi + 2 ^ (D - 1) - 1) \div 2 ^ D)

\* Mutation: a half is rounded up.
Bug_Power2RoundLow == Interval(-(2 ^ (D - 1)), 2 ^ (D - 1) - 1)

Power2RoundLow == Interval(-(2 ^ (D - 1)) + 1, 2 ^ (D - 1))

(***************************************************************************)
(* The packed formats hold base - a in a field of some bits, and unpacking *)
(* subtracts from base again.                                              *)
(***************************************************************************)
Field(bits) == Interval(0, 2 ^ bits - 1)

Mirror(base, r) == Interval(base - r.hi, base - r.lo)
===============================================================================
