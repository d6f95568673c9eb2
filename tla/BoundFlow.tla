-------------------------------- MODULE BoundFlow --------------------------------
(***************************************************************************)
(* The bounds of coefficients on their way through key generation, signing *)
(* and verification.  A state maps every polynomial to an interval that    *)
(* its coefficients lie in.  The programs of SignProgram are followed step *)
(* by step, through every rejection; a work step gives the interval of     *)
(* what the loop of poly.c computes, from those of its operands, and never *)
(* what its contract promises.  The contracts are the properties.          *)
(***************************************************************************)
EXTENDS SignProgram

CONSTANT Params       \* the builds: parameter sets with a backend, and the bound of its inverse NTT

\* The values of params.h and, of BETA = TAU * ETA, that it is small.  The inverse
\* NTT in C leaves less than MLD_INTT_BOUND.  What a native one may leave is what
\* mld_poly_caddq can take after mld_polyveck_add has added s2 to it.
ASSUME ParamsAssumption ==
  \A x \in Params :
    /\ <<x.K, x.L>> \in {<<4, 4>>, <<6, 5>>, <<8, 7>>}
    /\ x.ETA \in {2, 4}
    /\ x.GAMMA1 \in {2 ^ 17, 2 ^ 19}
    /\ x.GAMMA2 \in {(Q - 1) \div 88, (Q - 1) \div 32}
    /\ x.BETA \in 0 .. 1000
    /\ x.backend \in {"c", "x86_64", "aarch64"}
    /\ x.intt \in Nat /\ x.intt <= Q - 1 - x.ETA
    /\ x.backend = "c" => x.intt < MLD_INTT_BOUND

Flows == {"keypair", "sign", "verify"}

ProgramOf(function) ==
  CASE function = "keypair" -> crypto_sign_keypair_internal
    [] function = "sign"    -> crypto_sign_signature_internal
    [] function = "verify"  -> crypto_sign_verify_internal

VARIABLES
  flow,             \* the function of sign.c
  program,          \* its steps, in this build
  pc,               \* the next step
  val               \* the interval of each polynomial

bvars == <<par, flow, program, pc, val>>

Polys(step) ==
  CASE step.kind = "work" -> {step.out}
    [] step.kind \in {"call", "return", "decide"} -> UNION {c.polys : c \in step.clauses}
    [] step.kind = "head" -> {}

Memory == UNION {Polys(program[i]) : i \in DOMAIN program}

Init ==
  /\ par \in Params /\ flow \in Flows
  /\ program = ProgramOf(flow)
  /\ pc = 1
  /\ val = [p \in Memory |-> AnyInt32]

AtStep(kind) == pc <= Len(program) /\ program[pc].kind = kind
Step == program[pc]
Next1 == pc' = pc + 1 /\ UNCHANGED <<par, flow, program>>

Doing(op) == AtStep("work") /\ Step.op = op
Operand(i) == val[Step.in[i]]
Write(r) == val' = [val EXCEPT ![Step.out] = r] /\ Next1

-------------------------------------------------------------------------------
(***************************************************************************)
(* The loops of poly.c, polyvec.c and rounding.c, on intervals.            *)
(***************************************************************************)
Fill == Doing("produce") /\ Write(Step.arg)

Copy == Doing("copy") /\ Write(Operand(1))

Reduce == Doing("reduce") /\ Write(ReduceInterval(Operand(1)))

CondAddQ == Doing("caddq") /\ Write(CaddqInterval(Operand(1)))

Add == Doing("add") /\ Write(AddInterval(Operand(1), Operand(2)))

Sub == Doing("sub") /\ Write(SubInterval(Operand(1), Operand(2)))

Shiftl == Doing("shiftl") /\ Write(ShiftlInterval(Operand(1)))

Ntt == Doing("ntt") /\ Write(NttInterval(Operand(1)))

PointwiseMontgomery == Doing("montgomery") /\ Write(MontgomeryInterval(1, Operand(1), Operand(2)))

Hull(r, s) == Interval(Least(r.lo, s.lo), Greatest(r.hi, s.hi))

HullOf(v, in, from, to) ==        \* of the operands from .. to
  LET hull[i \in from .. to] == IF i = from THEN v[in[i]] ELSE Hull(hull[i - 1], v[in[i]])
  IN  hull[to]

Accumulate ==                     \* L products, reduced once
  /\ Doing("acc")
  /\ Write(MontgomeryInterval(Step.arg, HullOf(val, Step.in, 1, Step.arg),
                              HullOf(val, Step.in, Step.arg + 1, 2 * Step.arg)))

Power2Round == Doing("power2round") /\ Write(Power2RoundHigh(Operand(1)))

PackMirrored == Doing("mirror") /\ Write(Mirror(Step.arg, Operand(1)))

(***************************************************************************)
(* Calls, returns and rejections.                                          *)
(***************************************************************************)
Cross == (AtStep("call") \/ AtStep("return") \/ AtStep("head")) /\ Next1 /\ UNCHANGED val

Clamp(x, b) == Greatest(b.lo, Least(x, b.hi))

Narrow(r, b) == Interval(Clamp(r.lo, b), Clamp(r.hi, b))       \* r and b have common values

Checked(p, clauses) == {c \in clauses : p \in c.polys}

Narrowed(v, clauses) ==
  [p \in DOMAIN v |-> IF Checked(p, clauses) = {} THEN v[p]
                      ELSE Narrow(v[p], (CHOOSE c \in Checked(p, clauses) : TRUE).bound)]

Accept ==             \* what the check has found out holds from here on
  AtStep("decide") /\ val' = Narrowed(val, Step.clauses) /\ Next1

Reject ==
  /\ AtStep("decide")
  /\ pc' = IF Step.to = "end" THEN Len(program) + 1
           ELSE CHOOSE i \in DOMAIN program : program[i].kind = "head"
  /\ UNCHANGED <<par, flow, program, val>>

Next ==
  \/ Fill \/ Copy \/ Reduce \/ CondAddQ \/ Add \/ Sub \/ Shiftl \/ Ntt
  \/ PointwiseMontgomery \/ Accumulate \/ Power2Round \/ PackMirrored
  \/ Cross \/ Accept \/ Reject

Spec == Init /\ [][Next]_bvars

-------------------------------------------------------------------------------
(***************************************************************************)
(* Properties.                                                             *)
(***************************************************************************)
Meets(v, clauses) == \A c \in clauses : \A p \in c.polys : Within(v[p], c.bound)

\* As an integer: the sum itself may not fit what it is computed in.
SumsWithin(v, s) ==
  \A i \in DOMAIN s.left :
    LET a == v[s.left[i]]
        b == v[s.right[i]]
    IN  a.lo >= s.bound.lo - b.lo /\ a.hi <= s.bound.hi - b.hi

\* Every function is called with coefficients that its contract requires: none
\* overflows an int32_t, leaves the domain of a reduction or reaches a function
\* before it was written, in any mode, with either inverse NTT of the native
\* code in the place of the one in C, and in every attempt of the rejection loop.
RequiresMet ==
  AtStep("call") =>
    /\ Step.given
    /\ Meets(val, Step.clauses)
    /\ \A s \in Step.sums : SumsWithin(val, s)

InverseNtts == {"poly_invntt_tomont", "polyvecl_invntt_tomont", "polyveck_invntt_tomont"}

\* Every function returns what its contract promises, given what it was called
\* with, and what is packed fits its bits: in the build with the code in C, and
\* but for the inverse NTT also with the native code.
EnsuresMet ==
  AtStep("return") =>
    \/ par.backend # "c" /\ Step.fn \in InverseNtts
    \/ Meets(val, Step.clauses)

\* What poly.h:147 says of mld_poly_invntt_tomont, whichever code computes it:
\* "output coefficients are bounded by MLD_INTT_BOUND".  In the C code the last
\* multiplication is by the small mont^2/256; in the native code it is, for half
\* of the coefficients, by a twiddle factor with mont^2/256 in it, of any size.
InverseNttBounded ==
  AtStep("return") /\ Step.fn \in InverseNtts => Meets(val, Step.clauses)
===============================================================================
