---------------------------- MODULE MCCoefficient ----------------------------
(***************************************************************************)
(* Coefficient on coefficients near every border that the code tests:      *)
(* the ends of the intervals of decompose and of power2round, the largest  *)
(* norms that pass a check, both ends of 0 .. Q - 1 and both of its        *)
(* representations.                                                        *)
(***************************************************************************)
EXTENDS Coefficient

Near(S, d) == {x + e : x \in S, e \in -d .. d}

Cells(m) == {0, 1, 7, HighCount(m) \div 2, HighCount(m) - 1, HighCount(m)}

\* The middle of a cell, its end, and the last point the norm check lets pass.
CellBorders(m) ==
  {c * 2 * GAMMA2(m) + e : c \in Cells(m),
     e \in {0} \cup {s * (GAMMA2(m) - b) : s \in {-1, 1}, b \in {0, BETA(m)}}}

RoundBorders == {c * 8192 + 4096 : c \in {0, 1, 511, 1022}}

Residues ==
  Near(UNION {CellBorders(m) : m \in Modes} \cup RoundBorders, 2) \cap 0 .. Q - 1

MCRaw == {x \in Residues \cup {x - Q : x \in Residues} : AbsValue(x) < INTT_BOUND}

MCShort == -4 .. 4

Signed(S) == S \cup {-x : x \in S}

MCMasks ==
  Signed({0, 1} \cup UNION {Near({GAMMA1(m) - b : b \in {0, BETA(m), 2 * BETA(m)}}, 2)
                              : m \in Modes})

MCShortProducts == Signed({0, 1, 2} \cup {BETA(m) - e : m \in Modes, e \in {0, 1}})

MCKeyProducts ==
  Signed({0, 1, 4096} \cup UNION {Near({GAMMA2(m) - 1}, 1)
                             \cup {BETA(m), GAMMA2(m) - 1 - BETA(m), TAU(m) * 4096} : m \in Modes})
===============================================================================
