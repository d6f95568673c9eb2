------------------------------ MODULE Fips202Proofs ------------------------------
(***************************************************************************)
(* FIPS 202.  The sponge: the padded message is what the permutations      *)
(* absorb and the output is what they leave, for every rate and length.    *)
(* The permutation: both backends compute Keccak-f[1600], for every        *)
(* memory and every block of bytes.                                        *)
(***************************************************************************)
EXTENDS Sponge, Keccak, SequenceTheorems, TLAPS

(***************************************************************************)
(* A block that holds message bytes only, or the first n of them.          *)
(***************************************************************************)
PartBlock(k, n) == [b \in Bytes |-> IF b < n THEN {k * Rate + b} ELSE {}]
MsgBlock(k)     == [b \in Bytes |-> {k * Rate + b}]

(***************************************************************************)
(* Before the padding, the permutations so far have taken in the full      *)
(* blocks and the state holds the rest.                                    *)
(***************************************************************************)
AbsorbInv ==
  phase = "absorb" =>
    /\ out = <<>>
    /\ \A k \in 0 .. Len(past) - 1 : past[k + 1] = MsgBlock(k)
    /\ pc \in {"idle", "absorb"} =>
         in = Len(past) * Rate + pos /\ pos < Rate /\ s = PartBlock(Len(past), pos)
    /\ pc \in {"once", "once_x4", "sha3"} => in = Len(past) * Rate /\ s = Clear
    /\ pc \in {"absorb", "once", "once_x4", "sha3"} => in + len <= MaxIn
    /\ pc \in {"idle", "absorb", "once", "once_x4", "sha3"}

(***************************************************************************)
(* After it, the blocks are those of the padded message and pos says how   *)
(* much of the current block is out.                                       *)
(***************************************************************************)
Full == in \div Rate

SqueezeInv ==
  phase # "absorb" =>
    /\ pc \in {"idle", "squeeze", "blocks", "digest"}
    /\ Full <= Len(past)
    /\ Len(past) = Full => pos = Rate
    /\ pc = "blocks" => pos = Rate
    /\ pc = "digest" => Len(past) = Full
    /\ Len(out) = (Len(past) - Full - 1) * Rate + pos

Inv == TypeOK /\ AbsorbInv /\ SqueezeInv /\ PaddedMessage /\ OutputStream

-------------------------------------------------------------------------------
(***************************************************************************)
(* Arithmetic, and facts about blocks.                                     *)
(***************************************************************************)
LEMMA Product ==
  ASSUME NEW k \in Nat
  PROVE  k * Rate \in Nat /\ (k + 1) * Rate = k * Rate + Rate
BY SpongeAssumption, SMT

LEMMA Room ==
  ASSUME NEW a \in 0 .. MaxIn, NEW b \in 0 .. MaxIn - a
  PROVE  a + b <= MaxIn
BY SpongeAssumption

LEMMA Order ==
  ASSUME NEW k \in Nat, NEW l \in Nat, k < l
  PROVE  (k + 1) * Rate <= l * Rate
<1> DEFINE d == l - (k + 1)
<1>1. d \in Nat /\ l = (k + 1) + d
  OBVIOUS
<1>2. d * Rate \in Nat /\ (k + 1) * Rate \in Nat
  BY <1>1, Product
<1>3. ((k + 1) + d) * Rate = (k + 1) * Rate + d * Rate
  BY <1>1, SpongeAssumption, SMT
<1> HIDE DEF d
<1> QED
  BY <1>1, <1>2, <1>3

LEMMA Division ==
  ASSUME NEW k \in Nat, NEW r \in 0 .. Rate - 1
  PROVE  (k * Rate + r) \div Rate = k /\ (k * Rate + r) % Rate = r
BY SpongeAssumption, SMT

LEMMA Quotient ==
  ASSUME NEW n \in Nat
  PROVE  n \div Rate \in Nat /\ n % Rate \in Bytes /\ n = (n \div Rate) * Rate + (n % Rate)
<1>1. Rate \in Nat \ {0}
  BY SpongeAssumption
<1>2. n = (n \div Rate) * Rate + (n % Rate) /\ n \div Rate \in Nat /\ n % Rate \in 0 .. Rate - 1
  BY <1>1, SMT
<1> QED
  BY <1>2 DEF Bytes

\* Block k, past the last one, begins after byte n.
LEMMA Beyond ==
  ASSUME NEW n \in Nat, NEW k \in Nat, n \div Rate < k
  PROVE  n < k * Rate
<1> DEFINE q == (n \div Rate) * Rate
           e == (n \div Rate + 1) * Rate
           f == k * Rate
<1>1. n \div Rate \in Nat /\ n = q + (n % Rate) /\ n % Rate \in 0 .. Rate - 1
  BY Quotient DEF Bytes
<1>2. q \in Nat /\ e = q + Rate /\ f \in Nat
  BY <1>1, Product
<1>3. e <= f
  <2>1. CASE n \div Rate + 1 = k
    BY <1>2, <2>1
  <2>2. CASE n \div Rate + 1 < k
    <3>1. (n \div Rate + 1) * Rate <= (k - 1) * Rate /\ k - 1 \in Nat
      BY <1>1, <2>2, Order
    <3>2. k * Rate = (k - 1) * Rate + Rate /\ (k - 1) * Rate \in Nat
      BY <3>1, Product
    <3> HIDE DEF e, f
    <3> QED
      BY <1>2, <3>1, <3>2, SpongeAssumption DEF e, f
  <2> QED
    BY <1>1, <2>1, <2>2
<1> HIDE DEF q, e, f
<1>4. n < f
  BY <1>1, <1>2, <1>3, SpongeAssumption
<1> QED
  BY <1>4 DEF f

LEMMA XorFresh == ASSUME NEW A, NEW x, x \notin A PROVE Xor(A, {x}) = A \cup {x}
BY DEF Xor

LEMMA ClearIsPart ==
  ASSUME NEW k \in Nat PROVE Clear = PartBlock(k, 0)
BY DEF Clear, PartBlock, Bytes

LEMMA FillPart ==
  ASSUME NEW k \in Nat, NEW p \in 0 .. Rate, NEW n \in 0 .. Rate - p, in = k * Rate + p
  PROVE  XorIn(PartBlock(k, p), p, n) = PartBlock(k, p + n)
<1> USE SpongeAssumption
<1>1. k * Rate \in Nat
  BY Product
<1>2. SUFFICES ASSUME NEW b \in Bytes
               PROVE  XorIn(PartBlock(k, p), p, n)[b] = PartBlock(k, p + n)[b]
  BY DEF XorIn, PartBlock
<1>3. CASE p <= b /\ b < p + n
  <2>1. XorIn(PartBlock(k, p), p, n)[b] = Xor({}, {in + b - p})
    <3>1. PartBlock(k, p)[b] = {}
      BY <1>2, <1>3 DEF PartBlock, Bytes
    <3>2. XorIn(PartBlock(k, p), p, n)[b] = Xor(PartBlock(k, p)[b], {in + b - p})
      <4> DEFINE t == PartBlock(k, p)
      <4> HIDE DEF t
      <4>1. XorIn(t, p, n)[b] = IF p <= b /\ b < p + n THEN Xor(t[b], {in + b - p}) ELSE t[b]
        BY Zenon DEF XorIn
      <4> QED
        BY <1>3, <4>1, Zenon DEF t
    <3> QED
      BY <3>1, <3>2
  <2>2. in + b - p = k * Rate + b
    BY <1>1, <1>2 DEF Bytes
  <2>3. Xor({}, {in + b - p}) = {} \cup {in + b - p}
    BY XorFresh
  <2>4. PartBlock(k, p + n)[b] = {k * Rate + b}
    BY <1>3 DEF PartBlock
  <2> QED
    BY <2>1, <2>2, <2>3, <2>4
<1>4. CASE b < p
  BY <1>2, <1>4 DEF XorIn, PartBlock, Bytes
<1>5. CASE b >= p + n
  BY <1>2, <1>5 DEF XorIn, PartBlock, Bytes
<1> QED
  BY <1>2, <1>3, <1>4, <1>5 DEF Bytes

LEMMA WholePart ==
  ASSUME NEW k \in Nat PROVE PartBlock(k, Rate) = MsgBlock(k)
BY SpongeAssumption DEF PartBlock, MsgBlock, Bytes

LEMMA PadPart ==
  ASSUME NEW k \in Nat, NEW p \in 0 .. Rate - 1
  PROVE  Pad(PartBlock(k, p), p) = PaddedBlock(k * Rate + p, k)
<1> USE SpongeAssumption
<1> DEFINE n == k * Rate + p
<1>1. k * Rate \in Nat /\ (k + 1) * Rate = k * Rate + Rate
  BY Product
<1>2. SUFFICES ASSUME NEW b \in Bytes
               PROVE  Pad(PartBlock(k, p), p)[b] = PaddedBlock(n, k)[b]
  BY DEF Pad, XorByte, PartBlock, PaddedBlock
<1>3. PaddedBlock(n, k)[b] = (IF b < p THEN {k * Rate + b} ELSE {})
                               \cup (IF b = p THEN {SUFFIX} ELSE {})
                               \cup (IF b = Rate - 1 THEN {FINAL} ELSE {})
  BY <1>1, <1>2 DEF PaddedBlock, Bytes
<1>4. Rate - 1 \in Bytes /\ p \in Bytes
  BY DEF Bytes
<1> DEFINE q == XorByte(PartBlock(k, p), p, SUFFIX)
<1>5. q[b] = IF b = p THEN {SUFFIX} ELSE PartBlock(k, p)[b]
  <2>1. q = [PartBlock(k, p) EXCEPT ![p] = Xor(PartBlock(k, p)[p], {SUFFIX})]
    BY DEF XorByte
  <2>2. PartBlock(k, p)[p] = {}
    BY <1>4 DEF PartBlock
  <2>3. Xor({}, {SUFFIX}) = {SUFFIX}
    BY XorFresh
  <2> QED
    BY <1>2, <1>4, <2>1, <2>2, <2>3 DEF PartBlock
<1>6. Pad(PartBlock(k, p), p)[b] = IF b = Rate - 1 THEN Xor(q[b], {FINAL}) ELSE q[b]
  <2>1. Pad(PartBlock(k, p), p) = [q EXCEPT ![Rate - 1] = Xor(q[Rate - 1], {FINAL})]
    BY DEF Pad, XorByte
  <2>2. DOMAIN q = Bytes
    BY DEF XorByte, PartBlock
  <2> HIDE DEF q
  <2> QED
    BY <1>2, <1>4, <2>1, <2>2, Zenon
<1>7. FINAL \notin q[b]
  BY <1>1, <1>2, <1>5 DEF PartBlock, Bytes, FINAL, SUFFIX
<1>8. Xor(q[b], {FINAL}) = q[b] \cup {FINAL}
  BY <1>7, XorFresh
<1>9. PartBlock(k, p)[b] = IF b < p THEN {k * Rate + b} ELSE {}
  BY DEF PartBlock
<1> HIDE DEF q, n
<1>10. CASE b = p
  <2>1. q[b] = {SUFFIX} /\ ~(b < p)
    BY <1>5, <1>10 DEF Bytes
  <2>2. CASE b = Rate - 1
    BY <1>3, <1>6, <1>8, <1>10, <2>1, <2>2, Zenon
  <2>3. CASE b # Rate - 1
    BY <1>3, <1>6, <1>10, <2>1, <2>3, Zenon
  <2> QED
    BY <2>2, <2>3
<1>11. CASE b # p
  <2>1. q[b] = IF b < p THEN {k * Rate + b} ELSE {}
    BY <1>5, <1>9, <1>11
  <2>2. CASE b = Rate - 1
    BY <1>3, <1>6, <1>8, <1>11, <2>1, <2>2, Zenon
  <2>3. CASE b # Rate - 1
    BY <1>3, <1>6, <1>11, <2>1, <2>3, Zenon
  <2> QED
    BY <2>2, <2>3
<1> QED
  BY <1>10, <1>11

LEMMA FullPadded ==
  ASSUME NEW n \in Nat, NEW k \in Nat, (k + 1) * Rate <= n
  PROVE  PaddedBlock(n, k) = MsgBlock(k)
<1>1. k * Rate \in Nat /\ (k + 1) * Rate = k * Rate + Rate
  BY Product
<1> QED
  BY <1>1, SpongeAssumption DEF PaddedBlock, MsgBlock, Bytes

LEMMA EmptyPadded ==
  ASSUME NEW n \in Nat, NEW k \in Nat, n < k * Rate
  PROVE  PaddedBlock(n, k) = Clear
BY DEF PaddedBlock, Clear

LEMMA PartInState ==
  ASSUME NEW k \in Nat, NEW n \in 0 .. Rate, k * Rate + n <= MaxIn
  PROVE  PartBlock(k, n) \in State
<1>1. k * Rate \in Nat
  BY Product
<1>2. \A b \in Bytes : b < n => k * Rate + b \in Terms
  BY <1>1, SpongeAssumption DEF Bytes, Terms
<1> QED
  BY <1>2 DEF PartBlock, State

LEMMA PaddedInState ==
  ASSUME NEW k \in Nat, NEW n \in 0 .. MaxIn
  PROVE  PaddedBlock(n, k) \in State
<1>1. k * Rate \in Nat
  BY Product
<1>2. \A b \in Bytes : k * Rate + b < n => k * Rate + b \in Terms
  BY <1>1, SpongeAssumption DEF Bytes, Terms
<1>3. SUFFIX \in Terms /\ FINAL \in Terms
  BY DEF Terms
<1> QED
  BY <1>2, <1>3 DEF PaddedBlock, State

LEMMA ClearInState == Clear \in State
BY DEF Clear, State

\* Full blocks, then the last one padded: all of the padded message.
LEMMA PaddedAll ==
  ASSUME NEW k \in Nat, NEW p \in 0 .. Rate - 1, NEW q \in Seq(State), Len(q) = k,
         \A l \in 0 .. k - 1 : q[l + 1] = MsgBlock(l)
  PROVE  \A l \in 0 .. k : (IF l < k THEN q[l + 1] ELSE PaddedBlock(k * Rate + p, k))
                             = PaddedBlock(k * Rate + p, l)
<1> SUFFICES ASSUME NEW l \in 0 .. k, l < k
             PROVE  q[l + 1] = PaddedBlock(k * Rate + p, l)
  OBVIOUS
<1>1. (l + 1) * Rate <= k * Rate /\ k * Rate \in Nat
  BY Order, Product
<1>2. k * Rate + p \in Nat /\ (l + 1) * Rate <= k * Rate + p
  <2> DEFINE a == (l + 1) * Rate
             c == k * Rate
  <2>1. a \in Nat /\ c \in Nat /\ a <= c
    BY <1>1, Product
  <2> HIDE DEF a, c
  <2>2. c + p \in Nat /\ a <= c + p
    BY <2>1, SpongeAssumption
  <2> QED
    BY <2>2 DEF a, c
<1>3. PaddedBlock(k * Rate + p, l) = MsgBlock(l)
  BY <1>2, FullPadded
<1> QED
  BY <1>3

LEMMA InitInv == Init => Inv
<1> SUFFICES ASSUME Init PROVE Inv
  OBVIOUS
<1> USE SpongeAssumption
<1>1. Len(past) = 0 /\ past \in Seq(State) /\ out \in Seq(Nat \X Bytes \X SUBSET Terms)
  BY DEF Init
<1>2. TypeOK
  BY <1>1, ClearInState DEF Init, TypeOK
<1>3. in = Len(past) * Rate + pos /\ pos < Rate /\ s = PartBlock(Len(past), pos)
  BY <1>1, ClearIsPart DEF Init
<1>4. AbsorbInv
  BY <1>1, <1>3 DEF Init, AbsorbInv
<1> QED
  BY <1>2, <1>4 DEF Init, Inv, SqueezeInv, PaddedMessage, OutputStream

-------------------------------------------------------------------------------
(***************************************************************************)
(* The steps of the absorbing phase.                                       *)
(***************************************************************************)
LEMMA BeginInv == Inv /\ (ShakeInit \/ AbsorbOnce) => Inv'
<1> SUFFICES ASSUME Inv, ShakeInit \/ AbsorbOnce PROVE Inv'
  OBVIOUS
<1> USE SpongeAssumption
<1>1. /\ s' = Clear /\ past' = <<>> /\ in' = 0 /\ out' = <<>> /\ phase' = "absorb"
      /\ \/ pc' = "idle" /\ pos' = 0 /\ len' = len
         \/ pc' \in {"once", "once_x4", "sha3"} /\ pos' = pos /\ len' \in 0 .. MaxIn
  BY DEF ShakeInit, AbsorbOnce
<1>2. /\ Len(past') = 0 /\ past' \in Seq(State)
      /\ out' \in Seq(Nat \X Bytes \X SUBSET Terms) /\ Len(out') = 0
  BY <1>1
<1>3. TypeOK'
  BY <1>1, <1>2, ClearInState DEF Inv, TypeOK
<1>4. Len(past') * Rate = 0 /\ s' = PartBlock(Len(past'), 0)
  BY <1>1, <1>2, ClearIsPart
<1>5. AbsorbInv'
  BY <1>1, <1>2, <1>4 DEF AbsorbInv
<1> QED
  BY <1>1, <1>2, <1>3, <1>5 DEF Inv, SqueezeInv, PaddedMessage, OutputStream

LEMMA ShakeAbsorbInv == Inv /\ ShakeAbsorb => Inv'
<1> SUFFICES ASSUME Inv, ShakeAbsorb PROVE Inv'
  OBVIOUS
<1> USE SpongeAssumption
<1>1. /\ pc = "idle" /\ pc' = "absorb" /\ phase = "absorb" /\ len' \in 0 .. MaxIn - in
      /\ UNCHANGED <<phase, s, past, pos, in, out>>
  BY DEF ShakeAbsorb
<1>2. TypeOK'
  BY <1>1 DEF Inv, TypeOK
<1>3. in + len' <= MaxIn
  <2>1. in \in 0 .. MaxIn
    BY DEF Inv, TypeOK
  <2>2. len' \in 0 .. MaxIn - in
    BY <1>1
  <2> QED
    BY <2>1, <2>2, Room
<1>4. AbsorbInv'
  BY <1>1, <1>3 DEF Inv, AbsorbInv
<1> QED
  BY <1>1, <1>2, <1>4 DEF Inv, SqueezeInv, PaddedMessage, OutputStream

\* A block of the message is permuted in.
LEMMA BlockInv ==
  ASSUME Inv, NEW p \in 0 .. Rate - 1, phase = "absorb",
         pc \in {"absorb", "once", "once_x4", "sha3"},
         in = Len(past) * Rate + p, s = PartBlock(Len(past), p), len >= Rate - p,
         past' = Append(past, XorIn(s, p, Rate - p)), s' = Clear,
         in' = in + (Rate - p), len' = len - (Rate - p),
         pos' = (IF pc = "absorb" THEN 0 ELSE pos),
         UNCHANGED <<pc, phase, out>>
  PROVE  Inv'
<1> USE SpongeAssumption
<1> DEFINE k == Len(past)
<1>1. k \in Nat /\ past \in Seq(State) /\ in \in 0 .. MaxIn /\ len \in Nat /\ in + len <= MaxIn
  BY DEF Inv, TypeOK, AbsorbInv
<1>2. k * Rate \in Nat /\ (k + 1) * Rate = k * Rate + Rate
  BY <1>1, Product
<1>3. XorIn(s, p, Rate - p) = MsgBlock(k)
  <2>1. Rate - p \in 0 .. Rate - p /\ p + (Rate - p) = Rate
    OBVIOUS
  <2> QED
    BY <1>1, <2>1, FillPart, WholePart
<1>4. MsgBlock(k) \in State
  <2>1. k * Rate + Rate <= MaxIn
    BY <1>1, <1>2
  <2> QED
    BY <1>1, <2>1, PartInState, WholePart
<1>5. /\ past' \in Seq(State) /\ Len(past') = k + 1
      /\ \A l \in 0 .. k - 1 : past'[l + 1] = past[l + 1]
      /\ past'[k + 1] = MsgBlock(k)
  BY <1>1, <1>3, <1>4
<1>6. in' = (k + 1) * Rate /\ in' \in 0 .. MaxIn /\ len' \in 0 .. MaxIn /\ in' + len' <= MaxIn
  BY <1>1, <1>2
<1>7. TypeOK'
  BY <1>5, <1>6, ClearInState DEF Inv, TypeOK
<1>8. \A l \in 0 .. Len(past') - 1 : past'[l + 1] = MsgBlock(l)
  <2> SUFFICES ASSUME NEW l \in 0 .. k PROVE past'[l + 1] = MsgBlock(l)
    BY <1>1, <1>5
  <2>1. CASE l = k
    BY <1>5, <2>1
  <2>2. CASE l # k
    BY <1>1, <1>5, <2>2 DEF Inv, AbsorbInv
  <2> QED
    BY <2>1, <2>2
<1>9. s' = PartBlock(Len(past'), 0)
  BY <1>1, <1>5, ClearIsPart
<1>10. out' = <<>>
  BY DEF Inv, AbsorbInv
<1>11. in' = Len(past') * Rate
  BY <1>5, <1>6
<1>12. pc' = "absorb" =>
         in' = Len(past') * Rate + pos' /\ pos' < Rate /\ s' = PartBlock(Len(past'), pos')
  <2> SUFFICES ASSUME pc' = "absorb"
               PROVE  in' = Len(past') * Rate + pos' /\ pos' < Rate /\ s' = PartBlock(Len(past'), pos')
    OBVIOUS
  <2>1. pos' = 0
    OBVIOUS
  <2>2. in' = in' + 0
    BY <1>6
  <2> QED
    BY <1>9, <1>11, <2>1, <2>2
<1>13. AbsorbInv'
  BY <1>6, <1>8, <1>10, <1>11, <1>12 DEF AbsorbInv
<1> QED
  BY <1>7, <1>10, <1>13 DEF Inv, SqueezeInv, PaddedMessage, OutputStream

LEMMA AbsorbStepInv == Inv /\ (AbsorbBlock \/ OnceBlock) => Inv'
<1> SUFFICES ASSUME Inv, AbsorbBlock \/ OnceBlock PROVE Inv'
  OBVIOUS
<1> USE SpongeAssumption
<1>1. /\ pos \in 0 .. Rate /\ len \in Nat /\ phase \in {"absorb", "squeeze", "batch", "hash"}
      /\ Len(past) \in Nat
  BY DEF Inv, TypeOK
<1>2. pc \in {"absorb", "once", "once_x4", "sha3"} /\ phase = "absorb"
  BY <1>1 DEF AbsorbBlock, OnceBlock, Inv, SqueezeInv
<1>3. CASE AbsorbBlock
  <2>1. in = Len(past) * Rate + pos /\ pos \in 0 .. Rate - 1 /\ s = PartBlock(Len(past), pos)
    BY <1>1, <1>2, <1>3 DEF AbsorbBlock, Inv, AbsorbInv
  <2>2. len >= Rate - pos
    BY <1>1, <1>3 DEF AbsorbBlock
  <2> QED
    BY <1>2, <1>3, <2>1, <2>2, BlockInv DEF AbsorbBlock
<1>4. CASE OnceBlock
  <2>1. in = Len(past) * Rate /\ s = PartBlock(Len(past), 0)
    BY <1>1, <1>2, <1>4, ClearIsPart DEF OnceBlock, Inv, AbsorbInv
  <2>2. Len(past) * Rate \in Nat
    BY <1>1, Product
  <2>3. in = Len(past) * Rate + 0 /\ Rate - 0 = Rate /\ 0 \in 0 .. Rate - 1 /\ len >= Rate - 0
    BY <1>1, <1>4, <2>1, <2>2 DEF OnceBlock
  <2> QED
    BY <1>2, <1>4, <2>1, <2>3, BlockInv DEF OnceBlock
<1> QED
  BY <1>3, <1>4

LEMMA AbsorbTailInv == Inv /\ AbsorbTail => Inv'
<1> SUFFICES ASSUME Inv, AbsorbTail PROVE Inv'
  OBVIOUS
<1> USE SpongeAssumption
<1>1. /\ pc = "absorb" /\ pos + len < Rate /\ s' = XorIn(s, pos, len) /\ in' = in + len
      /\ len' = 0 /\ pos' = pos + len /\ pc' = "idle" /\ UNCHANGED <<phase, past, out>>
  BY DEF AbsorbTail
<1> DEFINE k == Len(past)
<1>2. /\ pos \in 0 .. Rate /\ len \in Nat /\ phase = "absorb" /\ k \in Nat /\ in \in 0 .. MaxIn
      /\ past \in Seq(State)
  BY <1>1 DEF Inv, TypeOK, SqueezeInv
<1>3. /\ in = k * Rate + pos /\ pos < Rate /\ s = PartBlock(k, pos) /\ in + len <= MaxIn
      /\ out = <<>>
  BY <1>1, <1>2 DEF Inv, AbsorbInv
<1>4. k * Rate \in Nat
  BY <1>2, Product
<1>5. s' = PartBlock(k, pos')
  <2>1. len \in 0 .. Rate - pos
    BY <1>1, <1>2
  <2> QED
    BY <1>1, <1>2, <1>3, <2>1, FillPart
<1>6. in' = k * Rate + pos' /\ in' \in 0 .. MaxIn /\ pos' \in 0 .. Rate - 1
  BY <1>1, <1>2, <1>3, <1>4
<1>7. s' \in State
  <2>1. pos' \in 0 .. Rate /\ k * Rate + pos' <= MaxIn
    BY <1>6
  <2> QED
    BY <1>2, <1>5, <2>1, PartInState
<1>8. TypeOK'
  BY <1>1, <1>6, <1>7 DEF Inv, TypeOK
<1>9. AbsorbInv'
  BY <1>1, <1>2, <1>3, <1>5, <1>6 DEF Inv, AbsorbInv
<1> QED
  BY <1>1, <1>2, <1>3, <1>8, <1>9 DEF Inv, SqueezeInv, PaddedMessage, OutputStream

\* The padding goes in after the last, partial block.
LEMMA PadInv ==
  ASSUME Inv, NEW p \in 0 .. Rate - 1, phase = "absorb",
         in' = Len(past) * Rate + p, in' <= MaxIn, s' = Pad(PartBlock(Len(past), p), p),
         \A l \in 0 .. Len(past) - 1 : past[l + 1] = MsgBlock(l), out = <<>>,
         pos' = Rate, phase' \in {"squeeze", "batch", "hash"}, pc' \in {"idle", "digest"},
         len' \in {0, len},
         UNCHANGED <<past, out>>
  PROVE  Inv'
<1> USE SpongeAssumption
<1> DEFINE k == Len(past)
<1>1. k \in Nat /\ past \in Seq(State) /\ len \in 0 .. MaxIn + MaxOut
  BY DEF Inv, TypeOK
<1>2. k * Rate \in Nat /\ in' \in 0 .. MaxIn
  BY <1>1, Product
<1>3. s' = PaddedBlock(in', k)
  BY <1>1, PadPart
<1>4. s' \in State
  BY <1>1, <1>2, <1>3, PaddedInState
<1>5. TypeOK'
  BY <1>2, <1>4 DEF Inv, TypeOK
<1>6. Full' = k
  BY <1>1, Division DEF Full
<1>7. PaddedMessage'
  BY <1>1, <1>3, PaddedAll DEF PaddedMessage
<1>8. Len(out') = (k - k - 1) * Rate + Rate
  BY <1>1
<1>9. SqueezeInv'
  BY <1>1, <1>6, <1>8 DEF SqueezeInv
<1> QED
  BY <1>5, <1>7, <1>9 DEF Inv, AbsorbInv, OutputStream

LEMMA FinalizeInv == Inv /\ ShakeFinalize => Inv'
<1> SUFFICES ASSUME Inv, ShakeFinalize PROVE Inv'
  OBVIOUS
<1> USE SpongeAssumption
<1>1. /\ pc = "idle" /\ phase = "absorb" /\ s' = Pad(s, pos) /\ pos' = Rate /\ phase' = "squeeze"
      /\ UNCHANGED <<pc, past, in, len, out>>
  BY DEF ShakeFinalize
<1>2. pos \in 0 .. Rate /\ in \in 0 .. MaxIn
  BY DEF Inv, TypeOK
<1>3. /\ in = Len(past) * Rate + pos /\ pos < Rate /\ s = PartBlock(Len(past), pos)
      /\ \A l \in 0 .. Len(past) - 1 : past[l + 1] = MsgBlock(l)
      /\ out = <<>>
  BY <1>1 DEF Inv, AbsorbInv
<1>4. pos \in 0 .. Rate - 1 /\ in' <= MaxIn
  BY <1>1, <1>2, <1>3
<1> QED
  BY <1>1, <1>3, <1>4, PadInv

\* The two ends of absorbing at once write the same padding.
LEMMA OnceTailInv == Inv /\ (OnceTail \/ OnceX4Tail) => Inv'
<1> SUFFICES ASSUME Inv, OnceTail \/ OnceX4Tail PROVE Inv'
  OBVIOUS
<1> USE SpongeAssumption
<1> DEFINE k == Len(past)
           t == XorIn(s, 0, len)
<1>1. /\ pc \in {"once", "once_x4", "sha3"} /\ len < Rate /\ in' = in + len /\ len' = 0 /\ pos' = Rate
      /\ phase' \in {"squeeze", "batch", "hash"} /\ pc' \in {"idle", "digest"}
      /\ UNCHANGED <<past, out>>
  BY DEF OnceTail, OnceX4Tail
<1>2. len \in Nat /\ phase = "absorb" /\ k \in Nat
  BY <1>1 DEF Inv, TypeOK, SqueezeInv
<1>3. /\ in = k * Rate /\ s = Clear /\ in + len <= MaxIn /\ out = <<>>
      /\ \A l \in 0 .. Len(past) - 1 : past[l + 1] = MsgBlock(l)
  BY <1>1, <1>2 DEF Inv, AbsorbInv
<1>4. k * Rate \in Nat /\ s = PartBlock(k, 0)
  BY <1>2, <1>3, Product, ClearIsPart
<1>5. t = PartBlock(k, len)
  <2>1. /\ len \in 0 .. Rate - 0 /\ 0 + len = len /\ in = k * Rate + 0 /\ 0 \in 0 .. Rate
    BY <1>1, <1>2, <1>3, <1>4
  <2> QED
    BY <1>2, <1>4, <2>1, FillPart
<1>6. s' = Pad(t, len)
  <2>1. CASE OnceTail
    BY <2>1 DEF OnceTail
  <2>2. CASE OnceX4Tail /\ len # Rate - 1
    BY <2>2 DEF OnceX4Tail, Pad
  <2>3. CASE OnceX4Tail /\ len = Rate - 1
    <3>1. s' = [t EXCEPT ![len] = Xor(t[len], {SUFFIX, FINAL})]
      BY <2>3 DEF OnceX4Tail
    <3>2. t \in [Bytes -> SUBSET Int] /\ len \in Bytes /\ t[len] = {}
      BY <1>1, <1>2, <1>4, <1>5 DEF PartBlock, Bytes
    <3>3. Xor({}, {SUFFIX, FINAL}) = Xor(Xor({}, {SUFFIX}), {FINAL})
      BY DEF Xor, SUFFIX, FINAL
    <3>4. Pad(t, len) = [[t EXCEPT ![len] = Xor(t[len], {SUFFIX})]
                           EXCEPT ![len] = Xor(Xor(t[len], {SUFFIX}), {FINAL})]
      BY <2>3, <3>2 DEF Pad, XorByte
    <3> HIDE DEF t
    <3>5. Pad(t, len) = [t EXCEPT ![len] = Xor(Xor(t[len], {SUFFIX}), {FINAL})]
      BY <3>2, <3>4
    <3> QED
      BY <3>1, <3>2, <3>3, <3>5
  <2> QED
    BY <2>1, <2>2, <2>3
<1>7. len \in 0 .. Rate - 1 /\ in' = k * Rate + len /\ in' <= MaxIn /\ len' \in {0, len}
  BY <1>1, <1>2, <1>3
<1> QED
  BY <1>1, <1>2, <1>3, <1>5, <1>6, <1>7, PadInv

-------------------------------------------------------------------------------
(***************************************************************************)
(* The steps of the squeezing phase.                                       *)
(***************************************************************************)
LEMMA SqueezeBeginInv == Inv /\ (ShakeSqueeze \/ ShakeSqueezeBlocks \/ SqueezeReturn) => Inv'
<1> SUFFICES ASSUME Inv, ShakeSqueeze \/ ShakeSqueezeBlocks \/ SqueezeReturn PROVE Inv'
  OBVIOUS
<1> USE SpongeAssumption
<1>1. /\ UNCHANGED <<phase, s, past, pos, in, out>> /\ phase # "absorb"
      /\ pc' \in {"idle", "squeeze", "blocks"}
      /\ pc' = "blocks" => pos = Rate
  BY DEF ShakeSqueeze, ShakeSqueezeBlocks, SqueezeReturn, Inv, TypeOK, AbsorbInv
<1>2. len' \in 0 .. MaxIn + MaxOut
  <2>1. Len(out) \in Nat /\ len \in 0 .. MaxIn + MaxOut
    BY DEF Inv, TypeOK
  <2>2. CASE ShakeSqueeze
    BY <2>1, <2>2 DEF ShakeSqueeze
  <2>3. CASE ShakeSqueezeBlocks
    BY <2>1, <2>3 DEF ShakeSqueezeBlocks
  <2>4. CASE SqueezeReturn
    BY <2>1, <2>4 DEF SqueezeReturn
  <2> QED
    BY <2>2, <2>3, <2>4
<1>3. TypeOK'
  BY <1>1, <1>2 DEF Inv, TypeOK
<1>4. PaddedMessage' /\ OutputStream'
  BY <1>1 DEF Inv, PaddedMessage, OutputStream
<1>5. SqueezeInv'
  BY <1>1 DEF Inv, SqueezeInv, Full
<1> QED
  BY <1>1, <1>3, <1>4, <1>5 DEF Inv, AbsorbInv

\* A permutation while squeezing.
LEMMA PermuteInv ==
  ASSUME Inv, phase # "absorb", past' = Append(past, s), s' = Clear, UNCHANGED <<phase, in>>
  PROVE  /\ past' \in Seq(State) /\ Len(past') = Len(past) + 1 /\ Full' = Full
         /\ PaddedMessage'
<1> USE SpongeAssumption
<1> DEFINE k == Len(past)
<1>1. /\ k \in Nat /\ past \in Seq(State) /\ s \in State /\ in \in 0 .. MaxIn /\ in \in Nat
      /\ Full <= k
  BY DEF Inv, TypeOK, SqueezeInv
<1>2. /\ past' \in Seq(State) /\ Len(past') = k + 1
      /\ \A l \in 0 .. k - 1 : past'[l + 1] = past[l + 1]
      /\ past'[k + 1] = s
  BY <1>1
<1>3. /\ \A l \in 0 .. k - 1 : past[l + 1] = PaddedBlock(in, l)
      /\ s = PaddedBlock(in, k)
  BY <1>1 DEF Inv, PaddedMessage
<1>4. in < (k + 1) * Rate
  BY <1>1, Beyond DEF Full
<1>5. Clear = PaddedBlock(in, k + 1)
  BY <1>1, <1>4, EmptyPadded
<1>6. PaddedMessage'
  <2> SUFFICES ASSUME NEW l \in 0 .. k + 1
               PROVE  (IF l < k + 1 THEN past'[l + 1] ELSE s') = PaddedBlock(in, l)
    BY <1>2 DEF PaddedMessage
  <2>1. CASE l < k
    BY <1>1, <1>2, <1>3, <2>1
  <2>2. CASE l = k
    BY <1>1, <1>2, <1>3, <2>2
  <2>3. CASE l = k + 1
    BY <1>1, <1>5, <2>3
  <2> QED
    BY <1>1, <2>1, <2>2, <2>3
<1>7. Full' = Full
  BY DEF Full
<1> QED
  BY <1>2, <1>6, <1>7

\* n bytes of the current block, from byte `from` on, go to the caller.
LEMMA Emit ==
  ASSUME Inv, NEW from \in 0 .. Rate, NEW n \in 0 .. Rate - from,
         past' \in Seq(State), Len(past') > Full,
         Len(out) = (Len(past') - Full - 1) * Rate + from,
         s' = Clear, in' = in, out' = out \o Extract(past', s', from, n)
  PROVE  /\ OutputStream'
         /\ out' \in Seq(Nat \X Bytes \X SUBSET Terms)
         /\ Len(out') = Len(out) + n
<1> USE SpongeAssumption
<1> DEFINE k == Len(past') - Full - 1
           e == Extract(past', s', from, n)
           B == Nat \X Bytes \X SUBSET Terms
<1>1. in \in Nat /\ Full \in Nat /\ Len(past') \in Nat /\ out \in Seq(B)
  <2>1. in \in Nat /\ out \in Seq(B)
    BY DEF Inv, TypeOK
  <2>2. Full \in Nat
    BY <2>1, Quotient DEF Full
  <2> QED
    BY <2>1, <2>2
<1>2. k \in Nat /\ k * Rate \in Nat /\ Len(out) = k * Rate + from
  <2>1. k \in Nat
    BY <1>1
  <2> QED
    BY <2>1, Product
<1>3. \A j \in 1 .. n : from + j - 1 \in Bytes
  BY DEF Bytes
<1>4. \A j \in 1 .. n : e[j] = <<Len(past'), from + j - 1, {}>>
  BY <1>3 DEF Extract, Clear
<1>5. e \in Seq(B) /\ Len(e) = n
  <2>1. \A j \in 1 .. n : <<Len(past'), from + j - 1, s'[from + j - 1]>> \in B
    BY <1>1, <1>3 DEF Clear
  <2>2. e \in [1 .. n -> B]
    BY <2>1 DEF Extract
  <2> QED
    BY <2>2, SeqDef
<1>6. /\ out' \in Seq(B) /\ Len(out') = Len(out) + n
      /\ \A j \in 1 .. Len(out) : out'[j] = out[j]
      /\ \A j \in Len(out) + 1 .. Len(out) + n : out'[j] = e[j - Len(out)]
  <2>1. out' = out \o e
    OBVIOUS
  <2> HIDE DEF e, B
  <2>2. Len(out) \in Nat /\ Len(e) = n /\ out \in Seq(B) /\ e \in Seq(B)
    BY <1>1, <1>5
  <2>3. out \o e \in Seq(B) /\ Len(out \o e) = Len(out) + Len(e)
    BY <2>2, ConcatProperties
  <2>4. \A j \in 1 .. Len(out) + Len(e) :
          (out \o e)[j] = IF j <= Len(out) THEN out[j] ELSE e[j - Len(out)]
    BY <2>2, ConcatProperties
  <2>5. \A j \in 1 .. Len(out) : j \in 1 .. Len(out) + n /\ j <= Len(out)
    BY <2>2
  <2>6. \A j \in Len(out) + 1 .. Len(out) + n : j \in 1 .. Len(out) + n /\ ~(j <= Len(out))
    BY <2>2
  <2> QED
    BY <2>1, <2>2, <2>3, <2>4, <2>5, <2>6, Zenon
<1>7. ASSUME NEW j \in Len(out) + 1 .. Len(out) + n
      PROVE  out'[j] = <<Full + 1 + (j - 1) \div Rate, (j - 1) % Rate, {}>>
  <2> DEFINE r == from + (j - Len(out)) - 1
             c == k * Rate
  <2>1. j - Len(out) \in 1 .. n /\ r \in 0 .. Rate - 1
    BY <1>1
  <2>2. j - 1 = k * Rate + r
    <3>1. c \in Nat /\ Len(out) = c + from
      BY <1>2
    <3> HIDE DEF c
    <3>2. j - 1 = c + r
      BY <3>1
    <3> QED
      BY <3>2 DEF c
  <2>3. (j - 1) \div Rate = k /\ (j - 1) % Rate = r
    <3> HIDE DEF k, r
    <3> QED
      BY <1>2, <2>1, <2>2, Division
  <2>4. out'[j] = <<Len(past'), r, {}>>
    BY <1>4, <1>6, <2>1
  <2>5. Full + 1 + k = Len(past')
    BY <1>1
  <2> QED
    BY <2>3, <2>4, <2>5
<1>8. OutputStream'
  <2> SUFFICES ASSUME NEW j \in 1 .. Len(out) + n
               PROVE  out'[j] = <<Full + 1 + (j - 1) \div Rate, (j - 1) % Rate, {}>>
    BY <1>6 DEF OutputStream, Full
  <2>0. Len(out) \in Nat /\ j \in Nat
    BY <1>1
  <2>1. CASE j <= Len(out)
    <3>1. j \in 1 .. Len(out)
      BY <2>0, <2>1
    <3> QED
      BY <1>6, <3>1 DEF Inv, OutputStream, Full
  <2>2. CASE j > Len(out)
    <3>1. j \in Len(out) + 1 .. Len(out) + n
      BY <2>0, <2>2
    <3> QED
      BY <1>7, <3>1
  <2>3. j <= Len(out) \/ j > Len(out)
    BY <2>0
  <2> QED
    BY <2>1, <2>2, <2>3, Zenon
<1> QED
  BY <1>6, <1>8

\* Once a block of output has been started, the state holds no input.
LEMMA StateIsClear == Inv /\ phase # "absorb" /\ Len(past) > Full => s = Clear
<1> SUFFICES ASSUME Inv, phase # "absorb", Len(past) > Full PROVE s = Clear
  OBVIOUS
<1>1. in \in Nat /\ Len(past) \in Nat
  BY DEF Inv, TypeOK
<1>2. s = PaddedBlock(in, Len(past))
  BY <1>1 DEF Inv, PaddedMessage
<1> QED
  BY <1>1, <1>2, Beyond, EmptyPadded DEF Full

\* (Len(past') - Full - 1) * Rate blocks are out when a new block is begun.
LEMMA NewBlock ==
  ASSUME Inv, phase # "absorb", pos = Rate, NEW l, l = Len(past) + 1
  PROVE  Len(out) = (l - Full - 1) * Rate + 0
<1> USE SpongeAssumption
<1> DEFINE d == Len(past) - Full
<1>0. Len(past) \in Nat /\ Full \in Nat
  <2>1. in \in Nat /\ Len(past) \in Nat
    BY DEF Inv, TypeOK
  <2> QED
    BY <2>1, Quotient DEF Full
<1>1. d \in Nat
  BY <1>0 DEF Inv, SqueezeInv
<1>2. Len(out) = (d - 1) * Rate + Rate
  BY DEF Inv, SqueezeInv
<1>3. l - Full - 1 = d
  BY <1>0
<1> HIDE DEF d
<1>4. d * Rate \in Nat /\ (d - 1) * Rate + Rate = d * Rate
  BY <1>1, SMT
<1>5. d * Rate = d * Rate + 0
  BY <1>4
<1> QED
  BY <1>2, <1>3, <1>4, <1>5, Zenon

LEMMA SqueezeStepInv == Inv /\ SqueezeStep => Inv'
<1> SUFFICES ASSUME Inv, SqueezeStep PROVE Inv'
  OBVIOUS
<1> USE SpongeAssumption
<1> DEFINE from == IF pos = Rate THEN 0 ELSE pos
           n == IF Rate - from < len THEN Rate - from ELSE len
<1>1. /\ pc = "squeeze" /\ len > 0 /\ UNCHANGED <<pc, phase, in>>
      /\ past' = (IF pos = Rate THEN Append(past, s) ELSE past)
      /\ s' = (IF pos = Rate THEN Clear ELSE s)
      /\ out' = out \o Extract(past', s', from, n)
      /\ len' = len - n /\ pos' = from + n
  BY DEF SqueezeStep
<1>2. /\ pos \in 0 .. Rate /\ len \in 0 .. MaxIn + MaxOut /\ past \in Seq(State) /\ s \in State
      /\ phase # "absorb" /\ in \in Nat
  BY <1>1 DEF Inv, TypeOK, AbsorbInv
<1>3. from \in 0 .. Rate - 1 /\ n \in 0 .. Rate - from /\ n <= len
  BY <1>2
<1> HIDE DEF n
<1>4. Full' = Full /\ Full \in Nat
  BY <1>1, <1>2, Quotient DEF Full
<1>5. /\ past' \in Seq(State) /\ Len(past') > Full /\ s' = Clear /\ PaddedMessage'
      /\ Len(out) = (Len(past') - Full - 1) * Rate + from
  <2>1. CASE pos = Rate
    <3>1. past' \in Seq(State) /\ Len(past') = Len(past) + 1 /\ PaddedMessage' /\ s' = Clear
      BY <1>1, <1>2, <2>1, PermuteInv
    <3>2. Len(past) \in Nat /\ Full <= Len(past)
      BY <1>2 DEF Inv, SqueezeInv
    <3>3. Len(past') > Full
      BY <1>4, <3>1, <3>2
    <3>4. Len(out) = (Len(past') - Full - 1) * Rate + from
      <4>1. Len(out) = (Len(past') - Full - 1) * Rate + 0
        BY <1>2, <2>1, <3>1, NewBlock
      <4>2. from = 0
        BY <2>1
      <4> HIDE DEF from
      <4> QED
        BY <4>1, <4>2, Zenon
    <3> QED
      BY <3>1, <3>3, <3>4
  <2>2. CASE pos # Rate
    <3>1. /\ past' = past /\ s' = s /\ from = pos
      BY <1>1, <2>2
    <3>2. Len(past) > Full /\ Len(out) = (Len(past) - Full - 1) * Rate + pos
      BY <1>2, <1>4, <2>2 DEF Inv, SqueezeInv
    <3>3. s = Clear
      BY <1>2, <3>2, StateIsClear
    <3>4. PaddedMessage'
      BY <1>1, <3>1 DEF Inv, PaddedMessage
    <3> QED
      BY <1>2, <3>1, <3>2, <3>3, <3>4
  <2> QED
    BY <2>1, <2>2
<1>6. /\ OutputStream' /\ out' \in Seq(Nat \X Bytes \X SUBSET Terms)
      /\ Len(out') = Len(out) + n
  <2>1. from \in 0 .. Rate
    BY <1>3
  <2> HIDE DEF from
  <2> QED
    BY <1>1, <1>3, <1>5, <2>1, Emit
<1> HIDE DEF from
<1>7. pos' \in 0 .. Rate /\ len' \in 0 .. MaxIn + MaxOut
  BY <1>1, <1>2, <1>3
<1>8. TypeOK'
  BY <1>1, <1>2, <1>5, <1>6, <1>7, ClearInState DEF Inv, TypeOK
<1>9. Len(out') = (Len(past') - Full - 1) * Rate + pos'
  <2> DEFINE c == (Len(past') - Full - 1) * Rate
  <2>1. Len(past') - Full - 1 \in Nat
    BY <1>4, <1>5
  <2>2. c \in Nat /\ Len(out) = c + from
    BY <1>5, <2>1, Product
  <2> HIDE DEF c
  <2>3. Len(out') = c + pos'
    BY <1>1, <1>3, <1>6, <2>2
  <2> QED
    BY <2>3 DEF c
<1>10. SqueezeInv'
  BY <1>1, <1>4, <1>5, <1>9 DEF SqueezeInv
<1> QED
  BY <1>1, <1>2, <1>5, <1>6, <1>8, <1>10 DEF Inv, AbsorbInv

LEMMA SqueezeBlockInv == Inv /\ SqueezeBlock => Inv'
<1> SUFFICES ASSUME Inv, SqueezeBlock PROVE Inv'
  OBVIOUS
<1> USE SpongeAssumption
<1>1. /\ pc = "blocks" /\ len > 0 /\ UNCHANGED <<pc, phase, pos, in>>
      /\ past' = Append(past, s) /\ s' = Clear
      /\ out' = out \o Extract(past', s', 0, Rate)
      /\ len' = len - 1
  BY DEF SqueezeBlock
<1>2. /\ len \in 0 .. MaxIn + MaxOut /\ past \in Seq(State) /\ phase # "absorb" /\ in \in Nat
      /\ pos = Rate
  BY <1>1 DEF Inv, TypeOK, AbsorbInv, SqueezeInv
<1>3. Full' = Full /\ Full \in Nat /\ Full <= Len(past) /\ Len(past) \in Nat
  <2>1. Full' = Full /\ Full \in Nat
    BY <1>1, <1>2, Quotient DEF Full
  <2> QED
    BY <1>2, <2>1 DEF Inv, SqueezeInv
<1>4. /\ past' \in Seq(State) /\ Len(past') = Len(past) + 1 /\ PaddedMessage'
  BY <1>1, <1>2, PermuteInv
<1>5. Len(past') > Full /\ Len(out) = (Len(past') - Full - 1) * Rate + 0
  BY <1>2, <1>3, <1>4, NewBlock
<1>6. /\ OutputStream' /\ out' \in Seq(Nat \X Bytes \X SUBSET Terms)
      /\ Len(out') = Len(out) + Rate
  <2>1. 0 \in 0 .. Rate /\ Rate \in 0 .. Rate - 0
    OBVIOUS
  <2> QED
    BY <1>1, <1>4, <1>5, <2>1, Emit
<1>7. TypeOK'
  BY <1>1, <1>2, <1>4, <1>6, ClearInState DEF Inv, TypeOK
<1>8. Len(out') = (Len(past') - Full - 1) * Rate + pos'
  <2> DEFINE c == (Len(past') - Full - 1) * Rate
  <2>1. Len(past') - Full - 1 \in Nat
    BY <1>3, <1>4
  <2>2. c \in Nat /\ Len(out) = c + 0
    BY <1>5, <2>1, Product
  <2> HIDE DEF c
  <2>3. Len(out') = c + pos'
    BY <1>1, <1>2, <1>6, <2>2
  <2> QED
    BY <2>3 DEF c
<1>9. SqueezeInv'
  BY <1>1, <1>2, <1>3, <1>5, <1>8 DEF SqueezeInv
<1> QED
  BY <1>1, <1>2, <1>4, <1>6, <1>7, <1>9 DEF Inv, AbsorbInv

LEMMA DigestInv == Inv /\ Digest => Inv'
<1> SUFFICES ASSUME Inv, Digest PROVE Inv'
  OBVIOUS
<1> USE SpongeAssumption
<1>1. /\ pc = "digest" /\ pc' = "idle" /\ UNCHANGED <<phase, in, len>>
      /\ past' = Append(past, s) /\ s' = Clear /\ pos' = HashBytes
      /\ out' = Extract(past', s', 0, HashBytes)
  BY DEF Digest
<1>2. /\ past \in Seq(State) /\ phase # "absorb" /\ in \in Nat
      /\ out \in Seq(Nat \X Bytes \X SUBSET Terms)
  BY <1>1 DEF Inv, TypeOK, AbsorbInv
<1>3. Full' = Full /\ Full \in Nat /\ Len(past) = Full /\ pos = Rate
  <2>1. Full' = Full /\ Full \in Nat
    BY <1>1, <1>2, Quotient DEF Full
  <2> QED
    BY <1>1, <1>2, <2>1 DEF Inv, SqueezeInv
<1>4. past' \in Seq(State) /\ Len(past') = Full + 1 /\ PaddedMessage'
  BY <1>1, <1>2, <1>3, PermuteInv
<1>5. Len(out) = (Len(past') - Full - 1) * Rate + 0
  BY <1>2, <1>3, <1>4, NewBlock
<1>6. Len(out) = 0 /\ out = <<>>
  <2>1. Len(out) = 0
    BY <1>3, <1>4, <1>5
  <2> QED
    BY <1>2, <2>1
<1>7. out' = out \o Extract(past', s', 0, HashBytes)
  BY <1>1, <1>6 DEF Extract
<1>8. /\ OutputStream' /\ out' \in Seq(Nat \X Bytes \X SUBSET Terms)
      /\ Len(out') = HashBytes
  <2>1. 0 \in 0 .. Rate /\ HashBytes \in 0 .. Rate - 0 /\ Len(past') > Full
    BY <1>3, <1>4
  <2> QED
    BY <1>1, <1>4, <1>5, <1>6, <1>7, <2>1, Emit
<1>9. TypeOK'
  BY <1>1, <1>2, <1>4, <1>8, ClearInState DEF Inv, TypeOK
<1>10. SqueezeInv'
  BY <1>1, <1>3, <1>4, <1>8 DEF SqueezeInv
<1> QED
  BY <1>1, <1>2, <1>4, <1>8, <1>9, <1>10 DEF Inv, AbsorbInv

LEMMA StutterInv == Inv /\ UNCHANGED vars => Inv'
BY DEF vars, Inv, TypeOK, AbsorbInv, SqueezeInv, Full, PaddedMessage, OutputStream

LEMMA Invariance == Spec => []Inv
<1>1. Inv /\ [Next]_vars => Inv'
  BY BeginInv, ShakeAbsorbInv, AbsorbStepInv, AbsorbTailInv, FinalizeInv, OnceTailInv,
     SqueezeBeginInv, SqueezeStepInv, SqueezeBlockInv, DigestInv, StutterInv DEF Next
<1> QED
  BY InitInv, <1>1, PTL DEF Spec

-------------------------------------------------------------------------------
(***************************************************************************)
(* The theorems.                                                           *)
(***************************************************************************)
\* keccak_absorb never leaves a full block behind, and no access to the state
\* or to an output buffer is out of bounds.
THEOREM TypeCorrect == Spec => []TypeOK
<1>1. Inv => TypeOK
  BY DEF Inv
<1> QED
  BY Invariance, <1>1, PTL

\* For every rate and every way to cut a message of any length into calls, the
\* state takes in the padded message of FIPS 202.
THEOREM MessageIsPadded == Spec => []PaddedMessage
<1>1. Inv => PaddedMessage
  BY DEF Inv
<1> QED
  BY Invariance, <1>1, PTL

\* For every way to cut the output into calls, the caller gets the stream.
THEOREM OutputIsTheStream == Spec => []OutputStream
<1>1. Inv => OutputStream
  BY DEF Inv
<1> QED
  BY Invariance, <1>1, PTL

-------------------------------------------------------------------------------
(***************************************************************************)
(* The permutation.  First, rotations of lanes.                            *)
(***************************************************************************)

\* The lane a rotated by n places, as FIPS 202 writes it.
Rotated(a, n) == {(z + n) % 64 : z \in a}

\* The sum of two lanes is a lane.
LEMMA SumSubset == ASSUME NEW a \in SUBSET Bits, NEW b \in SUBSET Bits PROVE a (+) b \in SUBSET Bits
BY DEF (+)

\* The bits of a lane shifted left.
LEMMA ShiftLeft ==
  ASSUME NEW a \in SUBSET Bits, NEW n \in 1 .. 63, NEW z \in Int
  PROVE  z \in {x + n : x \in {y \in a : y + n \in Bits}} <=> z - n \in a /\ z \in Bits
<1>1. ASSUME NEW x \in {y \in a : y + n \in Bits}, z = x + n PROVE z - n \in a /\ z \in Bits
  BY <1>1 DEF Bits
<1>2. ASSUME z - n \in a, z \in Bits PROVE \E x \in {y \in a : y + n \in Bits} : z = x + n
  BY <1>2 DEF Bits
<1>3. QED
  BY <1>1, <1>2

\* The bits of a lane shifted right.
LEMMA ShiftRight ==
  ASSUME NEW a \in SUBSET Bits, NEW n \in 1 .. 63, NEW z \in Int
  PROVE  z \in {x - (64 - n) : x \in {y \in a : y >= 64 - n}} <=> z + 64 - n \in a /\ z >= 0
<1>1. ASSUME NEW x \in {y \in a : y >= 64 - n}, z = x - (64 - n)
      PROVE  z + 64 - n \in a /\ z >= 0
  BY <1>1 DEF Bits
<1>2. ASSUME z + 64 - n \in a, z >= 0
      PROVE  \E x \in {y \in a : y >= 64 - n} : z = x - (64 - n)
  <2> DEFINE x == z + 64 - n
  <2>1. x \in {y \in a : y >= 64 - n} /\ z = x - (64 - n)
    BY <1>2 DEF Bits
  <2>2. QED
    BY <2>1
<1>3. QED
  BY <1>1, <1>2

\* Bit by bit, what a rotation makes of a lane.
LEMMA RotatedBit ==
  ASSUME NEW a \in SUBSET Bits, NEW n \in 0 .. 63, NEW z
  PROVE  z \in Rotated(a, n) <=> z \in Bits /\ (z + 64 - n) % 64 \in a
<1>1. ASSUME NEW x \in a, z = (x + n) % 64 PROVE z \in Bits /\ (z + 64 - n) % 64 \in a
  <2>1. x \in 0 .. 63 /\ z = IF x + n < 64 THEN x + n ELSE x + n - 64
    BY <1>1 DEF Bits
  <2>2. (z + 64 - n) % 64 = x
    BY <2>1
  <2>3. QED
    BY <2>1, <2>2 DEF Bits
<1>2. ASSUME z \in Bits, (z + 64 - n) % 64 \in a PROVE \E x \in a : z = (x + n) % 64
  <2> DEFINE x == (z + 64 - n) % 64
  <2>1. x = IF z >= n THEN z - n ELSE z + 64 - n
    <3>1. z \in 0 .. 63
      BY <1>2 DEF Bits
    <3>2. \A m \in 1 .. 127 : m % 64 = IF m >= 64 THEN m - 64 ELSE m
      OBVIOUS
    <3>3. z + 64 - n \in 1 .. 127
      BY <3>1
    <3>4. QED
      BY <3>1, <3>2, <3>3
  <2>2. (x + n) % 64 = z
    BY <2>1, <1>2 DEF Bits
  <2>3. QED
    BY <1>2, <2>2
<1>3. QED
  BY <1>1, <1>2 DEF Rotated

\* MLD_KECCAK_ROL, two shifts and a sum, is the rotation.
LEMMA RolIsRotated ==
  ASSUME NEW a \in SUBSET Bits, NEW n \in 1 .. 63
  PROVE  Rol(a, n) = Rotated(a, n)
<1> DEFINE high == {x + n : x \in {y \in a : y + n \in Bits}}
           low == {x - (64 - n) : x \in {y \in a : y >= 64 - n}}
<1>0. high \subseteq Int /\ low \subseteq Int
  BY DEF Bits
<1>1. ASSUME NEW z \in Int PROVE z \in high (+) low <=> z \in Rotated(a, n)
  <2>1. z \in high <=> z - n \in a /\ z \in Bits
    BY ShiftLeft
  <2>2. z \in low <=> z + 64 - n \in a /\ z >= 0
    BY ShiftRight
  <2> HIDE DEF high, low
  <2>3. z \in Bits => (z + 64 - n) % 64 = IF z >= n THEN z - n ELSE z + 64 - n
    BY DEF Bits
  <2>4. z \in Rotated(a, n) <=> z \in Bits /\ (z + 64 - n) % 64 \in a
    <3>1. n \in 0 .. 63
      OBVIOUS
    <3>2. QED
      BY <3>1, RotatedBit
  <2>5. z + 64 - n \in a => z < n
    BY DEF Bits
  <2>6. z - n \in a => z >= n
    BY DEF Bits
  <2>7. z \in high (+) low <=> (z \in high /\ z \notin low) \/ (z \in low /\ z \notin high)
    BY DEF (+)
  <2>8. CASE z \in Bits /\ z >= n
    BY <2>1, <2>2, <2>3, <2>4, <2>5, <2>7, <2>8
  <2>9. CASE z \in Bits /\ z < n
    BY <2>1, <2>2, <2>3, <2>4, <2>6, <2>7, <2>9 DEF Bits
  <2>10. CASE z \notin Bits
    BY <2>1, <2>2, <2>4, <2>5, <2>7, <2>10 DEF Bits
  <2>11. QED
    BY <2>8, <2>9, <2>10 DEF Bits
<1>2. Rotated(a, n) \subseteq Int
  BY RotatedBit DEF Bits
<1>3. high (+) low \subseteq Int
  BY <1>0 DEF (+)
<1>4. Rol(a, n) = high (+) low
  BY DEF Rol
<1> HIDE DEF high, low
<1>5. QED
  BY <1>1, <1>2, <1>3, <1>4

\* The tables rho8 and rho56 take a byte from the one below, or above, in its lane.
LEMMA ShuffleTable ==
  \A w \in Ways, q \in 0 .. 7 :
    /\ (Rho8[w + 1][q + 1] % 16) = 8 * (w % 2) + ((q + 7) % 8)
    /\ (Rho56[w + 1][q + 1] % 16) = 8 * (w % 2) + ((q + 1) % 8)
BY DEF Rho8, Rho56, Ways

\* vpshufb with these tables rotates each of the four lanes by 8, or by 56.
LEMMA ShuffleIsRotated ==
  ASSUME NEW v \in [Ways -> SUBSET Bits], NEW n \in {8, 56}, NEW w \in Ways
  PROVE  ShuffleBytes(v, IF n = 8 THEN Rho8 ELSE Rho56)[w] = Rotated(v[w], n)
<1> DEFINE table == IF n = 8 THEN Rho8 ELSE Rho56
<1>1. ASSUME NEW z \in Bits
      PROVE  LET byte == table[w + 1][(z \div 8) + 1] % 16
             IN  /\ 8 * (byte % 8) + (z % 8) = (z + 64 - n) % 64
                 /\ 2 * (w \div 2) + (byte \div 8) = w
  <2> DEFINE q == z \div 8
             byte == table[w + 1][q + 1] % 16
             step == IF n = 8 THEN 7 ELSE 1
  <2>1. q \in 0 .. 7 /\ z = 8 * q + (z % 8) /\ z % 8 \in 0 .. 7
    BY DEF Bits
  <2>2. byte = 8 * (w % 2) + ((q + step) % 8)
    BY <2>1, ShuffleTable
  <2>3. w \in 0 .. 3
    BY DEF Ways
  <2> HIDE DEF q, byte
  <2>4. (q + step) % 8 \in 0 .. 7 /\ step \in {1, 7}
    BY <2>1
  <2>5. byte % 8 = (q + step) % 8 /\ byte \div 8 = w % 2
    BY <2>2, <2>3, <2>4
  <2>6. 2 * (w \div 2) + (byte \div 8) = w
    BY <2>3, <2>5
  <2>7. (z + 64 - n) % 64 = 8 * ((q + step) % 8) + (z % 8)
    <3>1. CASE n = 8
      BY <3>1, <2>1
    <3>2. CASE n = 56
      BY <3>2, <2>1
    <3>3. QED
      BY <3>1, <3>2
  <2>8. QED
    BY <2>5, <2>6, <2>7 DEF byte, q
<1>2. ASSUME NEW z \in Bits
      PROVE  z \in ShuffleBytes(v, table)[w] <=> (z + 64 - n) % 64 \in v[w]
  BY <1>1, <1>2 DEF ShuffleBytes
<1>3. ShuffleBytes(v, table)[w] \subseteq Bits
  BY DEF ShuffleBytes
<1>4. v[w] \in SUBSET Bits
  OBVIOUS
<1> HIDE DEF table
<1>5. \A z : z \in ShuffleBytes(v, table)[w] <=> z \in Rotated(v[w], n)
  BY <1>2, <1>3, <1>4, RotatedBit
<1>6. QED
  BY <1>5 DEF table

-------------------------------------------------------------------------------
(***************************************************************************)
(* The round constants: the register of algorithm 5 in closed form, and the*)
(* table of keccakf1600.c from it.                                         *)
(***************************************************************************)

\* The steps of algorithm 5 after which bit 0 of its register is 1, counted from the
\* start of the permutation; those before it are such that the register starts as {0}.
Ones == {
  -6, -5, -4, 0, 8, 10, 11, 15, 16, 17, 18, 20, 25, 26, 27, 28, 29, 30, 31,
  32, 35, 40, 42, 45, 46, 47, 48, 49, 51, 53, 55, 57, 58, 59, 65, 66, 70,
  72, 74, 75, 78, 79, 82, 84, 85, 86, 87, 88, 89, 91, 92, 93, 94, 97, 98,
  100, 101, 102, 104, 105, 106, 109, 111, 113, 116, 118, 122, 125, 127,
  128, 130, 134, 135, 138, 139, 140, 143, 144, 145, 146, 150, 151, 153,
  154, 159, 163, 165, 166, 167 }

Odd(p, q) == ~(p <=> q)

FirstAt(n) == n \in Ones          \* bit 0 of the register after n steps

\* Bit 7 of the register, which is bit 0 of the next.
NextAt(n) == Odd(Odd(FirstAt(n - 7), FirstAt(n - 3)), Odd(FirstAt(n - 2), FirstAt(n - 1)))

\* The register after n steps, in closed form.
RegisterAt(n) ==
  {b \in 0 .. 7 :
     \/ b = 0 /\ FirstAt(n)
     \/ b = 1 /\ FirstAt(n - 1)
     \/ b = 2 /\ FirstAt(n - 2)
     \/ b = 3 /\ FirstAt(n - 3)
     \/ b = 4 /\ Odd(FirstAt(n - 4), FirstAt(n))
     \/ b = 5 /\ Odd(Odd(FirstAt(n - 5), FirstAt(n - 1)), FirstAt(n))
     \/ b = 6 /\ Odd(Odd(FirstAt(n - 6), FirstAt(n - 2)), Odd(FirstAt(n - 1), FirstAt(n)))
     \/ b = 7 /\ NextAt(n)}

\* Ones satisfies the recurrence of the register.
LEMMA Recurrence == \A n \in 0 .. 167 : FirstAt(n + 1) <=> NextAt(n)
BY SMTT(120) DEF FirstAt, NextAt, Odd, Ones

\* The register starts with its first bit alone.
LEMMA RegisterStart == RegisterAt(0) = {0}
BY SMTT(60) DEF RegisterAt, FirstAt, NextAt, Odd, Ones

\* A step of algorithm 5 takes the closed form to the next.
LEMMA RegisterStep ==
  ASSUME NEW n \in 0 .. 167
  PROVE  LfsrStep(RegisterAt(n)) = RegisterAt(n + 1)
<1> DEFINE old == RegisterAt(n)
           shifted == {b + 1 : b \in old}
           new == LfsrStep(old)
<1>1. old \subseteq 0 .. 7 /\ new \subseteq 0 .. 7 /\ shifted \subseteq 1 .. 8
  BY DEF RegisterAt, LfsrStep, (+)
<1>2. \A b \in 1 .. 8 : b \in shifted <=> b - 1 \in old
  BY <1>1
<1>3. new = (IF 8 \in shifted THEN shifted (+) {0, 4, 5, 6} ELSE shifted) \ {8}
  BY DEF LfsrStep
<1> HIDE DEF new, shifted, old
<1>4. \A b \in 0 .. 7 :
        b \in new <=> IF b \in {0, 4, 5, 6} THEN Odd(b > 0 /\ b - 1 \in old, 7 \in old)
                     ELSE b - 1 \in old
  BY <1>1, <1>2, <1>3 DEF (+), Odd
<1>5. 7 \in old <=> FirstAt(n + 1)
  BY Recurrence DEF old, RegisterAt
<1>6. \A b \in 0 .. 7 : b \in new <=> b \in RegisterAt(n + 1)
  <2>0. /\ n + 1 - 1 = n /\ n + 1 - 2 = n - 1 /\ n + 1 - 3 = n - 2 /\ n + 1 - 4 = n - 3
        /\ n + 1 - 5 = n - 4 /\ n + 1 - 6 = n - 5 /\ n + 1 - 7 = n - 6
    OBVIOUS
  <2>1. /\ 0 \in new <=> FirstAt(n + 1)
        /\ 1 \in new <=> FirstAt(n)
        /\ 2 \in new <=> FirstAt(n - 1)
        /\ 3 \in new <=> FirstAt(n - 2)
        /\ 4 \in new <=> Odd(FirstAt(n - 3), FirstAt(n + 1))
        /\ 5 \in new <=> Odd(Odd(FirstAt(n - 4), FirstAt(n)), FirstAt(n + 1))
        /\ 6 \in new <=> Odd(Odd(Odd(FirstAt(n - 5), FirstAt(n - 1)), FirstAt(n)), FirstAt(n + 1))
        /\ 7 \in new <=> Odd(Odd(FirstAt(n - 6), FirstAt(n - 2)), Odd(FirstAt(n - 1), FirstAt(n)))
    BY <1>4, <1>5 DEF old, RegisterAt, Odd
  <2>2. /\ 0 \in RegisterAt(n + 1) <=> FirstAt(n + 1)
        /\ 1 \in RegisterAt(n + 1) <=> FirstAt(n)
        /\ 2 \in RegisterAt(n + 1) <=> FirstAt(n - 1)
        /\ 3 \in RegisterAt(n + 1) <=> FirstAt(n - 2)
        /\ 4 \in RegisterAt(n + 1) <=> Odd(FirstAt(n - 3), FirstAt(n + 1))
        /\ 5 \in RegisterAt(n + 1) <=> Odd(Odd(FirstAt(n - 4), FirstAt(n)), FirstAt(n + 1))
        /\ 6 \in RegisterAt(n + 1)
             <=> Odd(Odd(FirstAt(n - 5), FirstAt(n - 1)), Odd(FirstAt(n), FirstAt(n + 1)))
        /\ 7 \in RegisterAt(n + 1)
             <=> Odd(Odd(FirstAt(n - 6), FirstAt(n - 2)), Odd(FirstAt(n - 1), FirstAt(n)))
    BY <2>0 DEF RegisterAt, NextAt
  <2>3. QED
    BY <2>1, <2>2 DEF Odd
<1>7. RegisterAt(n + 1) \subseteq 0 .. 7
  BY DEF RegisterAt
<1>8. QED
  BY <1>1, <1>6, <1>7 DEF new, old

\* As do up to seven of them, those of a round.
LEMMA RegisterAfter ==
  ASSUME NEW m \in 0 .. 161, NEW n \in 0 .. 7
  PROVE  Register(RegisterAt(m), n) = RegisterAt(m + n)
<1> DEFINE R == RegisterAt(m)
           Runs(g) == g = [q \in 0 .. n |-> IF q = 0 THEN R ELSE LfsrStep(g[q - 1])]
           run == [q \in 0 .. n |-> RegisterAt(m + q)]
<1>1. Register(R, n) = (CHOOSE g : Runs(g))[n]
  BY DEF Register
<1>2. Runs(run)
  <2>1. ASSUME NEW q \in 0 .. n
        PROVE  run[q] = IF q = 0 THEN R ELSE LfsrStep(run[q - 1])
    <3>1. CASE q = 0
      BY <3>1
    <3>2. CASE q # 0
      <4>1. q - 1 \in 0 .. n /\ m + (q - 1) \in 0 .. 167 /\ (m + (q - 1)) + 1 = m + q
        BY <3>2
      <4>2. LfsrStep(RegisterAt(m + (q - 1))) = RegisterAt((m + (q - 1)) + 1)
        BY <4>1, RegisterStep
      <4>3. QED
        BY <3>2, <4>1, <4>2
    <3>3. QED
      BY <3>1, <3>2
  <2>2. QED
    BY <2>1
<1>3. PICK g : Runs(g) /\ Register(R, n) = g[n]
  <2> HIDE DEF Runs
  <2>1. Runs(CHOOSE g : Runs(g))
    BY <1>2
  <2>2. QED
    BY <1>1, <2>1
<1>4. g[0] = R /\ \A q \in 1 .. n : g[q] = LfsrStep(g[q - 1])
  <2>1. \A q \in 0 .. n : g[q] = IF q = 0 THEN R ELSE LfsrStep(g[q - 1])
    BY <1>3
  <2>2. QED
    BY <2>1
<1> DEFINE Follows(q) == q <= n => g[q] = RegisterAt(m + q)
<1>5. Follows(0)
  BY <1>4
<1>6. ASSUME NEW q \in 0 .. 6, Follows(q) PROVE Follows(q + 1)
  <2>1. SUFFICES ASSUME q + 1 <= n PROVE g[q + 1] = RegisterAt(m + (q + 1))
    OBVIOUS
  <2>2. g[q + 1] = LfsrStep(g[q]) /\ g[q] = RegisterAt(m + q)
    BY <1>4, <1>6, <2>1
  <2>3. m + q \in 0 .. 167 /\ (m + q) + 1 = m + (q + 1)
    OBVIOUS
  <2>4. QED
    BY <2>2, <2>3, RegisterStep
<1> HIDE DEF Follows
<1>7. Follows(1)
  BY <1>5, <1>6
<1>8. Follows(2)
  BY <1>6, <1>7
<1>9. Follows(3)
  BY <1>6, <1>8
<1>10. Follows(4)
  BY <1>6, <1>9
<1>11. Follows(5)
  BY <1>6, <1>10
<1>12. Follows(6)
  BY <1>6, <1>11
<1>13. Follows(7)
  BY <1>6, <1>12
<1>14. Follows(n)
  BY <1>5, <1>7, <1>8, <1>9, <1>10, <1>11, <1>12, <1>13
<1>15. QED
  BY <1>3, <1>14 DEF Follows

\* The table of round constants has the bits that algorithm 5 gives.
LEMMA RoundConstantsFromOnes ==
  \A m \in 0 .. 23 :
    RoundConstants[m + 1] = {2 ^ q - 1 : q \in {n \in 0 .. 6 : FirstAt(7 * m + n)}}
<1>1. ASSUME NEW m \in 0 .. 23
      PROVE /\ 0 \in RoundConstants[m + 1] <=> FirstAt(7 * m)
            /\ 1 \in RoundConstants[m + 1] <=> FirstAt(7 * m + 1)
            /\ 3 \in RoundConstants[m + 1] <=> FirstAt(7 * m + 2)
            /\ 7 \in RoundConstants[m + 1] <=> FirstAt(7 * m + 3)
            /\ 15 \in RoundConstants[m + 1] <=> FirstAt(7 * m + 4)
            /\ 31 \in RoundConstants[m + 1] <=> FirstAt(7 * m + 5)
            /\ 63 \in RoundConstants[m + 1] <=> FirstAt(7 * m + 6)
            /\ RoundConstants[m + 1] \subseteq {0, 1, 3, 7, 15, 31, 63}
  BY SMTT(120) DEF FirstAt, Ones, RoundConstants
<1>2. 2 ^ 0 - 1 = 0 /\ 2 ^ 1 - 1 = 1 /\ 2 ^ 2 - 1 = 3 /\ 2 ^ 3 - 1 = 7 /\ 2 ^ 4 - 1 = 15
      /\ 2 ^ 5 - 1 = 31 /\ 2 ^ 6 - 1 = 63
  OBVIOUS
<1>3. ASSUME NEW m \in 0 .. 23
      PROVE  RoundConstants[m + 1] = {2 ^ q - 1 : q \in {n \in 0 .. 6 : FirstAt(7 * m + n)}}
  <2> DEFINE at(q) == 2 ^ q - 1
             T == {n \in 0 .. 6 : FirstAt(7 * m + n)}
             S == {at(q) : q \in T}
  <2>1. /\ at(0) = 0 /\ at(1) = 1 /\ at(2) = 3 /\ at(3) = 7 /\ at(4) = 15 /\ at(5) = 31
        /\ at(6) = 63
    BY <1>2
  <2>2. \A q \in T : q = 0 \/ q = 1 \/ q = 2 \/ q = 3 \/ q = 4 \/ q = 5 \/ q = 6
    OBVIOUS
  <2>3. /\ 0 \in T <=> FirstAt(7 * m)
        /\ 1 \in T <=> FirstAt(7 * m + 1)
        /\ 2 \in T <=> FirstAt(7 * m + 2)
        /\ 3 \in T <=> FirstAt(7 * m + 3)
        /\ 4 \in T <=> FirstAt(7 * m + 4)
        /\ 5 \in T <=> FirstAt(7 * m + 5)
        /\ 6 \in T <=> FirstAt(7 * m + 6)
    OBVIOUS
  <2> HIDE DEF at, T
  <2>4. \A v : v \in S <=> v \in RoundConstants[m + 1]
    <3>1. S \subseteq {0, 1, 3, 7, 15, 31, 63}
      BY <2>1, <2>2
    <3>2. /\ 0 \in S <=> 0 \in T
          /\ 1 \in S <=> 1 \in T
          /\ 3 \in S <=> 2 \in T
          /\ 7 \in S <=> 3 \in T
          /\ 15 \in S <=> 4 \in T
          /\ 31 \in S <=> 5 \in T
          /\ 63 \in S <=> 6 \in T
      BY <2>1, <2>2
    <3> HIDE DEF S
    <3>3. PICK K : K = RoundConstants[m + 1]
      OBVIOUS
    <3>4. /\ 0 \in K <=> 0 \in T
          /\ 1 \in K <=> 1 \in T
          /\ 3 \in K <=> 2 \in T
          /\ 7 \in K <=> 3 \in T
          /\ 15 \in K <=> 4 \in T
          /\ 31 \in K <=> 5 \in T
          /\ 63 \in K <=> 6 \in T
          /\ K \subseteq {0, 1, 3, 7, 15, 31, 63}
      BY <1>1, <2>3, <3>3
    <3>5. \A v \in {0, 1, 3, 7, 15, 31, 63} : v \in S <=> v \in K
      BY <3>2, <3>4
    <3>6. QED
      <4>1. PICK Q : Q = {0, 1, 3, 7, 15, 31, 63}
        OBVIOUS
      <4>2. S \subseteq Q /\ K \subseteq Q /\ \A v \in Q : v \in S <=> v \in K
        BY <3>1, <3>4, <3>5, <4>1
      <4>3. QED
        BY <3>3, <4>2
  <2>5. QED
    BY <2>4 DEF at, T
<1>4. QED
  BY <1>3

\* iota of round m adds the constant of the table, and leaves the register of round m + 1.
LEMMA IotaOfRegister ==
  ASSUME NEW m \in 0 .. 23
  PROVE  /\ RefIota(RegisterAt(7 * m)) = RoundConstants[m + 1]
         /\ Register(RegisterAt(7 * m), 7) = RegisterAt(7 * (m + 1))
<1>1. 7 * m \in 0 .. 161 /\ (m < 23 => 7 * m \in 0 .. 160)
  OBVIOUS
<1>2. ASSUME NEW n \in 0 .. 6
      PROVE  0 \in Register(RegisterAt(7 * m), n) <=> FirstAt(7 * m + n)
  <2>1. 7 * m \in 0 .. 161 /\ n \in 0 .. 6
    BY <1>1
  <2>2. Register(RegisterAt(7 * m), n) = RegisterAt(7 * m + n)
    BY <2>1, RegisterAfter
  <2>3. QED
    BY <2>2 DEF RegisterAt
<1>3. RefIota(RegisterAt(7 * m)) = {2 ^ q - 1 : q \in {n \in 0 .. 6 : FirstAt(7 * m + n)}}
  BY <1>2 DEF RefIota
<1>4. Register(RegisterAt(7 * m), 7) = RegisterAt(7 * (m + 1))
  BY <1>1, RegisterAfter
<1>5. QED
  BY <1>3, <1>4, RoundConstantsFromOnes

-------------------------------------------------------------------------------
(***************************************************************************)
(* rho and pi: the walk of rho in closed form, and the rows of the code from*)
(* it.                                                                     *)
(***************************************************************************)

\* The column of the lane that rho reaches after a step, and the number of the step
\* that reaches a lane.
WalkX ==
  <<1, 0, 2, 1, 2, 3, 3, 0, 1, 3, 1, 4, 4, 0, 3, 4, 3, 2, 2, 0, 4, 2, 4, 1, 1>>
WalkStep ==
  <<0, 18, 6, 12, 7, 23, 2, 9, 22, 1, 3, 17, 16, 20, 13, 8, 4, 5, 15, 19, 10, 21, 14, 11>>
Triangular ==
  <<1, 3, 6, 10, 15, 21, 28, 36, 45, 55, 2, 14, 27, 41, 56, 8, 25, 43, 62, 18, 39, 61, 20, 44>>

\* The table is that of the recurrence of Walk.
LEMMA WalkXFacts ==
  /\ \A m \in 1 .. 25 : WalkX[m] \in 0 .. 4
  /\ \A m \in 1 .. 23 : WalkX[m + 2] = (2 * WalkX[m] + 3 * WalkX[m + 1]) % 5
  /\ WalkX[1] = 1 /\ WalkX[2] = 0
BY SMTT(60) DEF WalkX

\* Walk, which is recursive, has the values of the table.
LEMMA WalkValue == \A m \in 0 .. 23 : Walk[m] = [x |-> WalkX[m + 1], y |-> WalkX[m + 2]]
<1> DEFINE Next1(p) == [x |-> p.y, y |-> (2 * p.x + 3 * p.y) % 5]
           Walks(g) == g = [m \in 0 .. 23 |-> IF m = 0 THEN [x |-> 1, y |-> 0]
                                              ELSE Next1(g[m - 1])]
           walk == [m \in 0 .. 23 |-> [x |-> WalkX[m + 1], y |-> WalkX[m + 2]]]
<1>1. Walk = CHOOSE g : Walks(g)
  BY DEF Walk
<1>2. Walks(walk)
  <2>1. ASSUME NEW m \in 0 .. 23
        PROVE  walk[m] = IF m = 0 THEN [x |-> 1, y |-> 0] ELSE Next1(walk[m - 1])
    <3>1. CASE m = 0
      BY <3>1, WalkXFacts
    <3>2. CASE m # 0
      <4>1. m - 1 \in 0 .. 23 /\ m \in 1 .. 23 /\ (m - 1) + 1 = m /\ (m - 1) + 2 = m + 1
        BY <3>2
      <4>2. walk[m - 1] = [x |-> WalkX[m], y |-> WalkX[m + 1]]
        BY <4>1
      <4>3. WalkX[m + 2] = (2 * WalkX[m] + 3 * WalkX[m + 1]) % 5
        BY <4>1, WalkXFacts
      <4>4. QED
        BY <3>2, <4>2, <4>3
    <3>3. QED
      BY <3>1, <3>2
  <2>2. QED
    BY <2>1
<1>3. Walks(Walk)
  <2> HIDE DEF Walks
  <2>1. QED
    BY <1>1, <1>2
<1>4. /\ Walk[0] = [x |-> 1, y |-> 0]
      /\ \A m \in 1 .. 23 : Walk[m] = Next1(Walk[m - 1])
  <2>1. \A m \in 0 .. 23 : Walk[m] = IF m = 0 THEN [x |-> 1, y |-> 0] ELSE Next1(Walk[m - 1])
    BY <1>3
  <2>2. QED
    BY <2>1
<1> DEFINE Known(m) == Walk[m] = [x |-> WalkX[m + 1], y |-> WalkX[m + 2]]
<1>5. Known(0)
  BY <1>4, WalkXFacts
<1>6. ASSUME NEW m \in 0 .. 22, Known(m) PROVE Known(m + 1)
  <2>1. Walk[m + 1] = Next1(Walk[m])
    BY <1>4
  <2>2. m + 1 \in 1 .. 23 /\ (m + 1) + 1 = m + 2
    OBVIOUS
  <2>3. WalkX[(m + 1) + 2] = (2 * WalkX[m + 1] + 3 * WalkX[m + 2]) % 5
    BY <2>2, WalkXFacts
  <2>4. QED
    BY <1>6, <2>1, <2>2, <2>3
<1> HIDE DEF Known
<1>7. Known(1) /\ Known(2) /\ Known(3) /\ Known(4) /\ Known(5) /\ Known(6)
  BY <1>6, <1>5
<1>8. Known(7) /\ Known(8) /\ Known(9) /\ Known(10) /\ Known(11) /\ Known(12)
  BY <1>6, <1>7
<1>9. Known(13) /\ Known(14) /\ Known(15) /\ Known(16) /\ Known(17) /\ Known(18)
  BY <1>6, <1>8
<1>10. Known(19) /\ Known(20) /\ Known(21) /\ Known(22) /\ Known(23)
  BY <1>6, <1>9
<1>11. \A m \in 0 .. 23 : Known(m)
  BY <1>5, <1>7, <1>8, <1>9, <1>10
<1>12. QED
  BY <1>11 DEF Known

\* Every lane but 0 is reached once, so its offset is that of the step that reaches it.
LEMMA RhoOffsetsValue ==
  /\ RhoOffsets[0] = 0
  /\ \A n \in 1 .. 24 : RhoOffsets[n] = Triangular[WalkStep[n] + 1]
<1>1. \A m \in 0 .. 23 : WalkStep[At(WalkX[m + 1], WalkX[m + 2])] = m
  BY SMTT(60) DEF WalkX, WalkStep, At
<1>2. \A n \in 1 .. 24 : WalkStep[n] \in 0 .. 23
                         /\ At(WalkX[WalkStep[n] + 1], WalkX[WalkStep[n] + 2]) = n
  BY SMTT(60) DEF WalkX, WalkStep, At
<1>3. \A m \in 0 .. 23 : (((m + 1) * (m + 2)) \div 2) % 64 = Triangular[m + 1]
  <2>1. \A m \in 0 .. 23 : \/ m = 0 \/ m = 1 \/ m = 2 \/ m = 3 \/ m = 4 \/ m = 5 \/ m = 6 \/ m = 7
                           \/ m = 8 \/ m = 9 \/ m = 10 \/ m = 11 \/ m = 12 \/ m = 13 \/ m = 14
                           \/ m = 15 \/ m = 16 \/ m = 17 \/ m = 18 \/ m = 19 \/ m = 20
                           \/ m = 21 \/ m = 22 \/ m = 23
    OBVIOUS
  <2>2. QED
    BY <2>1, SMTT(60) DEF Triangular
<1>4. ASSUME NEW n \in 1 .. 24 PROVE RhoOffsets[n] = Triangular[WalkStep[n] + 1]
  <2> DEFINE Visits(m) == m \in 0 .. 23 /\ At(Walk[m].x, Walk[m].y) = n
             at == CHOOSE m \in 0 .. 23 : At(Walk[m].x, Walk[m].y) = n
  <2>1. \A m \in 0 .. 23 : Walk[m].x = WalkX[m + 1] /\ Walk[m].y = WalkX[m + 2]
    BY WalkValue
  <2>2. \E m \in 0 .. 23 : At(Walk[m].x, Walk[m].y) = n
    BY <1>2, <2>1
  <2>3. at \in 0 .. 23 /\ At(Walk[at].x, Walk[at].y) = n
    BY <2>2
  <2>4. at = WalkStep[n]
    <3> HIDE DEF at
    <3>1. At(WalkX[at + 1], WalkX[at + 2]) = n
      BY <2>1, <2>3
    <3>2. QED
      BY <1>1, <2>3, <3>1
  <2>5. n \in Lanes /\ n # 0
    BY DEF Lanes
  <2>6. RhoOffsets[n] = (((at + 1) * (at + 2)) \div 2) % 64
    BY <2>5 DEF RhoOffsets
  <2> HIDE DEF at
  <2>7. QED
    BY <1>3, <2>3, <2>4, <2>6
<1>5. RhoOffsets[0] = 0
  BY DEF RhoOffsets, Lanes
<1>6. QED
  BY <1>4, <1>5

\* The lane that pi moves to column x and row y.
SourceLane(x, y) == At(x + 3 * y, x)

\* The lanes and the distances written out in keccakf1600.c and in the AVX2 file, row by
\* row, are those of rho and pi.
LEMMA RowsTable ==
  \A y, x \in 0 .. 4 :
    /\ Rows[y + 1][x + 1][1] = SourceLane(x, y)
    /\ Rows[y + 1][x + 1][2] = RhoOffsets[SourceLane(x, y)]
    /\ SourceLane(x, y) \in Lanes
    /\ RhoOffsets[SourceLane(x, y)] \in 0 .. 63
    /\ SourceLane(x, y) % 5 = (x + 3 * y) % 5 /\ SourceLane(x, y) \div 5 = x
<1>1. ASSUME NEW y \in 0 .. 4, NEW x \in 0 .. 4
      PROVE  /\ Rows[y + 1][x + 1][1] = SourceLane(x, y)
             /\ SourceLane(x, y) \in Lanes
             /\ SourceLane(x, y) % 5 = (x + 3 * y) % 5 /\ SourceLane(x, y) \div 5 = x
             /\ Rows[y + 1][x + 1][2] = IF SourceLane(x, y) = 0 THEN 0
                                        ELSE Triangular[WalkStep[SourceLane(x, y)] + 1]
             /\ Rows[y + 1][x + 1][2] \in 0 .. 63
  <2>1. /\ y = 0 \/ y = 1 \/ y = 2 \/ y = 3 \/ y = 4
        /\ x = 0 \/ x = 1 \/ x = 2 \/ x = 3 \/ x = 4
    OBVIOUS
  <2>2. QED
    BY <2>1, SMTT(60) DEF Rows, SourceLane, At, Lanes, Triangular, WalkStep
<1>2. ASSUME NEW y \in 0 .. 4, NEW x \in 0 .. 4
      PROVE  Rows[y + 1][x + 1][2] = RhoOffsets[SourceLane(x, y)]
  <2>1. PICK n \in Lanes : n = SourceLane(x, y)
    BY <1>1
  <2>2. RhoOffsets[n] = IF n = 0 THEN 0 ELSE Triangular[WalkStep[n] + 1]
    BY RhoOffsetsValue DEF Lanes
  <2>3. QED
    BY <1>1, <2>1, <2>2
<1>3. QED
  <2>1. ASSUME NEW y \in 0 .. 4, NEW x \in 0 .. 4
        PROVE  RhoOffsets[SourceLane(x, y)] \in 0 .. 63
    BY <1>1, <1>2
  <2>2. QED
    BY <1>1, <1>2, <2>1

-------------------------------------------------------------------------------
(***************************************************************************)
(* A round of FIPS 202, lane by lane.                                      *)
(***************************************************************************)

\* A state array.
States == [Lanes -> SUBSET Bits]

\* The parity of a column.
Column(v, x) == ((((v[x] (+) v[x + 5]) (+) v[x + 10]) (+) v[x + 15]) (+) v[x + 20])

\* What theta adds to a column.
Added(v, x) == Column(v, (x + 4) % 5) (+) Rotated(Column(v, (x + 1) % 5), 1)

\* Lane n after theta; the lane of column x and row y after pi, and after chi.
AfterTheta(v, n) == v[n] (+) Added(v, n % 5)

AfterPi(v, x, y) == Rotated(AfterTheta(v, SourceLane(x, y)), RhoOffsets[SourceLane(x, y)])

AfterChi(v, x, y) ==
  AfterPi(v, x, y) (+) (AfterPi(v, (x + 2) % 5, y) \ AfterPi(v, (x + 1) % 5, y))

\* And after iota, the end of round m.
RoundLane(v, m, x, y) ==
  IF y = 0 /\ x = 0 THEN AfterChi(v, x, y) (+) RoundConstants[m + 1] ELSE AfterChi(v, x, y)

RoundOf(v, m) == [n \in Lanes |-> RoundLane(v, m, n % 5, n \div 5)]

\* All of these are lanes.
LEMMA RotatedSubset ==
  ASSUME NEW a \in SUBSET Bits, NEW n \in 0 .. 63 PROVE Rotated(a, n) \in SUBSET Bits
BY RotatedBit

\* Lanes are numbered by column and row.
LEMMA LaneNumber ==
  /\ \A n \in Lanes : n % 5 \in 0 .. 4 /\ n \div 5 \in 0 .. 4 /\ n = (n % 5) + 5 * (n \div 5)
  /\ \A x, y \in 0 .. 4 : x + 5 * y \in Lanes /\ (x + 5 * y) % 5 = x /\ (x + 5 * y) \div 5 = y
BY DEF Lanes

LEMMA ColumnSubset ==
  ASSUME NEW v \in States, NEW x \in 0 .. 4 PROVE Column(v, x) \in SUBSET Bits
<1>1. x \in Lanes /\ x + 5 \in Lanes /\ x + 10 \in Lanes /\ x + 15 \in Lanes /\ x + 20 \in Lanes
  BY DEF Lanes
<1>2. /\ v[x] \in SUBSET Bits /\ v[x + 5] \in SUBSET Bits /\ v[x + 10] \in SUBSET Bits
      /\ v[x + 15] \in SUBSET Bits /\ v[x + 20] \in SUBSET Bits
  BY <1>1 DEF States
<1>3. QED
  BY <1>2 DEF Column, (+)

LEMMA AddedSubset ==
  ASSUME NEW v \in States, NEW x \in 0 .. 4 PROVE Added(v, x) \in SUBSET Bits
<1>1. (x + 4) % 5 \in 0 .. 4 /\ (x + 1) % 5 \in 0 .. 4
  OBVIOUS
<1>2. Column(v, (x + 4) % 5) \in SUBSET Bits /\ Column(v, (x + 1) % 5) \in SUBSET Bits
  BY <1>1, ColumnSubset
<1>3. Rotated(Column(v, (x + 1) % 5), 1) \in SUBSET Bits
  BY <1>2, RotatedSubset
<1>4. QED
  BY <1>2, <1>3, SumSubset DEF Added

LEMMA AfterThetaSubset ==
  ASSUME NEW v \in States, NEW n \in Lanes PROVE AfterTheta(v, n) \in SUBSET Bits
BY AddedSubset, LaneNumber, SumSubset DEF AfterTheta, States

LEMMA AfterPiSubset ==
  ASSUME NEW v \in States, NEW x \in 0 .. 4, NEW y \in 0 .. 4
  PROVE  AfterPi(v, x, y) \in SUBSET Bits
BY AfterThetaSubset, RowsTable, RotatedSubset DEF AfterPi

LEMMA RoundConstantsSubset == \A m \in 0 .. 23 : RoundConstants[m + 1] \in SUBSET Bits
<1>1. \A m \in 0 .. 23 : RoundConstants[m + 1] \subseteq {0, 1, 3, 7, 15, 31, 63}
  BY SMTT(60) DEF RoundConstants
<1>2. {0, 1, 3, 7, 15, 31, 63} \subseteq Bits
  BY DEF Bits
<1>3. QED
  BY <1>1, <1>2

LEMMA RoundLaneSubset ==
  ASSUME NEW v \in States, NEW m \in 0 .. 23, NEW x \in 0 .. 4, NEW y \in 0 .. 4
  PROVE  AfterChi(v, x, y) \in SUBSET Bits /\ RoundLane(v, m, x, y) \in SUBSET Bits
<1>1. (x + 1) % 5 \in 0 .. 4 /\ (x + 2) % 5 \in 0 .. 4
  OBVIOUS
<1>2. AfterChi(v, x, y) \in SUBSET Bits
  BY <1>1, AfterPiSubset DEF AfterChi, (+)
<1>3. RoundConstants[m + 1] \in SUBSET Bits
  BY RoundConstantsSubset
<1>4. QED
  BY <1>2, <1>3, SumSubset DEF RoundLane

\* A round makes a state array of a state array.
LEMMA RoundOfState ==
  ASSUME NEW v \in States, NEW m \in 0 .. 23 PROVE RoundOf(v, m) \in States
BY RoundLaneSubset, LaneNumber DEF RoundOf, States

\* theta of FIPS 202, lane by lane.
LEMMA ThetaOfState ==
  ASSUME NEW v \in States PROVE RefTheta(v) = [n \in Lanes |-> AfterTheta(v, n)]
<1> DEFINE P == [x \in 0 .. 4 |->
              ((((v[At(x, 0)] (+) v[At(x, 1)]) (+) v[At(x, 2)]) (+) v[At(x, 3)]) (+) v[At(x, 4)])]
           T == [x \in 0 .. 4 |-> P[(x + 4) % 5] (+) {(z + 1) % 64 : z \in P[(x + 1) % 5]}]
<1>1. RefTheta(v) = [n \in Lanes |-> v[n] (+) T[n % 5]]
  BY DEF RefTheta
<1>2. ASSUME NEW x \in 0 .. 4 PROVE P[x] = Column(v, x)
  <2>1. /\ At(x, 0) = x /\ At(x, 1) = x + 5 /\ At(x, 2) = x + 10 /\ At(x, 3) = x + 15
        /\ At(x, 4) = x + 20
    BY DEF At
  <2>2. QED
    BY <2>1 DEF Column
<1>3. ASSUME NEW x \in 0 .. 4 PROVE T[x] = Added(v, x)
  <2>1. (x + 4) % 5 \in 0 .. 4 /\ (x + 1) % 5 \in 0 .. 4
    OBVIOUS
  <2>2. P[(x + 4) % 5] = Column(v, (x + 4) % 5) /\ P[(x + 1) % 5] = Column(v, (x + 1) % 5)
    BY <1>2, <2>1
  <2>3. T[x] = P[(x + 4) % 5] (+) {(z + 1) % 64 : z \in P[(x + 1) % 5]}
    OBVIOUS
  <2> HIDE DEF P, T
  <2>4. QED
    BY <2>2, <2>3 DEF Added, Rotated
<1> HIDE DEF P, T
<1>4. \A n \in Lanes : v[n] (+) T[n % 5] = AfterTheta(v, n)
  BY <1>3, LaneNumber DEF AfterTheta
<1>5. QED
  BY <1>1, <1>4

\* The operator that only makes TLC evaluate its argument changes nothing.
LEMMA EvaluatedState == ASSUME NEW v \in States PROVE Evaluated(v) = v
BY DEF Evaluated, States

\* chi of FIPS 202 after rho and pi, lane by lane.
LEMMA ChiOfState ==
  ASSUME NEW v \in States
  PROVE  RefChi(Evaluated(RefRhoPi(Evaluated(RefTheta(v)))))
           = [n \in Lanes |-> AfterChi(v, n % 5, n \div 5)]
<1> DEFINE th == [n \in Lanes |-> AfterTheta(v, n)]
           pi == [n \in Lanes |-> AfterPi(v, n % 5, n \div 5)]
<1>1. th \in States
  BY AfterThetaSubset DEF States
<1>2. Evaluated(RefTheta(v)) = th
  BY <1>1, ThetaOfState, EvaluatedState
<1>3. RefRhoPi(th) = pi
  <2> DEFINE rotated == [n \in Lanes |-> {(z + RhoOffsets[n]) % 64 : z \in th[n]}]
  <2>1. RefRhoPi(th) = [n \in Lanes |-> rotated[At((n % 5) + 3 * (n \div 5), n % 5)]]
    BY DEF RefRhoPi
  <2>2. ASSUME NEW n \in Lanes
        PROVE  rotated[At((n % 5) + 3 * (n \div 5), n % 5)] = AfterPi(v, n % 5, n \div 5)
    <3> DEFINE x == n % 5
               y == n \div 5
    <3>1. x \in 0 .. 4 /\ y \in 0 .. 4
      BY LaneNumber
    <3> HIDE DEF x, y
    <3>2. SourceLane(x, y) \in Lanes
      BY <3>1, RowsTable
    <3>3. rotated[SourceLane(x, y)]
            = Rotated(AfterTheta(v, SourceLane(x, y)), RhoOffsets[SourceLane(x, y)])
      BY <3>2 DEF Rotated
    <3>4. rotated[At(x + 3 * y, x)] = AfterPi(v, x, y)
      BY <3>3 DEF AfterPi, SourceLane
    <3>5. QED
      BY <3>4 DEF x, y
  <2> HIDE DEF rotated
  <2>3. QED
    BY <2>1, <2>2
<1>4. pi \in States
  BY AfterPiSubset, LaneNumber DEF States
<1>5. Evaluated(pi) = pi
  BY <1>4, EvaluatedState
<1>6. RefChi(pi) = [n \in Lanes |->
        pi[n] (+) (pi[At((n % 5) + 2, n \div 5)] \ pi[At((n % 5) + 1, n \div 5)])]
  BY DEF RefChi
<1>7. ASSUME NEW n \in Lanes
      PROVE  pi[n] (+) (pi[At((n % 5) + 2, n \div 5)] \ pi[At((n % 5) + 1, n \div 5)])
               = AfterChi(v, n % 5, n \div 5)
  <2> DEFINE x == n % 5
             y == n \div 5
  <2>1. x \in 0 .. 4 /\ y \in 0 .. 4
    BY LaneNumber
  <2> HIDE DEF x, y
  <2>2. /\ (x + 2) % 5 \in 0 .. 4 /\ (x + 1) % 5 \in 0 .. 4
        /\ At(x + 2, y) = ((x + 2) % 5) + 5 * y /\ At(x + 1, y) = ((x + 1) % 5) + 5 * y
    BY <2>1 DEF At
  <2>3. /\ At(x + 2, y) \in Lanes /\ (At(x + 2, y) % 5) = (x + 2) % 5 /\ At(x + 2, y) \div 5 = y
        /\ At(x + 1, y) \in Lanes /\ (At(x + 1, y) % 5) = (x + 1) % 5 /\ At(x + 1, y) \div 5 = y
    <3>1. ASSUME NEW g \in 0 .. 4
          PROVE  g + 5 * y \in Lanes /\ (g + 5 * y) % 5 = g /\ (g + 5 * y) \div 5 = y
      BY <2>1, LaneNumber
    <3>2. QED
      BY <2>2, <3>1
  <2>4. /\ pi[At(x + 2, y)] = AfterPi(v, (x + 2) % 5, y)
        /\ pi[At(x + 1, y)] = AfterPi(v, (x + 1) % 5, y)
    BY <2>3
  <2>5. pi[n] = AfterPi(v, x, y)
    BY DEF x, y
  <2> HIDE DEF pi
  <2>6. pi[n] (+) (pi[At(x + 2, y)] \ pi[At(x + 1, y)]) = AfterChi(v, x, y)
    BY <2>4, <2>5 DEF AfterChi
  <2>7. QED
    BY <2>6 DEF x, y
<1> HIDE DEF th, pi
<1>8. RefChi(pi) = [n \in Lanes |-> AfterChi(v, n % 5, n \div 5)]
  BY <1>6, <1>7
<1>9. QED
  BY <1>2, <1>3, <1>5, <1>8

\* A round of FIPS 202 on a state of the history.
LEMMA RoundOfReference ==
  ASSUME NEW m \in 0 .. 23, NEW rec, rec.s \in States, rec.lfsr = RegisterAt(7 * m)
  PROVE  RefRound(rec) = [rounds |-> rec.rounds + 1, lfsr |-> RegisterAt(7 * (m + 1)),
                          s |-> RoundOf(rec.s, m)]
<1> DEFINE chi == [n \in Lanes |-> AfterChi(rec.s, n % 5, n \div 5)]
<1>1. RefChi(Evaluated(RefRhoPi(Evaluated(RefTheta(rec.s))))) = chi
  BY ChiOfState
<1>2. RefIota(rec.lfsr) = RoundConstants[m + 1] /\ Register(rec.lfsr, 7) = RegisterAt(7 * (m + 1))
  BY IotaOfRegister
<1>3. RefRound(rec) = [rounds |-> rec.rounds + 1, lfsr |-> Register(rec.lfsr, 7),
                       s |-> [chi EXCEPT ![0] = @ (+) RefIota(rec.lfsr)]]
  <2> HIDE DEF chi
  <2>1. QED
    BY <1>1 DEF RefRound
<1>4. [chi EXCEPT ![0] = @ (+) RoundConstants[m + 1]] = RoundOf(rec.s, m)
  <2>1. 0 \in Lanes
    BY DEF Lanes
  <2>2. \A n \in Lanes : (n % 5 = 0 /\ n \div 5 = 0) <=> n = 0
    BY DEF Lanes
  <2>3. ASSUME NEW n \in Lanes
        PROVE  [chi EXCEPT ![0] = @ (+) RoundConstants[m + 1]][n]
                 = RoundLane(rec.s, m, n % 5, n \div 5)
    <3>1. CASE n = 0
      BY <2>1, <2>2, <3>1 DEF RoundLane
    <3>2. CASE n # 0
      BY <2>1, <2>2, <3>2 DEF RoundLane
    <3>3. QED
      BY <3>1, <3>2
  <2>4. QED
    BY <2>3 DEF RoundOf
<1>5. QED
  BY <1>2, <1>3, <1>4

-------------------------------------------------------------------------------
(***************************************************************************)
(* Bytes: absorbing a block, and reading bytes back.                       *)
(***************************************************************************)

\* The bytes of a block lie within the 200 of a state.
LEMMA BlockFacts ==
  ASSUME block \in Blocks
  PROVE  /\ Window \subseteq 0 .. 199
         /\ Len(block.data[0]) \in Nat /\ block.offset \in Nat
         /\ block.offset + Len(block.data[0]) <= 200
         /\ \A w \in Ways, p \in Window : DataByte(w, p) \subseteq 0 .. 7
<1> PICK b \in Blocks : b = block
  OBVIOUS
<1>1. /\ b.offset \in Nat
      /\ b.data \in [Ways -> Seq(SUBSET (0 .. 7))]
      /\ \A w \in Ways : Len(b.data[w]) = Len(b.data[0])
      /\ b.offset + Len(b.data[0]) <= 200
  BY KeccakAssumption
<1>2. 0 \in Ways
  BY DEF Ways
<1>3. Len(b.data[0]) \in Nat
  BY <1>1, <1>2
<1>4. Window = b.offset .. b.offset + Len(b.data[0]) - 1
  BY DEF Window
<1>5. ASSUME NEW w \in Ways, NEW p \in Window PROVE DataByte(w, p) \subseteq 0 .. 7
  <2>1. b.data[w] \in Seq(SUBSET (0 .. 7)) /\ Len(b.data[w]) = Len(b.data[0])
    BY <1>1
  <2>2. p - b.offset + 1 \in 1 .. Len(b.data[w])
    BY <1>1, <1>3, <1>4, <2>1
  <2>3. b.data[w][p - b.offset + 1] \in SUBSET (0 .. 7)
    BY <2>1, <2>2
  <2>4. QED
    BY <2>3 DEF DataByte
<1>6. Window \subseteq 0 .. 199
  <2>1. ASSUME NEW e \in Nat, NEW g \in Nat, e + g <= 200 PROVE e .. e + g - 1 \subseteq 0 .. 199
    BY <2>1
  <2>2. QED
    BY <1>1, <1>3, <1>4, <2>1
<1>7. QED
  BY <1>1, <1>3, <1>5, <1>6

\* The bits that the block of state w adds to its lane n.
AbsorbedBits(w, n) ==
  {z \in Bits : 8 * n + (z \div 8) \in Window /\ z % 8 \in DataByte(w, 8 * n + (z \div 8))}

\* Through a pointer to the bytes of little-endian lanes, these bits are added.
LEMMA PointerAbsorbs ==
  ASSUME block \in Blocks, mem \in [0 .. 99 -> SUBSET Bits], NEW w \in Ways, NEW n \in Lanes
  PROVE  XorByPointer(w, n) = mem[25 * w + n] (+) AbsorbedBits(w, n)
<1> DEFINE lane == mem[25 * w + n]
           old(e) == LaneBytes(mem, 25 * w + n)[e]
           new(e) == IF 8 * n + e \in Window THEN old(e) (+) DataByte(w, 8 * n + e) ELSE old(e)
<1>1. XorByPointer(w, n) = UNION {{8 * e + b : b \in new(e)} : e \in 0 .. 7}
  BY DEF XorByPointer
<1>2. lane \in SUBSET Bits
  BY DEF Ways, Lanes
<1>3. ASSUME NEW e \in 0 .. 7
      PROVE  /\ old(e) = {b \in 0 .. 7 : 8 * e + b \in lane}
             /\ new(e) \subseteq 0 .. 7
             /\ 8 * n + e \in Window => DataByte(w, 8 * n + e) \subseteq 0 .. 7
  <2>1. old(e) = {b \in 0 .. 7 : 8 * e + b \in lane}
    BY DEF LaneBytes
  <2> HIDE DEF old
  <2>2. 8 * n + e \in Window => DataByte(w, 8 * n + e) \subseteq 0 .. 7
    BY BlockFacts
  <2>3. old(e) \subseteq 0 .. 7
    BY <2>1
  <2>4. new(e) \subseteq 0 .. 7
    BY <2>2, <2>3 DEF (+)
  <2>5. QED
    BY <2>1, <2>2, <2>4
<1>4. ASSUME NEW e \in 0 .. 7, NEW b \in 0 .. 7
      PROVE  b \in new(e) <=> 8 * e + b \in lane (+) AbsorbedBits(w, n)
  <2>1. 8 * e + b \in Bits /\ (8 * e + b) \div 8 = e /\ (8 * e + b) % 8 = b
    BY DEF Bits
  <2>2. 8 * e + b \in AbsorbedBits(w, n) <=> 8 * n + e \in Window /\ b \in DataByte(w, 8 * n + e)
    BY <2>1 DEF AbsorbedBits
  <2>3. b \in old(e) <=> 8 * e + b \in lane
    BY <1>3
  <2> HIDE DEF old, lane
  <2>4. QED
    BY <2>2, <2>3 DEF (+)
<1> HIDE DEF new, lane
<1>5. lane (+) AbsorbedBits(w, n) \subseteq Bits
  BY <1>2 DEF (+), AbsorbedBits
<1>6. ASSUME NEW z PROVE z \in XorByPointer(w, n) <=> z \in lane (+) AbsorbedBits(w, n)
  <2>1. ASSUME NEW e \in 0 .. 7, NEW b \in new(e), z = 8 * e + b
        PROVE  z \in lane (+) AbsorbedBits(w, n)
    <3>1. b \in 0 .. 7
      BY <1>3
    <3>2. QED
      BY <1>4, <2>1, <3>1
  <2>2. ASSUME z \in lane (+) AbsorbedBits(w, n)
        PROVE  \E e \in 0 .. 7 : \E b \in new(e) : z = 8 * e + b
    <3>1. z \in 0 .. 63
      BY <1>5, <2>2 DEF Bits
    <3>2. z \div 8 \in 0 .. 7 /\ z % 8 \in 0 .. 7 /\ z = 8 * (z \div 8) + (z % 8)
      BY <3>1
    <3>3. z % 8 \in new(z \div 8)
      BY <1>4, <2>2, <3>2
    <3>4. QED
      BY <3>2, <3>3
  <2>3. z \in XorByPointer(w, n) <=> \E e \in 0 .. 7 : \E b \in new(e) : z = 8 * e + b
    BY <1>1
  <2>4. QED
    BY <2>1, <2>2, <2>3
<1>7. QED
  BY <1>6 DEF lane

\* And with shifts, on any machine.
LEMMA ShiftAbsorbs ==
  ASSUME block \in Blocks, NEW w \in Ways, NEW n \in Lanes
  PROVE  XorByShift(w, n) = mem[25 * w + n] (+) AbsorbedBits(w, n)
<1> DEFINE added == UNION {{b + 8 * (p % 8) : b \in DataByte(w, p)} :
                             p \in {q \in Window : q \div 8 = n}}
<1>1. ASSUME NEW p \in Window, p \div 8 = n, NEW b \in DataByte(w, p)
      PROVE  b + 8 * (p % 8) \in AbsorbedBits(w, n)
  <2>1. p \in 0 .. 199 /\ b \in 0 .. 7
    BY BlockFacts
  <2>2. p % 8 \in 0 .. 7 /\ p = 8 * n + (p % 8)
    BY <1>1, <2>1
  <2>3. /\ b + 8 * (p % 8) \in Bits /\ (b + 8 * (p % 8)) \div 8 = p % 8
        /\ (b + 8 * (p % 8)) % 8 = b
    BY <2>1, <2>2 DEF Bits
  <2>4. QED
    BY <2>2, <2>3 DEF AbsorbedBits
<1>2. ASSUME NEW z \in AbsorbedBits(w, n)
      PROVE  \E p \in Window : \E b \in DataByte(w, p) : p \div 8 = n /\ z = b + 8 * (p % 8)
  <2> DEFINE p == 8 * n + (z \div 8)
  <2>1. p \in Window /\ z % 8 \in DataByte(w, p) /\ z \in 0 .. 63
    BY DEF AbsorbedBits, Bits
  <2>2. n \in Nat
    BY DEF Lanes
  <2>3. z \div 8 \in 0 .. 7 /\ z = 8 * (z \div 8) + (z % 8)
    BY <2>1
  <2>4. p \div 8 = n /\ p % 8 = z \div 8
    BY <2>2, <2>3
  <2> HIDE DEF p
  <2>5. z = (z % 8) + 8 * (p % 8)
    <3>1. z \in Int
      BY <2>1
    <3>2. QED
      BY <2>3, <2>4, <3>1
  <2>6. QED
    BY <2>1, <2>4, <2>5
<1>3. ASSUME NEW z
      PROVE  z \in added <=> \E p \in Window : \E b \in DataByte(w, p) :
                                p \div 8 = n /\ z = b + 8 * (p % 8)
  OBVIOUS
<1> HIDE DEF added
<1>4. ASSUME NEW z PROVE z \in added <=> z \in AbsorbedBits(w, n)
  BY <1>1, <1>2, <1>3
<1>5. added = AbsorbedBits(w, n)
  BY <1>4
<1>6. QED
  BY <1>5 DEF XorByShift, added

\* They are the bits added to the state string of FIPS 202.
LEMMA ReferenceAbsorbs ==
  ASSUME block \in Blocks, NEW rec, rec.s \in States, NEW w \in Ways
  PROVE  RefAbsorb(rec, w) = [rec EXCEPT !.s = [n \in Lanes |-> rec.s[n] (+) AbsorbedBits(w, n)]]
<1> DEFINE old == UNION {{64 * n + z : z \in rec.s[n]} : n \in Lanes}
           new == UNION {{8 * p + b : b \in DataByte(w, p)} : p \in Window}
<1>1. RefAbsorb(rec, w)
        = [rec EXCEPT !.s = [n \in Lanes |-> {z \in Bits : 64 * n + z \in old (+) new}]]
  BY DEF RefAbsorb
<1>2. ASSUME NEW n \in Lanes, NEW z \in Bits PROVE 64 * n + z \in old <=> z \in rec.s[n]
  <2>1. ASSUME NEW m \in Lanes, NEW y \in rec.s[m], 64 * n + z = 64 * m + y PROVE z \in rec.s[n]
    <3>1. y \in 0 .. 63 /\ m \in Int /\ n \in Int /\ z \in 0 .. 63
      BY DEF States, Lanes, Bits
    <3>2. m = n /\ y = z
      BY <2>1, <3>1
    <3>3. QED
      BY <3>2
  <2>2. 64 * n + z \in old <=> \E m \in Lanes : \E y \in rec.s[m] : 64 * n + z = 64 * m + y
    OBVIOUS
  <2>3. QED
    BY <2>1, <2>2
<1>3. ASSUME NEW n \in Lanes, NEW z \in Bits
      PROVE  64 * n + z \in new <=> z \in AbsorbedBits(w, n)
  <2>1. 64 * n + z \in new <=> \E p \in Window : \E b \in DataByte(w, p) : 64 * n + z = 8 * p + b
    OBVIOUS
  <2>2. /\ z \in 0 .. 63 /\ n \in 0 .. 24 /\ z \div 8 \in 0 .. 7 /\ z % 8 \in 0 .. 7
        /\ z = 8 * (z \div 8) + (z % 8)
    BY DEF Bits, Lanes
  <2>3. ASSUME NEW p \in Window, NEW b \in DataByte(w, p), 64 * n + z = 8 * p + b
        PROVE  p = 8 * n + (z \div 8) /\ b = z % 8
    <3>1. p \in 0 .. 199 /\ b \in 0 .. 7
      BY BlockFacts
    <3>2. QED
      BY <2>2, <2>3, <3>1
  <2>4. 64 * n + z = 8 * (8 * n + (z \div 8)) + (z % 8)
    BY <2>2
  <2>5. z \in AbsorbedBits(w, n) <=> 8 * n + (z \div 8) \in Window
                                     /\ z % 8 \in DataByte(w, 8 * n + (z \div 8))
    BY DEF AbsorbedBits
  <2> HIDE DEF new
  <2>6. QED
    BY <2>1, <2>3, <2>4, <2>5
<1> HIDE DEF old, new
<1>4. ASSUME NEW n \in Lanes
      PROVE  {z \in Bits : 64 * n + z \in old (+) new} = rec.s[n] (+) AbsorbedBits(w, n)
  <2>1. rec.s[n] \in SUBSET Bits /\ AbsorbedBits(w, n) \in SUBSET Bits
    BY DEF States, AbsorbedBits
  <2>2. \A z \in Bits : 64 * n + z \in old (+) new <=> z \in rec.s[n] (+) AbsorbedBits(w, n)
    BY <1>2, <1>3 DEF (+)
  <2>3. rec.s[n] (+) AbsorbedBits(w, n) \in SUBSET Bits
    BY <2>1, SumSubset
  <2>4. QED
    BY <2>2, <2>3
<1>5. QED
  BY <1>1, <1>4

\* A byte of a lane is the same by shifts as through a pointer.
LEMMA ByteRead ==
  ASSUME NEW lane \in SUBSET Bits, NEW e \in 0 .. 7
  PROVE  {b - 8 * e : b \in {c \in lane : c >= 8 * e}} \cap 0 .. 7
           = {b \in 0 .. 7 : 8 * e + b \in lane}
<1>1. ASSUME NEW z \in 0 .. 7
      PROVE  z \in {b - 8 * e : b \in {c \in lane : c >= 8 * e}} <=> 8 * e + z \in lane
  <2>1. ASSUME NEW b \in {c \in lane : c >= 8 * e}, z = b - 8 * e PROVE 8 * e + z \in lane
    BY <2>1 DEF Bits
  <2>2. ASSUME 8 * e + z \in lane PROVE \E b \in {c \in lane : c >= 8 * e} : z = b - 8 * e
    <3>1. 8 * e + z >= 8 * e /\ z = (8 * e + z) - 8 * e
      OBVIOUS
    <3>2. QED
      BY <2>2, <3>1
  <2>3. QED
    BY <2>1, <2>2
<1>2. QED
  BY <1>1

-------------------------------------------------------------------------------
(***************************************************************************)
(* The inductive invariant of the permutation.                             *)
(***************************************************************************)

\* The states that are permuted together.
Group == IF simd THEN Ways ELSE {way}

\* Has theta's term been added to lane n before row m, because a row needed it?
TakenBefore(m, n) == \E y \in 0 .. m - 1, x \in 0 .. 4 : SourceLane(x, y) = n

\* State w is in memory; it has had all its rounds, or none.
InMemory(w) == \A n \in Lanes : mem[25 * w + n] = ref[w].s[n]

Waits(w) ==
  IF w < way THEN ref[w].rounds = 24 ELSE ref[w].rounds = 0 /\ ref[w].lfsr = RegisterAt(0)

\* The parity of the first m lanes of a column.
Partial(v, x, m) ==
  CASE m = 1 -> v[x]
    [] m = 2 -> v[x] (+) v[x + 5]
    [] m = 3 -> (v[x] (+) v[x + 5]) (+) v[x + 10]
    [] m = 4 -> ((v[x] (+) v[x + 5]) (+) v[x + 10]) (+) v[x + 15]
    [] m = 5 -> Column(v, x)

\* The types of the variables that have one; AE, C and D are described below.
KeccakType ==
  /\ kpc \in {"xor", "load", "theta", "row", "store", "extract", "end"}
  /\ simd \in BOOLEAN /\ little \in BOOLEAN
  /\ block \in Blocks
  /\ way \in Ways /\ (simd => way = 0)
  /\ mem \in [0 .. 99 -> SUBSET Bits]
  /\ ref \in [Ways -> [rounds : Nat, lfsr : SUBSET (0 .. 7), s : States]]
  /\ round \in 0 .. 24 /\ row \in 0 .. 4

\* Which states are in memory, and how often each was permuted.
InTurn ==
  /\ kpc = "xor" => way = 0
  /\ kpc # "row" => row = 0
  /\ kpc \in {"xor", "load"} => \A w \in Ways : InMemory(w) /\ Waits(w)
  /\ kpc \in {"theta", "row", "store"} => \A w \in Ways \ Group : InMemory(w) /\ Waits(w)
  /\ kpc \in {"extract", "end"} => \A w \in Ways : InMemory(w) /\ ref[w].rounds = 24

\* What the copy that the next round reads holds, and AVX2's parities of it.
InStep ==
  /\ kpc \in {"theta", "row"} =>
       /\ round < 24
       /\ \A w \in Group : ref[w].rounds = round /\ ref[w].lfsr = RegisterAt(7 * round)
  /\ kpc = "store" => round = 24 /\ \A w \in Group : ref[w].rounds = 24
  /\ kpc \in {"theta", "store"} =>
       AE[Cur] = [n \in Lanes |-> [w \in Group |-> ref[w].s[n]]]
  /\ kpc = "theta" /\ simd => C = [x \in 0 .. 4 |-> [w \in Group |-> Column(ref[w].s, x)]]

\* In the middle of a round: theta's term is in the lanes of A that the rows so far have
\* needed and in no other, the rows of E so far are those of the next state, and AVX2 has
\* their parities.
HalfRound ==
  kpc = "row" =>
    /\ D = [x \in 0 .. 4 |-> [w \in Group |-> Added(ref[w].s, x)]]
    /\ AE[Cur] = [n \in Lanes |-> [w \in Group |->
                    IF TakenBefore(row, n) THEN AfterTheta(ref[w].s, n) ELSE ref[w].s[n]]]
    /\ row > 0 => AE[1 - Cur] # <<>>
    /\ \A n \in Lanes : n \div 5 < row =>
         AE[1 - Cur][n] = [w \in Group |-> RoundOf(ref[w].s, round)[n]]
    /\ simd /\ round < 23 /\ row > 0 =>
         C = [x \in 0 .. 4 |-> [w \in Group |-> Partial(RoundOf(ref[w].s, round), x, row)]]

\* The bytes read back.
BytesBack ==
  kpc = "end" => \A w \in Ways : \A n \in DOMAIN read[w] :
    read[w][n] = {b \in 0 .. 7 : LET g == 8 * (block.offset + n - 1) + b
                                 IN  g % 64 \in ref[w].s[g \div 64]}

\* The inductive invariant.
KeccakInv ==
  /\ KeccakType
  /\ InTurn
  /\ InStep
  /\ HalfRound
  /\ BytesBack
  /\ DOMAIN AE = 0 .. 1 /\ AE = [c \in DOMAIN AE |-> AE[c]]

\* No lane is needed by two rows, or twice by one.
LEMMA SourceInjective ==
  \A x, y, p, q \in 0 .. 4 : SourceLane(x, y) = SourceLane(p, q) => x = p /\ y = q
<1>1. ASSUME NEW x \in 0 .. 4, NEW y \in 0 .. 4, NEW p \in 0 .. 4, NEW q \in 0 .. 4,
             SourceLane(x, y) = SourceLane(p, q)
      PROVE  x = p /\ y = q
  <2>1. x = p /\ (x + 3 * y) % 5 = (p + 3 * q) % 5
    BY <1>1, RowsTable
  <2>2. QED
    BY <2>1
<1>2. QED
  BY <1>1

\* Either way of rotating a vector rotates each of its lanes.
LEMMA RolVectorRotates ==
  ASSUME simd \in BOOLEAN, NEW v \in [Group -> SUBSET Bits], NEW n \in 0 .. 63
  PROVE  RolVector(v, n) = [w \in Group |-> Rotated(v[w], n)]
<1>1. CASE n = 0
  <2>1. \A w \in Group : Rotated(v[w], 0) = v[w]
    <3>1. ASSUME NEW w \in Group, NEW z PROVE z \in Rotated(v[w], 0) <=> z \in v[w]
      <4>1. v[w] \in SUBSET Bits
        OBVIOUS
      <4>2. z \in Bits => (z + 64 - 0) % 64 = z
        BY DEF Bits
      <4>3. z \in Rotated(v[w], 0) <=> z \in Bits /\ (z + 64 - 0) % 64 \in v[w]
        BY <4>1, RotatedBit
      <4>4. QED
        BY <4>1, <4>2, <4>3
    <3>2. QED
      BY <3>1
  <2>2. QED
    BY <1>1, <2>1 DEF RolVector
<1>2. CASE simd /\ n \in {8, 56}
  <2> DEFINE table == IF n = 8 THEN Rho8 ELSE Rho56
  <2>1. Group = Ways
    BY <1>2 DEF Group
  <2>2. RolVector(v, n) = ShuffleBytes(v, table)
    BY <1>2 DEF RolVector
  <2>3. \A w \in Ways : ShuffleBytes(v, table)[w] = Rotated(v[w], n)
    BY <1>2, <2>1, ShuffleIsRotated
  <2>4. ShuffleBytes(v, table) = [w \in Ways |-> ShuffleBytes(v, table)[w]]
    BY DEF ShuffleBytes
  <2> HIDE DEF table
  <2>5. QED
    BY <2>1, <2>2, <2>3, <2>4
<1>3. CASE n # 0 /\ ~(simd /\ n \in {8, 56})
  <2>1. RolVector(v, n) = [w \in Group |-> Rol(v[w], n)]
    BY <1>3 DEF RolVector
  <2>2. n \in 1 .. 63
    BY <1>3
  <2>3. QED
    BY <2>1, <2>2, RolIsRotated
<1>4. QED
  BY <1>1, <1>2, <1>3

\* The states v of S in vectors.
Together(S, v) == [n \in Lanes |-> [w \in S |-> v[w][n]]]

\* prepareTheta's parities are the columns', in whatever order the lanes are added.
LEMMA ParityOfVectors ==
  ASSUME NEW S, NEW v \in [S -> States], NEW x \in 0 .. 4
  PROVE  Parity(Together(S, v), x) = [w \in S |-> Column(v[w], x)]
<1>1. x \in Lanes /\ x + 5 \in Lanes /\ x + 10 \in Lanes /\ x + 15 \in Lanes /\ x + 20 \in Lanes
  BY DEF Lanes
<1>2. Parity(Together(S, v), x)
        = [w \in S |->
             v[w][x] (+) (v[w][x + 5] (+) (v[w][x + 10] (+) (v[w][x + 15] (+) v[w][x + 20])))]
  BY <1>1 DEF Parity, XorEach, Together
<1>3. ASSUME NEW w \in S
      PROVE  v[w][x] (+) (v[w][x + 5] (+) (v[w][x + 10] (+) (v[w][x + 15] (+) v[w][x + 20])))
               = Column(v[w], x)
  BY DEF Column, (+)
<1>4. QED
  BY <1>2, <1>3

\* Replacing copy A leaves two copies.
LEMMA ReplaceFirst ==
  ASSUME NEW g, DOMAIN g = 0 .. 1, g = [c \in DOMAIN g |-> g[c]], NEW v
  PROVE  LET new == [g EXCEPT ![0] = v]
         IN  new[0] = v /\ DOMAIN new = 0 .. 1 /\ new = [c \in DOMAIN new |-> new[c]]
<1>1. 0 \in 0 .. 1
  OBVIOUS
<1>2. QED
  BY <1>1

\* The invariant holds at first, and every action preserves it.
LEMMA KeccakInitInv == KeccakInit => KeccakInv
<1> SUFFICES ASSUME KeccakInit PROVE KeccakInv
  OBVIOUS
<1>1. mem \in [0 .. 99 -> SUBSET Bits] /\ block \in Blocks
  BY KeccakAssumption DEF KeccakInit
<1>2. \A w \in Ways, n \in Lanes : 25 * w + n \in 0 .. 99
  BY DEF Ways, Lanes
<1>3. \A w \in Ways : ref[w] = [rounds |-> 0, lfsr |-> {0}, s |-> [n \in Lanes |-> mem[25 * w + n]]]
  BY DEF KeccakInit
<1>4. ref \in [Ways -> [rounds : Nat, lfsr : SUBSET (0 .. 7), s : States]]
  <2>1. ASSUME NEW w \in Ways PROVE [n \in Lanes |-> mem[25 * w + n]] \in States
    BY <1>1, <1>2 DEF States
  <2>2. \A w \in Ways : ref[w] \in [rounds : Nat, lfsr : SUBSET (0 .. 7), s : States]
    <3>1. ASSUME NEW w \in Ways PROVE ref[w] \in [rounds : Nat, lfsr : SUBSET (0 .. 7), s : States]
      <4>1. PICK v \in States : v = [n \in Lanes |-> mem[25 * w + n]]
        BY <2>1
      <4>2. ref[w] = [rounds |-> 0, lfsr |-> {0}, s |-> v]
        BY <1>3, <4>1
      <4>3. {0} \in SUBSET (0 .. 7) /\ 0 \in Nat
        OBVIOUS
      <4>4. QED
        BY <4>2, <4>3
    <3>2. QED
      BY <3>1
  <2>3. ref = [w \in Ways |-> ref[w]]
    BY DEF KeccakInit
  <2>4. QED
    BY <2>2, <2>3
<1>5. KeccakType
  <2>1. /\ kpc = "xor" /\ simd \in BOOLEAN /\ little \in BOOLEAN
        /\ way = 0 /\ round = 0 /\ row = 0
    BY DEF KeccakInit
  <2>2. 0 \in Ways
    BY DEF Ways
  <2>3. QED
    BY <1>1, <1>4, <2>1, <2>2 DEF KeccakType
<1>6. \A w \in Ways : InMemory(w) /\ Waits(w)
  BY <1>3, RegisterStart DEF InMemory, Waits, KeccakInit, Ways
<1>7. InTurn
  BY <1>6 DEF KeccakInit, InTurn
<1>8. QED
  BY <1>5, <1>7 DEF KeccakInit, KeccakInv, InStep, HalfRound, BytesBack

LEMMA XorBytesInv == KeccakInv /\ XorBytes => KeccakInv'
<1> SUFFICES ASSUME KeccakInv, XorBytes PROVE KeccakInv'
  OBVIOUS
<1>1. /\ kpc = "xor" /\ kpc' = "load" /\ way = 0 /\ row = 0
      /\ mem' = [n \in 0 .. 99 |-> IF little THEN XorByPointer(n \div 25, n % 25)
                                             ELSE XorByShift(n \div 25, n % 25)]
      /\ ref' = [w \in Ways |-> RefAbsorb(ref[w], w)]
      /\ UNCHANGED <<simd, little, block, way, AE, C, D, round, row, read>>
      /\ \A w \in Ways : InMemory(w) /\ Waits(w)
  BY DEF XorBytes, KeccakInv, InTurn, KeccakType
<1>2. /\ block \in Blocks /\ mem \in [0 .. 99 -> SUBSET Bits] /\ little \in BOOLEAN
      /\ \A w \in Ways : ref[w] \in [rounds : Nat, lfsr : SUBSET (0 .. 7), s : States]
  BY DEF KeccakInv, KeccakType
<1>3. ASSUME NEW w \in Ways, NEW n \in Lanes
      PROVE  /\ mem'[25 * w + n] = mem[25 * w + n] (+) AbsorbedBits(w, n)
             /\ 25 * w + n \in 0 .. 99
  <2>1. 25 * w + n \in 0 .. 99 /\ (25 * w + n) \div 25 = w /\ (25 * w + n) % 25 = n
    BY DEF Ways, Lanes
  <2>2. /\ XorByPointer(w, n) = mem[25 * w + n] (+) AbsorbedBits(w, n)
        /\ XorByShift(w, n) = mem[25 * w + n] (+) AbsorbedBits(w, n)
    BY <1>2, PointerAbsorbs, ShiftAbsorbs
  <2>3. mem'[25 * w + n] = IF little THEN XorByPointer(w, n) ELSE XorByShift(w, n)
    BY <1>1, <2>1
  <2>4. QED
    BY <2>1, <2>2, <2>3
<1>4. ASSUME NEW w \in Ways
      PROVE  ref'[w] = [ref[w] EXCEPT !.s = [n \in Lanes |-> ref[w].s[n] (+) AbsorbedBits(w, n)]]
  <2>1. ref[w].s \in States
    BY <1>2
  <2>2. QED
    BY <1>1, <1>2, <2>1, ReferenceAbsorbs
<1>5. ASSUME NEW w \in Ways, NEW n \in Lanes
      PROVE  ref[w].s[n] (+) AbsorbedBits(w, n) \in SUBSET Bits
  <2>1. ref[w].s[n] \in SUBSET Bits
    BY <1>2 DEF States
  <2>2. AbsorbedBits(w, n) \in SUBSET Bits
    BY DEF AbsorbedBits
  <2>3. QED
    BY <2>1, <2>2, SumSubset
<1>6. ASSUME NEW w \in Ways
      PROVE  /\ ref'[w] \in [rounds : Nat, lfsr : SUBSET (0 .. 7), s : States]
             /\ ref'[w].rounds = ref[w].rounds /\ ref'[w].lfsr = ref[w].lfsr
             /\ \A n \in Lanes : ref'[w].s[n] = ref[w].s[n] (+) AbsorbedBits(w, n)
  <2> DEFINE new == [n \in Lanes |-> ref[w].s[n] (+) AbsorbedBits(w, n)]
  <2>1. new \in States
    BY <1>5 DEF States
  <2>2. \A n \in Lanes : new[n] = ref[w].s[n] (+) AbsorbedBits(w, n)
    OBVIOUS
  <2> HIDE DEF new
  <2>3. ref'[w] = [ref[w] EXCEPT !.s = new]
    BY <1>4 DEF new
  <2>4. QED
    BY <1>2, <2>1, <2>2, <2>3
<1>7. ref' \in [Ways -> [rounds : Nat, lfsr : SUBSET (0 .. 7), s : States]]
  BY <1>1, <1>6
<1>8. mem' \in [0 .. 99 -> SUBSET Bits]
  <2>1. ASSUME NEW n \in 0 .. 99 PROVE mem'[n] \in SUBSET Bits
    <3>1. n \div 25 \in Ways /\ n % 25 \in Lanes /\ n = 25 * (n \div 25) + (n % 25)
      BY DEF Ways, Lanes
    <3>2. mem'[n] = mem[n] (+) AbsorbedBits(n \div 25, n % 25)
      BY <1>3, <3>1
    <3>3. mem[n] \in SUBSET Bits /\ AbsorbedBits(n \div 25, n % 25) \in SUBSET Bits
      BY <1>2 DEF AbsorbedBits
    <3>4. QED
      BY <3>2, <3>3, SumSubset
  <2>2. QED
    BY <1>1, <2>1
<1>9. ASSUME NEW w \in Ways PROVE InMemory(w)' /\ Waits(w)'
  <2>1. InMemory(w)'
    <3>1. ASSUME NEW n \in Lanes PROVE mem'[25 * w + n] = ref'[w].s[n]
      <4>1. mem[25 * w + n] = ref[w].s[n]
        BY <1>1 DEF InMemory
      <4>2. QED
        BY <1>3, <1>6, <4>1
    <3>2. QED
      BY <3>1 DEF InMemory
  <2>2. Waits(w)'
    BY <1>1, <1>6 DEF Waits
  <2>3. QED
    BY <2>1, <2>2
<1>10. KeccakType'
  BY <1>1, <1>7, <1>8 DEF KeccakInv, KeccakType
<1>11. InTurn'
  BY <1>1, <1>9 DEF InTurn
<1>12. QED
  BY <1>1, <1>10, <1>11 DEF KeccakInv, InStep, HalfRound, BytesBack

LEMMA LoadTogetherInv == KeccakInv /\ LoadTogether => KeccakInv'
<1> SUFFICES ASSUME KeccakInv, LoadTogether PROVE KeccakInv'
  OBVIOUS
<1> DEFINE v == [n \in Lanes |-> [w \in Ways |-> mem[25 * w + n]]]
<1>1. /\ kpc = "load" /\ kpc' = "theta" /\ simd /\ round' = 0 /\ row = 0 /\ way = 0
      /\ AE' = [AE EXCEPT ![0] = v]
      /\ C' = [x \in 0 .. 4 |-> Parity(v, x)]
      /\ UNCHANGED <<simd, little, block, way, mem, D, row, read, ref>>
      /\ \A w \in Ways : InMemory(w) /\ Waits(w)
      /\ DOMAIN AE = 0 .. 1 /\ AE = [c \in DOMAIN AE |-> AE[c]]
  BY DEF LoadTogether, KeccakInv, InTurn, KeccakType
<1>2. Group' = Ways /\ Cur' = 0
  BY <1>1 DEF Group, Cur
<1>3. \A w \in Ways : ref[w].s \in States
  BY DEF KeccakInv, KeccakType
<1>4. v = [n \in Lanes |-> [w \in Ways |-> ref[w].s[n]]]
  BY <1>1 DEF InMemory
<1>5. \A w \in Ways : ref[w].rounds = 0 /\ ref[w].lfsr = RegisterAt(0)
  BY <1>1 DEF Waits, Ways
<1>6. ASSUME NEW x \in 0 .. 4 PROVE Parity(v, x) = [w \in Ways |-> Column(ref[w].s, x)]
  <2> DEFINE st == [w \in Ways |-> ref[w].s]
  <2>1. st \in [Ways -> States]
    BY <1>3
  <2>2. v = Together(Ways, st)
    BY <1>4 DEF Together
  <2>3. Parity(v, x) = [w \in Ways |-> Column(st[w], x)]
    <3> HIDE DEF v, st
    <3>1. QED
      BY <2>1, <2>2, ParityOfVectors
  <2>4. QED
    BY <2>3
<1> HIDE DEF v
<1>7. AE'[0] = v /\ DOMAIN AE' = 0 .. 1 /\ AE' = [c \in DOMAIN AE' |-> AE'[c]]
  BY <1>1, ReplaceFirst
<1>8. InStep'
  <2>1. AE'[0] = [n \in Lanes |-> [w \in Ways |-> ref[w].s[n]]]
    BY <1>4, <1>7
  <2>2. C' = [x \in 0 .. 4 |-> [w \in Ways |-> Column(ref[w].s, x)]]
    BY <1>1, <1>6
  <2>3. \A w \in Ways : ref[w].rounds = 0 /\ ref[w].lfsr = RegisterAt(7 * 0)
    BY <1>5
  <2>4. QED
    BY <1>1, <1>2, <2>1, <2>2, <2>3 DEF InStep
<1>9. InTurn'
  BY <1>1, <1>2 DEF InTurn
<1>10. KeccakType'
  BY <1>1 DEF KeccakInv, KeccakType
<1>11. QED
  BY <1>1, <1>7, <1>8, <1>9, <1>10 DEF KeccakInv, HalfRound, BytesBack

LEMMA LoadOneInv == KeccakInv /\ LoadOne => KeccakInv'
<1> SUFFICES ASSUME KeccakInv, LoadOne PROVE KeccakInv'
  OBVIOUS
<1> DEFINE v == [n \in Lanes |-> [w \in {way} |-> mem[25 * way + n]]]
<1>1. /\ kpc = "load" /\ kpc' = "theta" /\ ~simd /\ round' = 0 /\ row = 0 /\ way \in Ways
      /\ AE' = [AE EXCEPT ![0] = v]
      /\ UNCHANGED <<simd, little, block, way, mem, C, D, row, read, ref>>
      /\ \A w \in Ways : InMemory(w) /\ Waits(w)
      /\ DOMAIN AE = 0 .. 1 /\ AE = [c \in DOMAIN AE |-> AE[c]]
  BY DEF LoadOne, KeccakInv, InTurn, KeccakType
<1>2. Group' = {way} /\ Cur' = 0
  BY <1>1 DEF Group, Cur
<1>3. v = [n \in Lanes |-> [w \in {way} |-> ref[w].s[n]]]
  BY <1>1 DEF InMemory
<1>4. ref[way].rounds = 0 /\ ref[way].lfsr = RegisterAt(0)
  <2>1. way \in Int
    BY <1>1 DEF Ways
  <2>2. QED
    BY <1>1, <2>1 DEF Waits
<1> HIDE DEF v
<1>5. AE'[0] = v /\ DOMAIN AE' = 0 .. 1 /\ AE' = [c \in DOMAIN AE' |-> AE'[c]]
  BY <1>1, ReplaceFirst
<1>6. InStep'
  <2>1. AE'[0] = [n \in Lanes |-> [w \in {way} |-> ref[w].s[n]]]
    BY <1>3, <1>5
  <2>2. \A w \in {way} : ref[w].rounds = 0 /\ ref[w].lfsr = RegisterAt(7 * 0)
    BY <1>4
  <2>3. QED
    BY <1>1, <1>2, <2>1, <2>2 DEF InStep
<1>7. InTurn'
  <2>1. \A w \in Ways : InMemory(w)' /\ Waits(w)'
    BY <1>1 DEF InMemory, Waits
  <2>2. QED
    BY <1>1, <2>1 DEF InTurn
<1>8. KeccakType'
  BY <1>1 DEF KeccakInv, KeccakType
<1>9. QED
  BY <1>1, <1>5, <1>6, <1>7, <1>8 DEF KeccakInv, HalfRound, BytesBack

LEMMA ThetaInv == KeccakInv /\ Theta => KeccakInv'
<1> SUFFICES ASSUME KeccakInv, Theta PROVE KeccakInv'
  OBVIOUS
<1> DEFINE P == IF simd THEN C ELSE [x \in 0 .. 4 |-> Parity(AE[Cur], x)]
           T == [x \in 0 .. 4 |-> XorEach(P[(x + 4) % 5], RolVector(P[(x + 1) % 5], 1))]
<1>1. kpc = "theta" /\ kpc' = "row" /\ row = 0 /\ C' = P /\ D' = T
      /\ UNCHANGED <<simd, little, block, way, mem, AE, round, row, read, ref>>
  BY DEF Theta, KeccakInv, InTurn
<1>2. simd \in BOOLEAN /\ Group \subseteq Ways /\ \A w \in Ways : ref[w].s \in States
  BY DEF KeccakInv, KeccakType, Group
<1>3. /\ AE[Cur] = [n \in Lanes |-> [w \in Group |-> ref[w].s[n]]]
      /\ simd => C = [x \in 0 .. 4 |-> [w \in Group |-> Column(ref[w].s, x)]]
      /\ round < 24
      /\ \A w \in Group : ref[w].rounds = round /\ ref[w].lfsr = RegisterAt(7 * round)
  BY <1>1 DEF KeccakInv, InStep
<1>4. P = [x \in 0 .. 4 |-> [w \in Group |-> Column(ref[w].s, x)]]
  <2>1. ASSUME NEW x \in 0 .. 4 PROVE Parity(AE[Cur], x) = [w \in Group |-> Column(ref[w].s, x)]
    <3> DEFINE st == [w \in Group |-> ref[w].s]
    <3>1. st \in [Group -> States]
      BY <1>2
    <3>2. AE[Cur] = Together(Group, st)
      BY <1>3 DEF Together
    <3>3. Parity(AE[Cur], x) = [w \in Group |-> Column(st[w], x)]
      <4> HIDE DEF st
      <4>1. QED
        BY <3>1, <3>2, ParityOfVectors
    <3>4. QED
      BY <3>3
  <2>2. QED
    BY <1>3, <2>1
<1> HIDE DEF P
<1>5. ASSUME NEW x \in 0 .. 4 PROVE T[x] = [w \in Group |-> Added(ref[w].s, x)]
  <2>1. (x + 4) % 5 \in 0 .. 4 /\ (x + 1) % 5 \in 0 .. 4
    OBVIOUS
  <2>2. /\ P[(x + 4) % 5] = [w \in Group |-> Column(ref[w].s, (x + 4) % 5)]
        /\ P[(x + 1) % 5] = [w \in Group |-> Column(ref[w].s, (x + 1) % 5)]
    BY <1>4, <2>1
  <2>3. P[(x + 1) % 5] \in [Group -> SUBSET Bits]
    BY <1>2, <2>1, <2>2, ColumnSubset
  <2>4. RolVector(P[(x + 1) % 5], 1) = [w \in Group |-> Rotated(P[(x + 1) % 5][w], 1)]
    BY <1>2, <2>3, RolVectorRotates
  <2>5. T[x] = [w \in Group |->
                  Column(ref[w].s, (x + 4) % 5) (+) Rotated(Column(ref[w].s, (x + 1) % 5), 1)]
    BY <2>2, <2>4 DEF XorEach
  <2>6. QED
    BY <2>5 DEF Added
<1>6. T = [x \in 0 .. 4 |-> [w \in Group |-> Added(ref[w].s, x)]]
  BY <1>5
<1> HIDE DEF T
<1>7. Group' = Group /\ Cur' = Cur
  BY <1>1 DEF Group, Cur
<1>8. HalfRound'
  <2>1. \A n : ~TakenBefore(0, n)
    BY DEF TakenBefore
  <2>2. \A n \in Lanes : ~(n \div 5 < 0)
    BY DEF Lanes
  <2>3. AE[Cur] = [n \in Lanes |-> [w \in Group |->
                     IF TakenBefore(0, n) THEN AfterTheta(ref[w].s, n) ELSE ref[w].s[n]]]
    BY <1>3, <2>1
  <2>4. QED
    BY <1>1, <1>6, <1>7, <2>2, <2>3 DEF HalfRound
<1>9. InStep'
  BY <1>1, <1>3, <1>7 DEF InStep
<1>10. InTurn'
  <2>1. \A w \in Ways \ Group : InMemory(w) /\ Waits(w)
    BY <1>1 DEF KeccakInv, InTurn
  <2>2. \A w \in Ways \ Group : InMemory(w)' /\ Waits(w)'
    BY <1>1, <2>1 DEF InMemory, Waits
  <2>3. QED
    BY <1>1, <1>7, <2>2 DEF InTurn
<1>11. KeccakType'
  BY <1>1 DEF KeccakInv, KeccakType
<1>12. DOMAIN AE' = 0 .. 1 /\ AE' = [c \in DOMAIN AE' |-> AE'[c]]
  BY <1>1 DEF KeccakInv
<1>13. QED
  BY <1>1, <1>8, <1>9, <1>10, <1>11, <1>12 DEF KeccakInv, BytesBack

\* The next row adds its lane to a partial parity.
LEMMA PartialGrows ==
  ASSUME NEW v, NEW x, NEW m \in 1 .. 4
  PROVE  Partial(v, x, m) (+) v[x + 5 * m] = Partial(v, x, m + 1)
<1>1. CASE m = 1
  BY <1>1 DEF Partial
<1>2. CASE m = 2
  BY <1>2 DEF Partial
<1>3. CASE m = 3
  BY <1>3 DEF Partial
<1>4. CASE m = 4
  BY <1>4 DEF Partial, Column
<1>5. QED
  BY <1>1, <1>2, <1>3, <1>4

\* The lanes taken by one more row.
LEMMA TakenGrows ==
  ASSUME NEW m \in 0 .. 4, NEW n
  PROVE  TakenBefore(m + 1, n) <=> TakenBefore(m, n) \/ \E x \in 0 .. 4 : SourceLane(x, m) = n
<1>1. \A y : y \in 0 .. (m + 1) - 1 <=> y \in 0 .. m - 1 \/ y = m
  OBVIOUS
<1>2. QED
  BY <1>1 DEF TakenBefore

\* The row: what is taken from A, what becomes of it in E, and the parities.
LEMMA RowInv == KeccakInv /\ Row => KeccakInv'
<1> SUFFICES ASSUME KeccakInv, Row PROVE KeccakInv'
  OBVIOUS
<1> DEFINE src(g) == Rows[row + 1][g + 1][1]
           added == [g \in 0 .. 4 |-> XorEach(AE[Cur][src(g)], D[src(g) % 5])]
           B == [g \in 0 .. 4 |-> RolVector(added[g], Rows[row + 1][g + 1][2])]
           E == [x \in 0 .. 4 |-> Iota(x, Chi(B[x], B[(x + 1) % 5], B[(x + 2) % 5]))]
           from == [n \in Lanes |-> IF \E g \in 0 .. 4 : src(g) = n
                                    THEN added[CHOOSE g \in 0 .. 4 : src(g) = n] ELSE AE[Cur][n]]
           to == [n \in Lanes |-> IF n \div 5 = row THEN E[n % 5]
                                  ELSE IF AE[1 - Cur] = <<>> THEN <<>> ELSE AE[1 - Cur][n]]
           Old(w) == ref[w].s
           New(w) == RoundOf(ref[w].s, round)
<1>1. /\ kpc = "row"
      /\ AE' = [c \in 0 .. 1 |-> IF c = Cur THEN from ELSE to]
      /\ C' = [x \in 0 .. 4 |-> Accumulate(x, E[x])]
      /\ row' = (row + 1) % 5
      /\ round' = (IF row = 4 THEN round + 1 ELSE round)
      /\ kpc' = (IF row < 4 THEN "row" ELSE IF round < 23 THEN "theta" ELSE "store")
      /\ ref' = [w \in Ways |-> IF row = 4 /\ w \in DOMAIN D[0] THEN RefRound(ref[w]) ELSE ref[w]]
      /\ UNCHANGED <<simd, little, block, way, mem, D, read>>
  BY DEF Row
<1>2. /\ row \in 0 .. 4 /\ round \in 0 .. 23 /\ simd \in BOOLEAN /\ Group \subseteq Ways
      /\ \A w \in Ways : ref[w] \in [rounds : Nat, lfsr : SUBSET (0 .. 7), s : States]
      /\ \A w \in Group : ref[w].rounds = round /\ ref[w].lfsr = RegisterAt(7 * round)
  <2>1. /\ row \in 0 .. 4 /\ round \in 0 .. 24 /\ simd \in BOOLEAN /\ way \in Ways
        /\ ref \in [Ways -> [rounds : Nat, lfsr : SUBSET (0 .. 7), s : States]]
    BY DEF KeccakInv, KeccakType
  <2>2. /\ round < 24
        /\ \A w \in Group : ref[w].rounds = round /\ ref[w].lfsr = RegisterAt(7 * round)
    BY <1>1 DEF KeccakInv, InStep
  <2>3. round \in 0 .. 23
    BY <2>1, <2>2
  <2>4. Group \subseteq Ways
    BY <2>1 DEF Group
  <2>5. QED
    BY <2>1, <2>2, <2>3, <2>4
<1>3. /\ D = [x \in 0 .. 4 |-> [w \in Group |-> Added(Old(w), x)]]
      /\ AE[Cur] = [n \in Lanes |-> [w \in Group |->
                      IF TakenBefore(row, n) THEN AfterTheta(Old(w), n) ELSE Old(w)[n]]]
      /\ row > 0 => AE[1 - Cur] # <<>>
      /\ \A n \in Lanes : n \div 5 < row => AE[1 - Cur][n] = [w \in Group |-> New(w)[n]]
      /\ simd /\ round < 23 /\ row > 0 =>
           C = [x \in 0 .. 4 |-> [w \in Group |-> Partial(New(w), x, row)]]
  BY <1>1 DEF KeccakInv, HalfRound
<1>4. \A w \in Ways : Old(w) \in States
  BY <1>2
<1>5. ASSUME NEW g \in 0 .. 4
      PROVE  /\ src(g) = SourceLane(g, row) /\ src(g) \in Lanes /\ src(g) % 5 \in 0 .. 4
             /\ Rows[row + 1][g + 1][2] = RhoOffsets[SourceLane(g, row)]
             /\ RhoOffsets[SourceLane(g, row)] \in 0 .. 63
             /\ ~TakenBefore(row, src(g))
  <2>1. /\ src(g) = SourceLane(g, row) /\ src(g) \in Lanes
        /\ Rows[row + 1][g + 1][2] = RhoOffsets[SourceLane(g, row)]
        /\ RhoOffsets[SourceLane(g, row)] \in 0 .. 63
    BY <1>2, RowsTable
  <2>2. src(g) % 5 \in 0 .. 4
    BY <2>1, LaneNumber
  <2>3. ASSUME NEW y \in 0 .. row - 1, NEW x \in 0 .. 4 PROVE SourceLane(x, y) # SourceLane(g, row)
    <3>1. y \in 0 .. 4 /\ y # row
      BY <1>2
    <3>2. QED
      BY <1>2, <3>1, SourceInjective
  <2>4. ~TakenBefore(row, src(g))
    BY <2>1, <2>3 DEF TakenBefore
  <2>5. QED
    BY <2>1, <2>2, <2>4
<1> HIDE DEF src, Old, New
<1>6. ASSUME NEW g \in 0 .. 4
      PROVE  added[g] = [w \in Group |-> AfterTheta(Old(w), src(g))]
  <2>1. AE[Cur][src(g)] = [w \in Group |-> Old(w)[src(g)]]
    <3>1. PICK n \in Lanes : n = src(g) /\ ~TakenBefore(row, n)
      BY <1>5
    <3>2. AE[Cur][n] = [w \in Group |->
                          IF TakenBefore(row, n) THEN AfterTheta(Old(w), n) ELSE Old(w)[n]]
      BY <1>3
    <3>3. AE[Cur][n] = [w \in Group |-> Old(w)[n]]
      BY <3>1, <3>2
    <3>4. QED
      BY <3>1, <3>3
  <2>2. D[src(g) % 5] = [w \in Group |-> Added(Old(w), src(g) % 5)]
    BY <1>3, <1>5
  <2>3. added[g] = [w \in Group |-> Old(w)[src(g)] (+) Added(Old(w), src(g) % 5)]
    BY <2>1, <2>2 DEF XorEach
  <2>4. QED
    BY <2>3 DEF AfterTheta
<1> HIDE DEF added
<1>7. ASSUME NEW g \in 0 .. 4
      PROVE  B[g] = [w \in Group |-> AfterPi(Old(w), g, row)]
  <2>1. added[g] \in [Group -> SUBSET Bits]
    BY <1>2, <1>4, <1>5, <1>6, AfterThetaSubset
  <2>2. RolVector(added[g], RhoOffsets[SourceLane(g, row)])
          = [w \in Group |-> Rotated(added[g][w], RhoOffsets[SourceLane(g, row)])]
    BY <1>2, <1>5, <2>1, RolVectorRotates
  <2>3. B[g] = [w \in Group |-> Rotated(AfterTheta(Old(w), src(g)), RhoOffsets[SourceLane(g, row)])]
    BY <1>5, <1>6, <2>2
  <2>4. QED
    BY <1>5, <2>3 DEF AfterPi
<1> HIDE DEF B
<1>8. ASSUME NEW x \in 0 .. 4
      PROVE  E[x] = [w \in Group |-> RoundLane(Old(w), round, x, row)]
  <2>1. (x + 1) % 5 \in 0 .. 4 /\ (x + 2) % 5 \in 0 .. 4
    OBVIOUS
  <2>2. /\ B[x] = [w \in Group |-> AfterPi(Old(w), x, row)]
        /\ B[(x + 1) % 5] = [w \in Group |-> AfterPi(Old(w), (x + 1) % 5, row)]
        /\ B[(x + 2) % 5] = [w \in Group |-> AfterPi(Old(w), (x + 2) % 5, row)]
    BY <1>7, <2>1
  <2>3. Chi(B[x], B[(x + 1) % 5], B[(x + 2) % 5]) = [w \in Group |-> AfterChi(Old(w), x, row)]
    BY <2>2 DEF Chi, AfterChi
  <2>4. E[x] = Iota(x, [w \in Group |-> AfterChi(Old(w), x, row)])
    BY <2>3
  <2> HIDE DEF E
  <2>5. CASE row = 0 /\ x = 0
    BY <2>4, <2>5 DEF Iota, RoundLane
  <2>6. CASE ~(row = 0 /\ x = 0)
    BY <2>4, <2>6 DEF Iota, RoundLane
  <2>7. QED
    BY <2>5, <2>6
<1> HIDE DEF E
<1>9. ASSUME NEW n \in Lanes
      PROVE  from[n] = [w \in Group |->
                          IF TakenBefore(row + 1, n) THEN AfterTheta(Old(w), n) ELSE Old(w)[n]]
  <2>1. TakenBefore(row + 1, n) <=> TakenBefore(row, n) \/ \E g \in 0 .. 4 : src(g) = n
    BY <1>2, <1>5, TakenGrows
  <2>2. CASE \E g \in 0 .. 4 : src(g) = n
    <3>1. PICK g \in 0 .. 4 : src(g) = n /\ from[n] = added[g]
      BY <2>2
    <3>2. QED
      BY <1>6, <2>1, <2>2, <3>1
  <2>3. CASE ~\E g \in 0 .. 4 : src(g) = n
    <3>1. from[n] = AE[Cur][n]
      BY <2>3
    <3>2. QED
      BY <1>3, <2>1, <2>3, <3>1
  <2>4. QED
    BY <2>2, <2>3
<1>10. to # <<>> /\ \A n \in Lanes : n \div 5 < row + 1 => to[n] = [w \in Group |-> New(w)[n]]
  <2>1. to # <<>>
    BY DEF Lanes
  <2>2. ASSUME NEW n \in Lanes, n \div 5 = row PROVE to[n] = [w \in Group |-> New(w)[n]]
    <3>1. to[n] = E[n % 5] /\ n % 5 \in 0 .. 4
      BY <2>2, LaneNumber
    <3>2. \A w \in Group : New(w)[n] = RoundLane(Old(w), round, n % 5, n \div 5)
      BY DEF New, Old, RoundOf
    <3>3. QED
      BY <1>8, <2>2, <3>1, <3>2
  <2>3. ASSUME NEW n \in Lanes, n \div 5 < row PROVE to[n] = [w \in Group |-> New(w)[n]]
    <3>1. n \div 5 \in Nat /\ row \in Int
      BY <1>2, LaneNumber
    <3>2. row > 0 /\ n \div 5 # row
      BY <2>3, <3>1
    <3>3. AE[1 - Cur] # <<>> /\ AE[1 - Cur][n] = [w \in Group |-> New(w)[n]]
      BY <1>3, <2>3, <3>2
    <3>4. QED
      BY <3>2, <3>3
  <2>4. QED
    <3>1. \A n \in Lanes : n \div 5 < row + 1 => n \div 5 = row \/ n \div 5 < row
      BY <1>2, LaneNumber
    <3>2. QED
      BY <2>1, <2>2, <2>3, <3>1
<1> HIDE DEF from, to
<1>11. ASSUME simd, round < 23
       PROVE  C' = [x \in 0 .. 4 |-> [w \in Group |-> Partial(New(w), x, row + 1)]]
  <2>1. ASSUME NEW x \in 0 .. 4
        PROVE  Accumulate(x, E[x]) = [w \in Group |-> Partial(New(w), x, row + 1)]
    <3>1. ASSUME NEW w \in Group PROVE New(w)[x + 5 * row] = E[x][w]
      <4>1. x + 5 * row \in Lanes /\ (x + 5 * row) % 5 = x /\ (x + 5 * row) \div 5 = row
        BY <1>2, LaneNumber
      <4>2. New(w)[x + 5 * row] = RoundLane(Old(w), round, x, row)
        BY <4>1 DEF New, Old, RoundOf
      <4>3. QED
        BY <1>8, <4>2
    <3>2. E[x] = [w \in Group |-> E[x][w]]
      BY <1>8
    <3>3. CASE row = 0
      <4>1. Accumulate(x, E[x]) = E[x]
        BY <1>2, <1>11, <3>3 DEF Accumulate
      <4>2. \A w \in Group : Partial(New(w), x, row + 1) = E[x][w]
        BY <3>1, <3>3 DEF Partial
      <4>3. QED
        BY <3>2, <4>1, <4>2
    <3>4. CASE row # 0
      <4>1. C[x] = [w \in Group |-> Partial(New(w), x, row)]
        BY <1>2, <1>3, <1>11, <3>4
      <4>2. Accumulate(x, E[x]) = [w \in Group |-> Partial(New(w), x, row) (+) E[x][w]]
        BY <1>2, <1>11, <3>4, <4>1 DEF Accumulate, XorEach
      <4>3. \A w \in Group : Partial(New(w), x, row) (+) E[x][w] = Partial(New(w), x, row + 1)
        <5>1. row \in 1 .. 4
          BY <1>2, <3>4
        <5>2. QED
          BY <3>1, <5>1, PartialGrows
      <4>4. QED
        BY <4>2, <4>3
    <3>5. QED
      BY <3>3, <3>4
  <2>2. QED
    BY <1>1, <2>1
<1>12. Group' = Group
  BY <1>1 DEF Group
<1>13. /\ DOMAIN AE' = 0 .. 1 /\ AE' = [c \in DOMAIN AE' |-> AE'[c]]
       /\ AE'[Cur] = from /\ AE'[1 - Cur] = to
  <2>1. Cur \in 0 .. 1 /\ 1 - Cur \in 0 .. 1 /\ 1 - Cur # Cur
    BY <1>2 DEF Cur
  <2>2. QED
    BY <1>1, <2>1
<1>14. CASE row < 4
  <2>1. /\ kpc' = "row" /\ row' = row + 1 /\ round' = round /\ Cur' = Cur
    BY <1>1, <1>2, <1>14 DEF Cur
  <2>2. ref' = ref
    <3>1. ref = [w \in Ways |-> ref[w]]
      BY DEF KeccakInv, KeccakType
    <3>2. QED
      BY <1>1, <1>14, <3>1
  <2>3. HalfRound'
    <3>1. D' = [x \in 0 .. 4 |-> [w \in Group |-> Added(ref[w].s, x)]]
      BY <1>1, <1>3 DEF Old
    <3>2. AE'[Cur] = [n \in Lanes |-> [w \in Group |->
                        IF TakenBefore(row + 1, n) THEN AfterTheta(ref[w].s, n) ELSE ref[w].s[n]]]
      <4>1. from = [n \in Lanes |-> from[n]]
        BY DEF from
      <4>2. from = [n \in Lanes |-> [w \in Group |->
                      IF TakenBefore(row + 1, n) THEN AfterTheta(Old(w), n) ELSE Old(w)[n]]]
        BY <1>9, <4>1
      <4>3. QED
        BY <1>13, <4>2 DEF Old
    <3>3. /\ AE'[1 - Cur] # <<>>
          /\ \A n \in Lanes : n \div 5 < row + 1 =>
               AE'[1 - Cur][n] = [w \in Group |-> RoundOf(ref[w].s, round)[n]]
      BY <1>10, <1>13 DEF New
    <3>4. simd /\ round < 23 =>
            C' = [x \in 0 .. 4 |-> [w \in Group |-> Partial(RoundOf(ref[w].s, round), x, row + 1)]]
      BY <1>11 DEF New
    <3>5. /\ D' = [x \in 0 .. 4 |-> [w \in Group' |-> Added(ref'[w].s, x)]]
          /\ AE'[Cur'] = [n \in Lanes |-> [w \in Group' |->
                IF TakenBefore(row', n) THEN AfterTheta(ref'[w].s, n) ELSE ref'[w].s[n]]]
      BY <1>12, <2>1, <2>2, <3>1, <3>2
    <3>6. /\ AE'[1 - Cur'] # <<>>
          /\ \A n \in Lanes : n \div 5 < row' =>
               AE'[1 - Cur'][n] = [w \in Group' |-> RoundOf(ref'[w].s, round')[n]]
      BY <1>12, <2>1, <2>2, <3>3
    <3>7. simd' /\ round' < 23 =>
            C' = [x \in 0 .. 4 |->
                    [w \in Group' |-> Partial(RoundOf(ref'[w].s, round'), x, row')]]
      BY <1>1, <1>12, <2>1, <2>2, <3>4
    <3>8. QED
      BY <3>5, <3>6, <3>7 DEF HalfRound
  <2>4. InStep'
    BY <1>2, <1>12, <2>1, <2>2 DEF InStep
  <2>5. InTurn'
    <3>1. \A w \in Ways \ Group : InMemory(w) /\ Waits(w)
      BY <1>1 DEF KeccakInv, InTurn
    <3>2. \A w \in Ways \ Group : InMemory(w)' /\ Waits(w)'
      BY <1>1, <2>2, <3>1 DEF InMemory, Waits
    <3>3. QED
      BY <1>12, <2>1, <3>2 DEF InTurn
  <2>6. KeccakType'
    <3>1. row' \in 0 .. 4
      BY <1>2, <1>14, <2>1
    <3>2. QED
      BY <1>1, <2>1, <2>2, <3>1 DEF KeccakInv, KeccakType
  <2>7. QED
    BY <1>13, <2>1, <2>3, <2>4, <2>5, <2>6 DEF KeccakInv, BytesBack
<1>15. CASE row = 4
  <2>1. /\ kpc' = (IF round < 23 THEN "theta" ELSE "store") /\ row' = 0 /\ round' = round + 1
        /\ Cur' = 1 - Cur
    <3>1. (round + 1) % 2 = 1 - (round % 2)
      BY <1>2
    <3>2. QED
      BY <1>1, <1>15, <3>1 DEF Cur
  <2>2. DOMAIN D[0] = Group
    BY <1>3
  <2>3. ASSUME NEW w \in Group
        PROVE  /\ ref'[w].rounds = round + 1
               /\ ref'[w].lfsr = RegisterAt(7 * (round + 1))
               /\ ref'[w].s = New(w)
               /\ ref'[w] \in [rounds : Nat, lfsr : SUBSET (0 .. 7), s : States]
    <3>1. ref'[w] = RefRound(ref[w])
      BY <1>1, <1>2, <1>15, <2>2
    <3>2. RefRound(ref[w]) = [rounds |-> ref[w].rounds + 1, lfsr |-> RegisterAt(7 * (round + 1)),
                              s |-> RoundOf(ref[w].s, round)]
      <4>1. PICK rec : rec = ref[w]
        OBVIOUS
      <4>2. rec.s \in States /\ rec.lfsr = RegisterAt(7 * round)
        BY <1>2, <4>1
      <4>3. QED
        BY <1>2, <4>1, <4>2, RoundOfReference
    <3>3. RoundOf(ref[w].s, round) \in States
      BY <1>2, RoundOfState
    <3>4. RegisterAt(7 * (round + 1)) \in SUBSET (0 .. 7)
      BY DEF RegisterAt
    <3>5. ref[w].rounds = round /\ round + 1 \in Nat
      BY <1>2
    <3>6. QED
      BY <3>1, <3>2, <3>3, <3>4, <3>5 DEF New
  <2>4. ASSUME NEW w \in Ways \ Group PROVE ref'[w] = ref[w]
    BY <1>1, <2>2
  <2>5. AE'[1 - Cur] = [n \in Lanes |-> [w \in Group |-> ref'[w].s[n]]]
    <3>1. to = [n \in Lanes |-> to[n]]
      BY DEF to
    <3>2. \A n \in Lanes : n \div 5 < row + 1
      BY <1>15, LaneNumber
    <3>3. to = [n \in Lanes |-> [w \in Group |-> New(w)[n]]]
      BY <1>10, <3>1, <3>2
    <3>4. QED
      BY <1>13, <2>3, <3>3
  <2>6. simd /\ round < 23 =>
          C' = [x \in 0 .. 4 |-> [w \in Group |-> Column(ref'[w].s, x)]]
    <3>1. \A w \in Group, x \in 0 .. 4 : Partial(New(w), x, row + 1) = Column(ref'[w].s, x)
      BY <1>15, <2>3 DEF Partial
    <3>2. QED
      BY <1>11, <3>1
  <2>7. InStep'
    <3>1. kpc' = "theta" => round' < 24 /\ round < 23
      BY <1>2, <2>1
    <3>2. kpc' = "store" => round' = 24
      BY <1>2, <2>1
    <3>3. kpc' \in {"theta", "store"}
      BY <2>1
    <3>4. (kpc' = "theta") /\ simd' =>
            C' = [x \in 0 .. 4 |-> [w \in Group |-> Column(ref'[w].s, x)]]
      BY <1>1, <2>6, <3>1
    <3>5. AE'[Cur'] = [n \in Lanes |-> [w \in Group |-> ref'[w].s[n]]]
      BY <2>1, <2>5
    <3>6. \A w \in Group : ref'[w].rounds = round' /\ ref'[w].lfsr = RegisterAt(7 * round')
      BY <2>1, <2>3
    <3>7. QED
      BY <1>12, <3>1, <3>2, <3>3, <3>4, <3>5, <3>6 DEF InStep
  <2>8. InTurn'
    <3>1. \A w \in Ways \ Group : InMemory(w) /\ Waits(w)
      BY <1>1 DEF KeccakInv, InTurn
    <3>2. \A w \in Ways \ Group : InMemory(w)' /\ Waits(w)'
      BY <1>1, <2>4, <3>1 DEF InMemory, Waits
    <3>3. kpc' \in {"theta", "store"}
      BY <2>1
    <3>4. QED
      BY <1>12, <2>1, <3>2, <3>3 DEF InTurn
  <2>9. KeccakType'
    <3>1. \A w \in Ways : ref'[w] \in [rounds : Nat, lfsr : SUBSET (0 .. 7), s : States]
      BY <1>2, <2>3, <2>4
    <3>2. ref' \in [Ways -> [rounds : Nat, lfsr : SUBSET (0 .. 7), s : States]]
      BY <1>1, <3>1
    <3>3. round' \in 0 .. 24 /\ row' \in 0 .. 4 /\ kpc' \in {"theta", "store"}
      BY <1>2, <2>1
    <3>4. QED
      BY <1>1, <3>2, <3>3 DEF KeccakInv, KeccakType
  <2>10. QED
    <3>1. kpc' # "row" /\ kpc' # "end"
      BY <2>1
    <3>2. QED
      BY <1>13, <2>7, <2>8, <2>9, <3>1 DEF KeccakInv, BytesBack, HalfRound
<1>16. QED
  BY <1>2, <1>14, <1>15

\* The lanes of the four states lie one after the other.
LEMMA MemoryIndex ==
  /\ \A w \in Ways, n \in Lanes : /\ 25 * w + n \in 0 .. 99
                                  /\ (25 * w + n) \div 25 = w /\ (25 * w + n) % 25 = n
  /\ \A g \in 0 .. 99 : g \div 25 \in Ways /\ g % 25 \in Lanes
BY DEF Ways, Lanes

LEMMA StoreTogetherInv == KeccakInv /\ StoreTogether => KeccakInv'
<1> SUFFICES ASSUME KeccakInv, StoreTogether PROVE KeccakInv'
  OBVIOUS
<1>1. /\ kpc = "store" /\ kpc' = "extract" /\ simd /\ row = 0 /\ way = 0
      /\ mem' = [g \in 0 .. 99 |-> AE[0][g % 25][g \div 25]]
      /\ UNCHANGED <<simd, little, block, way, AE, C, D, round, row, read, ref>>
  BY DEF StoreTogether, KeccakInv, InTurn, KeccakType
<1>2. /\ Group = Ways /\ Cur = 0
      /\ AE[0] = [n \in Lanes |-> [w \in Ways |-> ref[w].s[n]]]
      /\ \A w \in Ways : ref[w].rounds = 24
  <2>1. Group = Ways
    BY <1>1 DEF Group
  <2>2. round = 24 /\ AE[Cur] = [n \in Lanes |-> [w \in Group |-> ref[w].s[n]]]
        /\ \A w \in Group : ref[w].rounds = 24
    BY <1>1 DEF KeccakInv, InStep
  <2>3. Cur = 0
    BY <2>2 DEF Cur
  <2>4. QED
    BY <2>1, <2>2, <2>3
<1>3. \A w \in Ways : \A n \in Lanes : ref[w].s[n] \in SUBSET Bits
  BY DEF KeccakInv, KeccakType, States
<1>4. ASSUME NEW g \in 0 .. 99
      PROVE  mem'[g] = ref[g \div 25].s[g % 25] /\ mem'[g] \in SUBSET Bits
  <2>1. g \div 25 \in Ways /\ g % 25 \in Lanes
    BY MemoryIndex
  <2>2. AE[0][g % 25][g \div 25] = ref[g \div 25].s[g % 25]
    BY <1>2, <2>1
  <2>3. QED
    BY <1>1, <1>3, <2>1, <2>2
<1>5. mem' \in [0 .. 99 -> SUBSET Bits]
  BY <1>1, <1>4
<1>6. KeccakType'
  BY <1>1, <1>5 DEF KeccakInv, KeccakType
<1>7. InTurn'
  <2>1. ASSUME NEW w \in Ways, NEW n \in Lanes PROVE mem'[25 * w + n] = ref'[w].s[n]
    <3>1. PICK g \in 0 .. 99 : g = 25 * w + n /\ g \div 25 = w /\ g % 25 = n
      BY MemoryIndex
    <3>2. QED
      BY <1>1, <1>4, <3>1
  <2>2. \A w \in Ways : InMemory(w)' /\ ref'[w].rounds = 24
    BY <1>1, <1>2, <2>1 DEF InMemory
  <2>3. QED
    BY <1>1, <2>2 DEF InTurn
<1>8. QED
  BY <1>1, <1>6, <1>7 DEF KeccakInv, InStep, HalfRound, BytesBack

LEMMA StoreOneInv == KeccakInv /\ StoreOne => KeccakInv'
<1> SUFFICES ASSUME KeccakInv, StoreOne PROVE KeccakInv'
  OBVIOUS
<1>1. /\ kpc = "store" /\ ~simd /\ row = 0 /\ way \in Ways
      /\ mem' = [g \in 0 .. 99 |-> IF g \div 25 = way THEN AE[0][g % 25][way] ELSE mem[g]]
      /\ IF way < 3 THEN way' = way + 1 /\ kpc' = "load" ELSE way' = way /\ kpc' = "extract"
      /\ UNCHANGED <<simd, little, block, AE, C, D, round, row, read, ref>>
      /\ \A w \in Ways \ Group : InMemory(w) /\ Waits(w)
  BY DEF StoreOne, KeccakInv, InTurn, KeccakType
<1>2. /\ Group = {way}
      /\ AE[0] = [n \in Lanes |-> [w \in {way} |-> ref[w].s[n]]]
      /\ ref[way].rounds = 24
  <2>1. Group = {way}
    BY <1>1 DEF Group
  <2>2. round = 24 /\ AE[Cur] = [n \in Lanes |-> [w \in Group |-> ref[w].s[n]]]
        /\ \A w \in Group : ref[w].rounds = 24
    BY <1>1 DEF KeccakInv, InStep
  <2>3. Cur = 0
    BY <2>2 DEF Cur
  <2>4. QED
    BY <2>1, <2>2, <2>3
<1>3. \A w \in Ways : \A n \in Lanes : ref[w].s[n] \in SUBSET Bits
  BY DEF KeccakInv, KeccakType, States
<1>4. ASSUME NEW w \in Ways, NEW n \in Lanes PROVE mem'[25 * w + n] = ref[w].s[n]
  <2>0. 25 * w + n \in 0 .. 99 /\ (25 * w + n) \div 25 = w /\ (25 * w + n) % 25 = n
    BY MemoryIndex
  <2>1. CASE w = way
    <3>1. mem'[25 * w + n] = AE[0][n][way]
      BY <1>1, <2>0, <2>1
    <3>2. AE[0][n][way] = ref[way].s[n]
      BY <1>2
    <3>3. QED
      BY <2>1, <3>1, <3>2
  <2>2. CASE w # way
    <3>1. mem[25 * w + n] = ref[w].s[n]
      BY <1>1, <1>2, <2>2 DEF InMemory
    <3>2. QED
      BY <1>1, <2>0, <2>2, <3>1
  <2>3. QED
    BY <2>1, <2>2
<1>5. mem' \in [0 .. 99 -> SUBSET Bits]
  <2>1. ASSUME NEW g \in 0 .. 99 PROVE mem'[g] \in SUBSET Bits
    <3>1. g % 25 \in Lanes /\ mem[g] \in SUBSET Bits
      BY MemoryIndex DEF KeccakInv, KeccakType
    <3>2. CASE g \div 25 = way
      <4>1. AE[0][g % 25][way] = ref[way].s[g % 25]
        BY <1>2, <3>1
      <4>2. mem'[g] = AE[0][g % 25][way]
        BY <1>1, <3>2
      <4>3. QED
        BY <1>1, <1>3, <3>1, <4>1, <4>2
    <3>3. CASE g \div 25 # way
      BY <1>1, <3>1, <3>3
    <3>4. QED
      BY <3>2, <3>3
  <2>2. QED
    BY <1>1, <2>1
<1>6. \A w \in Ways : InMemory(w)'
  BY <1>1, <1>4 DEF InMemory
<1>7. \A w \in Ways : w \in 0 .. 3
  BY DEF Ways
<1>8. /\ \A w \in Ways : w < way => ref[w].rounds = 24
      /\ \A w \in Ways : w > way => ref[w].rounds = 0 /\ ref[w].lfsr = RegisterAt(0)
  BY <1>1, <1>2, <1>7 DEF Waits
<1>9. CASE way < 3
  <2>1. way' = way + 1 /\ kpc' = "load" /\ way' \in Ways
    BY <1>1, <1>7, <1>9 DEF Ways
  <2>2. ASSUME NEW w \in Ways PROVE Waits(w)'
    <3>1. CASE w < way'
      <4>1. w < way \/ w = way
        BY <1>1, <1>7, <2>1, <3>1
      <4>2. QED
        BY <1>1, <1>2, <1>8, <3>1, <4>1 DEF Waits
    <3>2. CASE ~(w < way')
      <4>1. w > way
        BY <1>1, <1>7, <2>1, <3>2
      <4>2. QED
        BY <1>1, <1>8, <3>2, <4>1 DEF Waits
    <3>3. QED
      BY <3>1, <3>2
  <2>3. InTurn'
    BY <1>1, <1>6, <2>1, <2>2 DEF InTurn
  <2>4. KeccakType'
    BY <1>1, <1>5, <2>1 DEF KeccakInv, KeccakType
  <2>5. QED
    BY <1>1, <2>1, <2>3, <2>4 DEF KeccakInv, InStep, HalfRound, BytesBack
<1>10. CASE ~(way < 3)
  <2>1. way' = way /\ kpc' = "extract"
    BY <1>1, <1>10
  <2>2. \A w \in Ways : ref[w].rounds = 24
    BY <1>1, <1>2, <1>7, <1>8, <1>10
  <2>3. InTurn'
    BY <1>1, <1>6, <2>1, <2>2 DEF InTurn
  <2>4. KeccakType'
    BY <1>1, <1>5, <2>1 DEF KeccakInv, KeccakType
  <2>5. QED
    BY <1>1, <2>1, <2>3, <2>4 DEF KeccakInv, InStep, HalfRound, BytesBack
<1>11. QED
  BY <1>9, <1>10

LEMMA ExtractBytesInv == KeccakInv /\ ExtractBytes => KeccakInv'
<1> SUFFICES ASSUME KeccakInv, ExtractBytes PROVE KeccakInv'
  OBVIOUS
<1> DEFINE Byte(w, n) ==
             LET p == block.offset + n - 1
                 lane == 25 * w + (p \div 8)
             IN  IF little THEN LaneBytes(mem, lane)[p % 8]
                 ELSE {b - 8 * (p % 8) : b \in {c \in mem[lane] : c >= 8 * (p % 8)}} \cap 0 .. 7
<1>1. /\ kpc = "extract" /\ kpc' = "end"
      /\ read' = [w \in Ways |-> [n \in 1 .. Len(block.data[0]) |-> Byte(w, n)]]
      /\ UNCHANGED <<simd, little, block, way, mem, AE, C, D, round, row, ref>>
  BY DEF ExtractBytes
<1>2. block \in Blocks /\ mem \in [0 .. 99 -> SUBSET Bits]
  BY DEF KeccakInv, KeccakType
<1>3. \A w \in Ways : InMemory(w) /\ ref[w].rounds = 24
  BY <1>1 DEF KeccakInv, InTurn
<1>4. ASSUME NEW w \in Ways, NEW n \in 1 .. Len(block.data[0])
      PROVE  Byte(w, n) = {b \in 0 .. 7 : LET g == 8 * (block.offset + n - 1) + b
                                          IN  g % 64 \in ref[w].s[g \div 64]}
  <2> DEFINE p == block.offset + n - 1
             q == p \div 8
             e == p % 8
  <2>1. p \in 0 .. 199 /\ p \in Int
    <3>1. /\ block.offset \in Nat /\ Len(block.data[0]) \in Nat
          /\ block.offset + Len(block.data[0]) <= 200
      BY <1>2, BlockFacts
    <3>2. PICK c \in Nat, d \in Nat : c = block.offset /\ d = Len(block.data[0]) /\ c + d <= 200
      BY <3>1
    <3>3. n \in 1 .. d /\ p = c + n - 1
      BY <3>2
    <3>4. PICK m \in 1 .. d : m = n
      BY <3>3
    <3>5. c + m - 1 \in 0 .. 199
      <4>1. c + d <= 200
        BY <3>2
      <4>2. 1 <= m /\ m <= d
        OBVIOUS
      <4>3. QED
        BY <4>1, <4>2
    <3> HIDE DEF p
    <3>6. p = c + m - 1
      BY <3>3, <3>4
    <3>7. QED
      BY <3>5, <3>6
  <2> HIDE DEF p
  <2>2. q \in Lanes /\ e \in 0 .. 7 /\ p = 8 * q + e
    BY <2>1 DEF Lanes
  <2> HIDE DEF q, e
  <2>3. mem[25 * w + q] = ref[w].s[q] /\ mem[25 * w + q] \in SUBSET Bits
    BY <1>2, <1>3, <2>2, MemoryIndex DEF InMemory
  <2>4. Byte(w, n) = {b \in 0 .. 7 : 8 * e + b \in mem[25 * w + q]}
    <3>1. Byte(w, n) = IF little THEN LaneBytes(mem, 25 * w + q)[e]
                       ELSE {b - 8 * e : b \in {c \in mem[25 * w + q] : c >= 8 * e}} \cap 0 .. 7
      BY DEF p, q, e
    <3>2. LaneBytes(mem, 25 * w + q)[e] = {b \in 0 .. 7 : 8 * e + b \in mem[25 * w + q]}
      BY <2>2 DEF LaneBytes
    <3> HIDE DEF Byte
    <3>3. QED
      BY <2>2, <2>3, <3>1, <3>2, ByteRead
  <2>5. ASSUME NEW b \in 0 .. 7
        PROVE  (8 * p + b) \div 64 = q /\ (8 * p + b) % 64 = 8 * e + b
    <3>1. q \in 0 .. 24 /\ 8 * p + b = 64 * q + (8 * e + b) /\ 8 * e + b \in 0 .. 63
      BY <2>2 DEF Lanes
    <3>2. ASSUME NEW m \in 0 .. 24, NEW d \in 0 .. 63, NEW v, v = 64 * m + d
          PROVE  v \div 64 = m /\ v % 64 = d
      BY <3>2
    <3>3. PICK m \in 0 .. 24, d \in 0 .. 63 : m = q /\ d = 8 * e + b
      BY <3>1
    <3>4. 8 * p + b = 64 * m + d
      BY <3>1, <3>3
    <3>5. (8 * p + b) \div 64 = m /\ (8 * p + b) % 64 = d
      BY <3>2, <3>4
    <3>6. QED
      BY <3>3, <3>5
  <2> HIDE DEF Byte
  <2>6. Byte(w, n) = {b \in 0 .. 7 : (8 * p + b) % 64 \in ref[w].s[(8 * p + b) \div 64]}
    BY <2>3, <2>4, <2>5
  <2>7. QED
    BY <2>6 DEF p
<1> HIDE DEF Byte
<1>5. BytesBack'
  <2>1. ASSUME NEW w \in Ways, NEW n \in DOMAIN read'[w]
        PROVE  read'[w][n] = {b \in 0 .. 7 : LET g == 8 * (block'.offset + n - 1) + b
                                             IN  g % 64 \in ref'[w].s[g \div 64]}
    <3>1. n \in 1 .. Len(block.data[0]) /\ read'[w][n] = Byte(w, n)
      BY <1>1
    <3>2. block' = block /\ ref' = ref
      BY <1>1
    <3>3. QED
      BY <1>4, <3>1, <3>2
  <2>2. QED
    BY <2>1 DEF BytesBack
<1>6. KeccakType'
  BY <1>1 DEF KeccakInv, KeccakType
<1>7. InTurn'
  <2>1. row = 0
    BY <1>1 DEF KeccakInv, InTurn
  <2>2. QED
    BY <1>1, <1>3, <2>1 DEF InTurn, InMemory
<1>8. QED
  BY <1>1, <1>5, <1>6, <1>7 DEF KeccakInv, InStep, HalfRound

LEMMA KeccakStutterInv == KeccakInv /\ UNCHANGED kvars => KeccakInv'
<1> SUFFICES ASSUME KeccakInv, UNCHANGED kvars PROVE KeccakInv'
  OBVIOUS
<1>1. UNCHANGED <<kpc, simd, little, block, way, mem, AE, C, D, round, row, read, ref>>
  BY DEF kvars
<1>2. Group' = Group /\ Cur' = Cur
  BY <1>1 DEF Group, Cur
<1>3. KeccakType'
  BY <1>1 DEF KeccakInv, KeccakType
<1>4. InTurn'
  <2>1. \A w \in Ways : (InMemory(w)' <=> InMemory(w)) /\ (Waits(w)' <=> Waits(w))
    BY <1>1 DEF InMemory, Waits
  <2>2. QED
    BY <1>1, <1>2, <2>1 DEF KeccakInv, InTurn
<1>5. InStep'
  BY <1>1, <1>2 DEF KeccakInv, InStep
<1>6. HalfRound'
  BY <1>1, <1>2 DEF KeccakInv, HalfRound
<1>7. BytesBack'
  BY <1>1 DEF KeccakInv, BytesBack
<1>8. QED
  BY <1>1, <1>3, <1>4, <1>5, <1>6, <1>7 DEF KeccakInv

\* The invariant holds throughout.
LEMMA KeccakInvariance == KeccakSpec => []KeccakInv
<1>1. KeccakInv /\ [KeccakNext]_kvars => KeccakInv'
  BY XorBytesInv, LoadTogetherInv, LoadOneInv, ThetaInv, RowInv, StoreTogetherInv, StoreOneInv,
     ExtractBytesInv, KeccakStutterInv DEF KeccakNext
<1>2. QED
  BY KeccakInitInv, <1>1, PTL DEF KeccakSpec

\* It implies the two properties.
LEMMA InvImpliesRounds == KeccakInv => RoundsFollowKeccak
<1> SUFFICES ASSUME KeccakInv, kpc = "theta"
             PROVE  /\ \A w \in DOMAIN AE[Cur][0] :
                         /\ ref[w].rounds = round
                         /\ [n \in Lanes |-> AE[Cur][n][w]] = ref[w].s
                    /\ simd => \A x \in 0 .. 4 : C[x] = Parity(AE[Cur], x)
  BY DEF RoundsFollowKeccak
<1> DEFINE v == [w \in Group |-> ref[w].s]
<1>1. /\ AE[Cur] = [n \in Lanes |-> [w \in Group |-> ref[w].s[n]]]
      /\ simd => C = [x \in 0 .. 4 |-> [w \in Group |-> Column(ref[w].s, x)]]
      /\ \A w \in Group : ref[w].rounds = round
  BY DEF KeccakInv, InStep
<1>2. v \in [Group -> States]
  BY DEF KeccakInv, KeccakType, Group
<1>3. AE[Cur] = Together(Group, v)
  BY <1>1 DEF Together
<1>4. 0 \in Lanes
  BY DEF Lanes
<1>5. DOMAIN AE[Cur][0] = Group
  BY <1>1, <1>4
<1>6. ASSUME NEW w \in Group PROVE [n \in Lanes |-> AE[Cur][n][w]] = ref[w].s
  <2>1. v[w] \in States /\ v[w] = ref[w].s
    BY <1>2
  <2>2. \A n \in Lanes : AE[Cur][n][w] = ref[w].s[n]
    BY <1>1
  <2> HIDE DEF v
  <2>3. QED
    BY <2>1, <2>2 DEF States
<1>7. ASSUME simd, NEW x \in 0 .. 4 PROVE C[x] = Parity(AE[Cur], x)
  <2>1. C[x] = [w \in Group |-> v[w]] \/ C[x] = [w \in Group |-> Column(v[w], x)]
    BY <1>1, <1>7
  <2> HIDE DEF v
  <2>2. Parity(AE[Cur], x) = [w \in Group |-> Column(v[w], x)]
    BY <1>2, <1>3, ParityOfVectors
  <2>3. C[x] = [w \in Group |-> Column(v[w], x)]
    BY <1>1, <1>7 DEF v
  <2>4. QED
    BY <2>2, <2>3
<1>8. QED
  BY <1>1, <1>5, <1>6, <1>7

LEMMA InvImpliesPermutes == KeccakInv => PermutesEach
<1> SUFFICES ASSUME KeccakInv, kpc \in {"load", "extract", "end"}, NEW w \in Ways
             PROVE  /\ ref[w].rounds = IF kpc # "load" \/ w < way THEN 24 ELSE 0
                    /\ [n \in Lanes |-> mem[25 * w + n]] = ref[w].s
                    /\ kpc = "end" => \A n \in DOMAIN read[w] :
                         read[w][n] = {b \in 0 .. 7 : LET g == 8 * (block.offset + n - 1) + b
                                                      IN  g % 64 \in ref[w].s[g \div 64]}
  BY DEF PermutesEach
<1>1. InMemory(w) /\ ref[w].rounds = IF kpc # "load" \/ w < way THEN 24 ELSE 0
  BY DEF KeccakInv, InTurn, Waits
<1>2. ref[w].s \in [Lanes -> SUBSET Bits]
  BY DEF KeccakInv, KeccakType, States
<1>3. [n \in Lanes |-> mem[25 * w + n]] = ref[w].s
  BY <1>1, <1>2 DEF InMemory
<1>4. QED
  BY <1>1, <1>3 DEF KeccakInv, BytesBack

\* Whatever the memory holds and whatever is absorbed, with either backend: after any
\* number of rounds the copy that the next round reads is the state after as many rounds
\* of FIPS 202, and the parities that AVX2 carried over are those of its columns.
THEOREM RoundsAreKeccak == KeccakSpec => []RoundsFollowKeccak
BY KeccakInvariance, InvImpliesRounds, PTL

\* Each of the four states has its 24 rounds and is stored where it was loaded, and the
\* bytes read back are those of its state string, on a machine of either byte order.
THEOREM EachStatePermuted == KeccakSpec => []PermutesEach
BY KeccakInvariance, InvImpliesPermutes, PTL
==================================================================================
